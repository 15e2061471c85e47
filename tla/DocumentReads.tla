---------------------------- MODULE DocumentReads ----------------------------
(***************************************************************************)
(* How the Cloud Firestore client answers the get() calls of               *)
(* getPointRecord and getJobRecord.  Paths are under                       *)
(* src/ios/Pods/FirebaseFirestore/Firestore/core/src.                      *)
(*                                                                         *)
(* A get is a listener that is removed at its first event                  *)
(* (api/document_reference.cc).  Gets of one document share a view         *)
(* (core/event_manager.cc, core/sync_engine.cc) and a target of the one    *)
(* watch stream (remote/remote_store.cc, remote/stream.cc), which is       *)
(* opened when a target needs it, retried after an error and closed when   *)
(* idle.  Whether an answer may come from the cache is decided by the      *)
(* online state (remote/online_state_tracker.cc).  Everything but the      *)
(* delivery of events runs on the worker queue, one task per action.       *)
(*                                                                         *)
(* No document read has local mutations and no document is deleted: the    *)
(* views are single documents with no limbo resolution.  The states Open   *)
(* and Healthy of a stream differ only in what an authentication error     *)
(* does to the token, and are one here.                                    *)
(***************************************************************************)
EXTENDS Integers, Sequences, FiniteSets, SequencesExt

CONSTANTS Docs,        \* the documents read
          Gets,        \* the calls of get(), each made once
          MaxVersion,  \* bound: changes of a document at the server
          MaxBreaks,   \* bound: stream errors and network restarts
          MaxRejects   \* bound: listens the server refuses

ASSUME BoundsAssumption ==
  MaxVersion \in Nat \ {0} /\ MaxBreaks \in Nat /\ MaxRejects \in Nat

Version == 0..MaxVersion   \* 0: there is no such document

VARIABLES tasks,       \* the worker queue: listeners to add and to remove
          doc,         \* doc[g]: the document g reads, Nothing before the call
          listeners,   \* EventManager::queries_: listeners[d] of the query of d
          synced,      \* documents whose view is in sync with the server
          cache,       \* cache[d]: the version in the local store
          raised,      \* listeners that raised their initial event
          events,      \* events[g]: waiting on the user executor
          muted,       \* listeners removed by their get
          answers,     \* answers[g]: what g's caller was told
          tracker,     \* OnlineStateTracker
          stream,      \* the watch stream
          targets,     \* RemoteStore::listen_targets_
          outstanding, \* outstanding[d]: WatchChangeAggregator, acks awaited
          req, resp,   \* messages on the stream, to and from the server
          server,      \* server[d]: the version at the server
          watched,     \* targets the server sends changes of
          breaks, rejects, \* counters of the bounded faults
          aborted,     \* a HARD_ASSERT failed and the app is gone
          calledAt,    \* history: server[doc[g]] when g was called
          joined,      \* history: gets that found a view open
          inherited,   \* history: the first target found the stream started
          crossed      \* history: a refusal arrived with other acks awaited

client == <<listeners, synced, cache, raised, events>>
caller == <<doc, muted, answers, calledAt>>
link == <<stream, tracker, targets, outstanding, req, resp, watched>>
history == <<joined, inherited, crossed>>
app == <<tasks, client, caller, link, server, breaks, rejects, history>>
vars == <<app, aborted>>

Nothing == "nothing"
ASSUME NothingAssumption == Nothing \notin Docs
Adding(g) == [op |-> "add", get |-> g]
Removing(g) == [op |-> "remove", get |-> g]
Found(v, c) == [kind |-> "snapshot", version |-> v, cached |-> c]
Failed == [kind |-> "error", version |-> 0, cached |-> FALSE]
Event == [kind : {"snapshot", "error"}, version : Version, cached : BOOLEAN]
Answer == Event \cup {[kind |-> "offline", version |-> 0, cached |-> TRUE]}
Request == [op : {"watch", "unwatch"}, doc : Docs]
Change == [op : {"added", "removed", "refused", "current"}, doc : Docs, version : Version]

-----------------------------------------------------------------------------
(* OnlineStateTracker *)

\* Mutated: no timer for a state that is Unknown already.
HandleWatchStreamStartOnce(t) ==
  IF t.failures # 0 \/ t.online = "Unknown" THEN t
  ELSE [t EXCEPT !.online = "Unknown", !.timer = TRUE]

\* The first attempt is given ten seconds to settle the online state.
HandleWatchStreamStart(t) ==
  IF t.failures # 0 THEN t ELSE [t EXCEPT !.online = "Unknown", !.timer = TRUE]

\* kMaxWatchStreamFailures is 1: any failure but the first after being Online
\* makes the client Offline.
HandleWatchStreamFailure(t) ==
  IF t.online = "Online" THEN [t EXCEPT !.online = "Unknown"]
  ELSE [online |-> "Offline", failures |-> t.failures + 1, timer |-> FALSE]

\* Mutated: the timer is left running.
UpdateStateOnly(t, s) == [online |-> s, failures |-> 0, timer |-> t.timer]

UpdateState(t, s) == [online |-> s, failures |-> 0, timer |-> FALSE]

(* Stream *)

IsOpen(s) == s.state = "Open"

\* Mutated: a stream that failed counts as started.
IsStartedOnce(s) == s.state # "Initial"

IsStarted(s) == s.state \in {"Starting", "Backoff", "Open"}

\* After an error the start is delayed; otherwise credentials are requested,
\* and the answer is tagged with the close count of now.
Start(s) ==
  IF s.state = "Error" THEN [s EXCEPT !.state = "Backoff"]
  ELSE [s EXCEPT !.state = "Starting", !.credentials = @ \cup {s.closes}]

Close(s, graceful) ==
  [s EXCEPT !.state = IF graceful THEN "Initial" ELSE "Error",
            !.grpc = FALSE, !.idle = FALSE, !.closes = @ + 1]

Write(s) == [s EXCEPT !.idle = FALSE]
MarkIdle(s) == [s EXCEPT !.idle = IsOpen(s)]

-----------------------------------------------------------------------------
(* Views and listeners *)

\* ShouldRaiseInitialEvent for a listener that waits for the sync while online.
ShouldRaiseInitialEvent(inSync, online) == inSync \/ online = "Offline"

\* Listeners ls raise a snapshot of version v.
Raise(ls, v, cached) ==
  /\ raised' = raised \cup ls
  /\ events' = [g \in Gets |-> IF g \in ls THEN Append(events[g], Found(v[doc[g]], cached))
                               ELSE events[g]]

\* SyncEngine and EventManager on a change of the online state.  Only the step
\* to Offline tells listeners anything: views fall out of sync, which listeners
\* that already raised an event report, and the others raise their first one.
HandleOnlineStateChange(old, new) ==
  IF new = "Offline" /\ old # "Offline"
  THEN /\ Raise({g \in UNION {listeners[d] : d \in Docs} :
                   g \notin raised \/ doc[g] \in synced}, cache, TRUE)
       /\ synced' = {}
  ELSE UNCHANGED <<synced, raised, events>>

-----------------------------------------------------------------------------
(* The calls *)

Init ==
  /\ tasks = << >>
  /\ doc = [g \in Gets |-> Nothing]
  /\ listeners = [d \in Docs |-> {}]
  /\ synced = {}
  /\ server \in [Docs -> {0, 1}]
  /\ cache \in [Docs -> {0, 1}]
  /\ \A d \in Docs : cache[d] <= server[d]
  /\ raised = {}
  /\ events = [g \in Gets |-> << >>]
  /\ muted = {}
  /\ answers = [g \in Gets |-> << >>]
  /\ tracker = [online |-> "Unknown", failures |-> 0, timer |-> FALSE]
  /\ stream = [state |-> "Initial", grpc |-> FALSE, idle |-> FALSE,
               closes |-> 0, credentials |-> {}]
  /\ targets = {}
  /\ outstanding = [d \in Docs |-> 0]
  /\ req = << >>
  /\ resp = << >>
  /\ watched = {}
  /\ breaks = 0
  /\ rejects = 0
  /\ aborted = FALSE
  /\ calledAt = [g \in Gets |-> 0]
  /\ joined = {}
  /\ inherited = FALSE
  /\ crossed = FALSE

\* get(): the listener is created and its addition enqueued.
GetDocument(g, d) ==
  /\ doc[g] = Nothing
  /\ doc' = [doc EXCEPT ![g] = d]
  /\ calledAt' = [calledAt EXCEPT ![g] = server[d]]
  /\ tasks' = Append(tasks, Adding(g))
  /\ UNCHANGED <<client, muted, answers, link, server, breaks, rejects, history>>

\* Mutated: the listener goes on until the worker queue removes it.
MuteLater(g) == UNCHANGED muted

\* AsyncEventListener::Mute, at once and from any thread.
Mute(g) == muted' = muted \cup {g}

\* ListenOnce::OnEvent on the user executor, unless the listener is muted.  A
\* snapshot removes the listener before the caller hears of it; a document that
\* is missing from the cache is an error.
OnEvent(g) ==
  /\ events[g] # << >>
  /\ LET e == Head(events[g]) IN
       \/ /\ g \in muted
          /\ UNCHANGED <<tasks, muted, answers>>
       \/ /\ g \notin muted
          /\ e.kind = "error"
          /\ answers' = [answers EXCEPT ![g] = Append(@, e)]
          /\ UNCHANGED <<tasks, muted>>
       \/ /\ g \notin muted
          /\ e.kind = "snapshot"
          /\ Mute(g)
          /\ tasks' = Append(tasks, Removing(g))
          /\ answers' = [answers EXCEPT ![g] =
               Append(@, IF e.version = 0 /\ e.cached THEN [e EXCEPT !.kind = "offline"]
                         ELSE e)]
  /\ events' = [events EXCEPT ![g] = Tail(@)]
  /\ UNCHANGED <<doc, listeners, synced, cache, raised, calledAt, link, server,
                 breaks, rejects, history>>

-----------------------------------------------------------------------------
(* EventManager and RemoteStore *)

\* RemoteStore::StartWatchStream on an aggregator with no state.
StartWatchStream(s, t) ==
  /\ stream' = Start(s)
  /\ tracker' = HandleWatchStreamStart(t)

\* SendWatchRequest and SendUnwatchRequest on the open stream s.
Send(op, d, s) ==
  /\ outstanding' = [outstanding EXCEPT ![d] = @ + 1]
  /\ req' = Append(req, [op |-> op, doc |-> d])
  /\ stream' = s

\* RemoteStore::Listen.
Listen(d) ==
  /\ targets' = targets \cup {d}
  /\ \/ /\ ~IsStarted(stream)
        /\ StartWatchStream(stream, tracker)
        /\ UNCHANGED <<outstanding, req>>
     \/ /\ IsOpen(stream)
        /\ Send("watch", d, Write(stream))
        /\ UNCHANGED tracker
     \/ /\ IsStarted(stream) /\ ~IsOpen(stream)
        /\ UNCHANGED <<stream, tracker, outstanding, req>>
  /\ inherited' = IF targets = {} THEN IsStarted(stream) ELSE inherited
  /\ UNCHANGED <<resp, watched>>

\* EventManager::AddQueryListener: the first listener of a query opens the view
\* on what is in the cache, a further one gets the last snapshot of the view.
AddQueryListener ==
  /\ tasks # << >> /\ Head(tasks).op = "add"
  /\ tasks' = Tail(tasks)
  /\ LET g == Head(tasks).get
         d == doc[g]
     IN /\ listeners' = [listeners EXCEPT ![d] = @ \cup {g}]
        /\ \/ listeners[d] = {} /\ Listen(d) /\ UNCHANGED joined
           \/ listeners[d] # {} /\ joined' = joined \cup {g} /\ UNCHANGED <<link, inherited>>
        /\ Raise(IF ShouldRaiseInitialEvent(d \in synced, tracker'.online)
                 THEN {g} ELSE {}, cache, d \notin synced)
  /\ UNCHANGED <<synced, cache, caller, server, breaks, rejects, crossed>>

\* RemoteStore::StopListening.
StopListening(d) ==
  /\ targets' = targets \ {d}
  /\ IF IsOpen(stream)
     THEN /\ Send("unwatch", d, IF targets' = {} THEN MarkIdle(Write(stream)) ELSE Write(stream))
          /\ UNCHANGED tracker
     ELSE /\ tracker' = IF targets' = {} THEN UpdateState(tracker, "Unknown") ELSE tracker
          /\ UNCHANGED <<stream, outstanding, req>>
  /\ UNCHANGED <<resp, watched>>

\* EventManager::RemoveQueryListener: the last listener closes the view.  The
\* query may be gone, or be one opened since, after an error.
RemoveQueryListener ==
  /\ tasks # << >> /\ Head(tasks).op = "remove"
  /\ tasks' = Tail(tasks)
  /\ LET g == Head(tasks).get
         d == doc[g]
     IN /\ listeners' = [listeners EXCEPT ![d] = @ \ {g}]
        /\ \/ /\ listeners[d] = {g}
              /\ StopListening(d)
              /\ synced' = synced \ {d}
           \/ /\ listeners[d] # {g}
              /\ UNCHANGED <<synced, link>>
  /\ UNCHANGED <<cache, raised, events, caller, server, breaks, rejects, history>>

-----------------------------------------------------------------------------
(* The watch stream *)

\* Stream::Close of s and OnWatchStreamClose, with the network enabled: a stream
\* still needed is started again.  What was on the wire is lost.
CloseStream(s, graceful) ==
  LET closed == Close(s, graceful) IN
  /\ IF targets # {}
     THEN StartWatchStream(closed, HandleWatchStreamFailure(tracker)) /\ inherited' = FALSE
     ELSE /\ stream' = closed
          /\ tracker' = UpdateState(tracker, "Unknown")
          /\ UNCHANGED inherited
  /\ outstanding' = [d \in Docs |-> 0]
  /\ req' = << >> /\ resp' = << >> /\ watched' = {}
  /\ HandleOnlineStateChange(tracker.online, tracker'.online)
  /\ UNCHANGED <<tasks, listeners, cache, caller, targets, server, rejects, joined, crossed>>

\* What the steps of the stream that close nothing leave alone.
OnlyStream ==
  UNCHANGED <<tasks, client, caller, tracker, targets, resp, watched, server,
              breaks, rejects, history>>

Break == breaks < MaxBreaks /\ breaks' = breaks + 1

\* The credentials arrive.  A stream closed since they were requested ignores
\* them; otherwise the call is made, or there is no token to make it with.
ResumeStartWithCredentials(c) ==
  /\ c \in stream.credentials
  /\ LET s == [stream EXCEPT !.credentials = @ \ {c}] IN
       \/ c # s.closes /\ stream' = s /\ OnlyStream /\ UNCHANGED <<outstanding, req>>
       \/ /\ c = s.closes
          /\ stream' = [s EXCEPT !.grpc = TRUE]
          /\ OnlyStream
          /\ UNCHANGED <<outstanding, req>>
       \/ c = s.closes /\ Break /\ CloseStream(s, FALSE)

\* The stream opens: every target is sent.
OnStreamStart ==
  /\ stream.grpc /\ ~IsOpen(stream)
  /\ stream' = [stream EXCEPT !.state = "Open"]
  /\ outstanding' = [d \in Docs |-> IF d \in targets THEN outstanding[d] + 1 ELSE outstanding[d]]
  /\ req' = LET order == SetToSeq(targets) IN
              [n \in 1..Len(order) |-> [op |-> "watch", doc |-> order[n]]]
  /\ OnlyStream

\* gRPC ends the call: with an error, when the server is unreachable, the
\* connection breaks or its keepalive goes unanswered, or with the status OK, if
\* the server sends that (external).  Close takes OK for a graceful stop.
OnStreamFinish ==
  /\ stream.grpc
  /\ Break
  /\ \/ CloseStream(stream, FALSE)
     \/ targets = {} /\ CloseStream(stream, TRUE)

\* The status is OK while a target is watched: OnWatchStreamClose asserts that a
\* stream stopped gracefully is not needed.
StoppedWhileNeeded ==
  /\ ~aborted
  /\ stream.grpc /\ targets # {} /\ breaks < MaxBreaks
  /\ aborted' = TRUE
  /\ UNCHANGED app

\* The delay after an error is over.
BackoffElapsed ==
  /\ stream.state = "Backoff"
  /\ stream' = Start([stream EXCEPT !.state = "Initial"])
  /\ OnlyStream
  /\ UNCHANGED <<outstanding, req>>

\* The stream was idle for a minute.
IdleTimeout ==
  /\ stream.idle
  /\ CloseStream(stream, TRUE)
  /\ UNCHANGED breaks

\* The online state did not settle within ten seconds.
OnlineStateTimeout ==
  /\ tracker.timer
  /\ tracker' = [tracker EXCEPT !.timer = FALSE, !.online = "Offline"]
  /\ HandleOnlineStateChange(tracker.online, "Offline")
  /\ UNCHANGED <<tasks, listeners, cache, caller, stream, targets, outstanding, req, resp,
                 watched, server, breaks, rejects, history>>

\* The device is back on a network, or the user changed: the stream is stopped
\* with the network disabled, so that nothing restarts it, and started afresh
\* with no delay if there are targets.
RestartNetwork ==
  /\ Break
  /\ LET s == [(IF IsStarted(stream) THEN Close(stream, TRUE) ELSE stream)
                 EXCEPT !.state = "Initial"]
         t == UpdateState(tracker, "Unknown")
     IN IF targets # {} THEN StartWatchStream(s, t) ELSE stream' = s /\ tracker' = t
  /\ inherited' = FALSE
  /\ outstanding' = [d \in Docs |-> 0]
  /\ req' = << >> /\ resp' = << >> /\ watched' = {}
  /\ UNCHANGED <<tasks, client, caller, targets, server, rejects, joined, crossed>>

-----------------------------------------------------------------------------
(* The server (external) and what it sends *)

\* A document changes; a server that watches it sends the change.
ServerChange(d) ==
  /\ server[d] < MaxVersion
  /\ server' = [server EXCEPT ![d] = @ + 1]
  /\ resp' = IF d \in watched
             THEN Append(resp, [op |-> "current", doc |-> d, version |-> server'[d]])
             ELSE resp
  /\ UNCHANGED <<tasks, client, caller, stream, tracker, targets, outstanding, req, watched,
                 breaks, rejects, history>>

\* The server takes a request: a watch is acknowledged and answered with the
\* document, or refused; an unwatch is acknowledged.
ServerAnswers ==
  /\ IsOpen(stream) /\ req # << >>
  /\ req' = Tail(req)
  /\ LET d == Head(req).doc
         Msg(op) == [op |-> op, doc |-> d, version |-> server[d]]
     IN \/ /\ Head(req).op = "watch"
           /\ resp' = resp \o <<Msg("added"), Msg("current")>>
           /\ watched' = watched \cup {d}
           /\ UNCHANGED rejects
        \/ /\ Head(req).op = "watch"
           /\ rejects < MaxRejects
           /\ rejects' = rejects + 1
           /\ resp' = Append(resp, Msg("refused"))
           /\ UNCHANGED watched
        \/ /\ Head(req).op = "unwatch"
           /\ resp' = Append(resp, Msg("removed"))
           /\ watched' = watched \ {d}
           /\ UNCHANGED rejects
  /\ UNCHANGED <<tasks, client, caller, stream, tracker, targets, outstanding, server,
                 breaks, history>>

\* ProcessTargetError: a target no longer listened to is ignored; otherwise
\* every listener of the query is told and the query and its state are dropped.
ProcessTargetError(d) ==
  /\ targets' = targets \ {d}
  /\ crossed' = (crossed \/ outstanding[d] # 1)
  /\ IF d \in targets
     THEN /\ outstanding' = [outstanding EXCEPT ![d] = 0]
          /\ events' = [g \in Gets |-> IF g \in listeners[d] THEN Append(events[g], Failed)
                                       ELSE events[g]]
          /\ listeners' = [listeners EXCEPT ![d] = {}]
          /\ synced' = synced \ {d}
     ELSE UNCHANGED <<outstanding, events, listeners, synced>>
  /\ UNCHANGED <<cache, raised>>

\* HandleTargetChange: an acknowledgement of the server.
RecordTargetResponse(d) ==
  /\ outstanding' = [outstanding EXCEPT ![d] = @ - 1]
  /\ UNCHANGED <<client, targets, crossed>>

\* Mutated: acknowledgements are not waited for.
IsListenedTo(d) == d \in targets

\* WatchChangeAggregator::IsActiveTarget.
IsActiveTarget(d) == d \in targets /\ outstanding[d] = 0

\* HandleDocumentChange, the Current mark and the snapshot that applies them,
\* ignored for a target that is not listened to or awaits acknowledgements.
\* ApplyRemoteEvent updates the cache and the view; a view that changed sends a
\* snapshot to its listeners.
ApplyRemoteEvent(d, v) ==
  /\ IF IsActiveTarget(d) /\ (v > cache[d] \/ d \notin synced)
     THEN /\ cache' = [cache EXCEPT ![d] = IF v > @ THEN v ELSE @]
          /\ synced' = synced \cup {d}
          /\ Raise(listeners[d], cache', FALSE)
     ELSE UNCHANGED <<cache, synced, raised, events>>
  /\ UNCHANGED <<listeners, targets, outstanding, crossed>>

\* Any message of the server means that the client is online.
OnWatchStreamChange ==
  /\ resp # << >>
  /\ resp' = Tail(resp)
  /\ tracker' = UpdateState(tracker, "Online")
  /\ LET m == Head(resp) IN
       \/ m.op = "refused" /\ ProcessTargetError(m.doc)
       \/ m.op \in {"added", "removed"} /\ RecordTargetResponse(m.doc)
       \/ m.op = "current" /\ ApplyRemoteEvent(m.doc, m.version)
  /\ UNCHANGED <<tasks, caller, stream, req, watched, server, breaks, rejects, joined, inherited>>

-----------------------------------------------------------------------------
(* Behaviours *)

Step ==
  \/ \E g \in Gets, d \in Docs : GetDocument(g, d)
  \/ \E g \in Gets : OnEvent(g)
  \/ AddQueryListener
  \/ RemoveQueryListener
  \/ \E c \in stream.credentials : ResumeStartWithCredentials(c)
  \/ OnStreamStart
  \/ OnStreamFinish
  \/ BackoffElapsed
  \/ IdleTimeout
  \/ OnlineStateTimeout
  \/ RestartNetwork
  \/ \E d \in Docs : ServerChange(d)
  \/ ServerAnswers
  \/ OnWatchStreamChange

Runs(A) == ~aborted /\ A /\ UNCHANGED aborted

Next == Runs(Step) \/ StoppedWhileNeeded

Spec == Init /\ [][Next]_vars

\* Both executors run their tasks and timers go off.  A call that is connecting
\* connects or fails, and one that is open is answered or fails: gRPC sends a
\* keepalive every 30 s (remote/grpc_connection.cc:307).
FairSpec ==
  /\ Spec
  /\ \A g \in Gets : WF_vars(Runs(OnEvent(g)))
  /\ WF_vars(Runs(AddQueryListener \/ RemoveQueryListener))
  /\ WF_vars(Runs(\E c \in stream.credentials : ResumeStartWithCredentials(c)))
  /\ WF_vars(Runs(BackoffElapsed))
  /\ WF_vars(Runs(IdleTimeout))
  /\ WF_vars(Runs(OnlineStateTimeout))
  /\ WF_vars(Runs(OnStreamStart \/ OnStreamFinish))
  /\ WF_vars(Runs(ServerAnswers \/ OnStreamFinish))
  /\ WF_vars(Runs(OnWatchStreamChange))

-----------------------------------------------------------------------------
(* Properties *)

AppTypes ==
  /\ tasks \in Seq([op : {"add", "remove"}, get : Gets])
  /\ doc \in [Gets -> Docs \cup {Nothing}]
  /\ listeners \in [Docs -> SUBSET Gets]
  /\ synced \subseteq Docs /\ targets \subseteq Docs /\ watched \subseteq Docs
  /\ cache \in [Docs -> Version] /\ server \in [Docs -> Version]
  /\ raised \subseteq Gets /\ muted \subseteq Gets /\ joined \subseteq Gets
  /\ events \in [Gets -> Seq(Event)]
  /\ answers \in [Gets -> Seq(Answer)]
  /\ tracker \in [online : {"Unknown", "Online", "Offline"}, failures : Nat, timer : BOOLEAN]
  /\ stream \in [state : {"Initial", "Starting", "Open", "Backoff", "Error"}, grpc : BOOLEAN,
                 idle : BOOLEAN, closes : Nat, credentials : SUBSET Nat]
  /\ outstanding \in [Docs -> Int]
  /\ req \in Seq(Request) /\ resp \in Seq(Change)
  /\ breaks \in 0..MaxBreaks /\ rejects \in 0..MaxRejects
  /\ calledAt \in [Gets -> Version]
  /\ inherited \in BOOLEAN /\ crossed \in BOOLEAN

\* Every variable has its type.
TypeOK == AppTypes /\ aborted \in BOOLEAN

\* The assertions of OnlineStateTracker that abort the app: the timer is not
\* running when it is started (l. 61) or after an error of a client that was
\* online (l. 89), it goes off only in the state Unknown (l. 67), and a client
\* that is online counts no failure (l. 87).
TrackerAsserts ==
  /\ tracker.timer => tracker.online = "Unknown" /\ tracker.failures = 0 /\ IsStarted(stream)
  /\ tracker.failures # 0 => tracker.online = "Offline" /\ IsStarted(stream)

\* Those of Stream and RemoteStore: no stream is stopped as idle while a target
\* needs it (remote_store.cc:236, for stops by the client), credentials only resume a stream that is
\* starting (stream.cc:171), a network restart finds the backoff cancelled
\* (stream.cc:224); and a target is watched exactly while its query is listened
\* to (remote_store.cc:173, sync_engine.cc:108), on a stream that is started.
StreamAsserts ==
  /\ stream.idle => targets = {} /\ IsOpen(stream)
  /\ targets # {} => IsStarted(stream)
  /\ stream.closes \in stream.credentials => stream.state = "Starting" /\ ~stream.grpc
  /\ stream.grpc => stream.state \in {"Starting", "Open"}
  /\ \A d \in Docs : d \in targets <=> listeners[d] # {}

\* No assertion of the client about its connection fails, but for that of
\* remote_store.cc:236 when the server ends the call with OK: see
\* StoppedWhileNeeded, after which the app is gone.
AssertsHold == TrackerAsserts /\ StreamAsserts

\* A get answers its caller once, however many events its listener raised
\* before it was removed (document_reference.cc:145, event_listener.h:145).
AnsweredOnce == \A g \in Gets : Len(answers[g]) <= 1

\* An answer that claims to come from the server is no older than the call,
\* although answers to an earlier listen of the same target may still be under
\* way (remote_event.cc:154, 175).  A get that joined the open view of another
\* one may see what that view had before the call; and so may, after two refusals
\* that crossed other requests, one that finds the count of acknowledgements
\* too low (remote_store.cc:358).
ServerAnswerIsFresh ==
  \A g \in Gets : \A n \in DOMAIN answers[g] :
    answers[g][n].kind = "snapshot" /\ ~answers[g][n].cached /\ g \notin joined
      => answers[g][n].version >= calledAt[g] \/ crossed

\* A get waits for the server at most until the ten-second timer goes off
\* (online_state_tracker.cc:48) or, once a message came, until the next error;
\* but a get that found the stream already starting, or open and silent, after
\* the gets before it were answered, has no timer.
WaitIsBounded ==
  \A d \in Docs : listeners[d] \ raised # {}
    => tracker.online # "Offline" /\ (tracker.online = "Unknown" => tracker.timer \/ inherited)

\* Every get is answered, unless a refusal met a target with other requests
\* under way: it is taken for an answer to the last of them, and the count of
\* acknowledgements stays wrong while the stream lives (remote_store.cc:358); or
\* the app is gone.
GetsEnd == \A g \in Gets : doc[g] # Nothing ~> (answers[g] # << >> \/ crossed \/ aborted)

=============================================================================
