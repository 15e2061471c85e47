------------------------ MODULE DocumentReadsProofs --------------------------
(* Safety of the gets of DocumentReads, for every number of documents, gets,
   connection errors and refusals. *)
EXTENDS DocumentReads, FiniteSetTheorems, TLAPS

-----------------------------------------------------------------------------
(* Steps *)

\* What the assertion that aborts leaves behind is a state the app was in.
LEMMA StepOf == ASSUME [Next]_vars PROVE [Step]_app
BY DEF Next, Runs, StoppedWhileNeeded, vars

-----------------------------------------------------------------------------
(* Types *)

Task == [op : {"add", "remove"}, get : Gets]
Tracker == [online : {"Unknown", "Online", "Offline"}, failures : Nat, timer : BOOLEAN]
Stream == [state : {"Initial", "Starting", "Open", "Backoff", "Error"}, grpc : BOOLEAN,
           idle : BOOLEAN, closes : Nat, credentials : SUBSET Nat]

\* The operations of OnlineStateTracker yield trackers.
LEMMA TrackerOps ==
  ASSUME NEW t \in Tracker
  PROVE  /\ HandleWatchStreamStart(t) \in Tracker
         /\ HandleWatchStreamFailure(t) \in Tracker
         /\ UpdateState(t, "Unknown") \in Tracker /\ UpdateState(t, "Online") \in Tracker
         /\ [t EXCEPT !.timer = FALSE, !.online = "Offline"] \in Tracker
<1>1. HandleWatchStreamStart(t) \in Tracker
  BY DEF Tracker, HandleWatchStreamStart
<1>2. HandleWatchStreamFailure(t) \in Tracker
  BY DEF Tracker, HandleWatchStreamFailure
<1>3. UpdateState(t, "Unknown") \in Tracker /\ UpdateState(t, "Online") \in Tracker
  BY DEF Tracker, UpdateState
<1>4. [t EXCEPT !.timer = FALSE, !.online = "Offline"] \in Tracker
  BY DEF Tracker
<1> QED BY <1>1, <1>2, <1>3, <1>4

\* The operations of Stream yield streams.
LEMMA StreamOps ==
  ASSUME NEW s \in Stream
  PROVE  /\ Start(s) \in Stream /\ \A b \in BOOLEAN : Close(s, b) \in Stream
         /\ Write(s) \in Stream /\ MarkIdle(s) \in Stream
         /\ [s EXCEPT !.state = "Initial"] \in Stream /\ [s EXCEPT !.state = "Open"] \in Stream
         /\ [s EXCEPT !.grpc = TRUE] \in Stream
         /\ \A c : [s EXCEPT !.credentials = @ \ {c}] \in Stream
<1>1. Start(s) \in Stream /\ Write(s) \in Stream
  BY DEF Stream, Start, Write
<1>2. ASSUME NEW b \in BOOLEAN PROVE Close(s, b) \in Stream
  <2>1. /\ s.closes + 1 \in Nat
        /\ (IF b THEN "Initial" ELSE "Error")
             \in {"Initial", "Starting", "Open", "Backoff", "Error"}
    BY DEF Stream
  <2> QED BY <2>1 DEF Stream, Close
<1>3. MarkIdle(s) \in Stream
  BY DEF Stream, MarkIdle, IsOpen
<1>4. /\ [s EXCEPT !.state = "Initial"] \in Stream /\ [s EXCEPT !.state = "Open"] \in Stream
      /\ [s EXCEPT !.grpc = TRUE] \in Stream
      /\ \A c : [s EXCEPT !.credentials = @ \ {c}] \in Stream
  BY DEF Stream
<1> QED BY <1>1, <1>2, <1>3, <1>4

\* The targets are finitely many, so that they can be sent one after the other.
LEMMA SetToSeqType ==
  ASSUME NEW S, IsFiniteSet(S)
  PROVE  SetToSeq(S) \in Seq(S)
<1>1. Cardinality(S) \in Nat /\ ExistsBijection(1..Cardinality(S), S)
  BY FS_CardinalityType
<1>2. PICK f : f \in [1..Cardinality(S) -> S] /\ IsInjective(f)
  BY <1>1 DEF ExistsBijection, Bijection, Injection
<1>3. SetToSeq(S) \in [1..Cardinality(S) -> S]
  BY <1>2 DEF SetToSeq
<1> QED BY <1>1, <1>3

\* What a task is about, and what a message is about.
LEMMA HeadTypes ==
  ASSUME AppTypes
  PROVE  /\ tasks # << >> => Head(tasks) \in Task /\ Tail(tasks) \in Seq(Task)
         /\ req # << >> => Head(req) \in Request /\ Tail(req) \in Seq(Request)
         /\ resp # << >> => Head(resp) \in Change /\ Tail(resp) \in Seq(Change)
         /\ \A g \in Gets : events[g] # << >> =>
              Head(events[g]) \in Event /\ Tail(events[g]) \in Seq(Event)
<1>1. tasks \in Seq(Task) /\ req \in Seq(Request) /\ resp \in Seq(Change)
  BY DEF AppTypes, Task
<1>2. \A g \in Gets : events[g] \in Seq(Event)
  BY DEF AppTypes
<1> QED BY <1>1, <1>2

\* Snapshots and errors are events.
LEMMA EventTypes ==
  /\ \A v \in Version, c \in BOOLEAN : Found(v, c) \in Event
  /\ Failed \in Event
BY BoundsAssumption DEF Found, Failed, Event, Version

\* A document missing from the cache is an answer.
LEMMA OfflineAnswer ==
  ASSUME NEW e \in Event
  PROVE  e \in Answer /\ (e.version = 0 /\ e.cached => [e EXCEPT !.kind = "offline"] \in Answer)
<1>1. e.cached \in BOOLEAN /\ e = [kind |-> e.kind, version |-> e.version, cached |-> e.cached]
  BY DEF Event
<1>2. e.cached => e.cached = TRUE
  BY <1>1, Zenon
<1>3. ASSUME e.version = 0, e.cached = TRUE
      PROVE  [e EXCEPT !.kind = "offline"] = [kind |-> "offline", version |-> 0, cached |-> TRUE]
  <2>1. PICK o : o = [e EXCEPT !.kind = "offline"]
    OBVIOUS
  <2>2. /\ o \in [kind : {"offline"}, version : Version, cached : BOOLEAN]
        /\ o.kind = "offline" /\ o.version = e.version /\ o.cached = e.cached
    BY <2>1 DEF Event
  <2>3. o = [kind |-> "offline", version |-> 0, cached |-> TRUE]
    BY <1>3, <2>2
  <2> QED BY <2>1, <2>3
<1> QED BY <1>2, <1>3 DEF Answer

\* Tasks, listeners and events are of gets that were called.
TasksCalled == \A n \in 1..Len(tasks) : doc[tasks[n].get] \in Docs
ListenersCalled == \A d \in Docs : \A g \in listeners[d] : doc[g] = d
EventsCalled == \A g \in Gets : events[g] # << >> => doc[g] \in Docs

Types == AppTypes /\ IsFiniteSet(targets) /\ TasksCalled /\ ListenersCalled /\ EventsCalled

\* The initial states are well typed.
LEMMA InitTypes == Init => Types
<1> SUFFICES ASSUME Init PROVE Types
    OBVIOUS
<1>1. tracker \in Tracker /\ stream \in Stream
  <2>1. tracker \in Tracker
    BY DEF Init, Tracker
  <2>2. stream \in Stream
    BY DEF Init, Stream
  <2> QED BY <2>1, <2>2
<1>2. server \in [Docs -> Version] /\ cache \in [Docs -> Version]
  BY BoundsAssumption DEF Init, Version
<1>3. calledAt \in [Gets -> Version] /\ breaks \in 0..MaxBreaks /\ rejects \in 0..MaxRejects
  BY BoundsAssumption DEF Init, Version
<1>4. AppTypes
  <2>1. events \in [Gets -> Seq(Event)] /\ answers \in [Gets -> Seq(Answer)]
    BY DEF Init
  <2>2. tasks \in Seq([op : {"add", "remove"}, get : Gets])
        /\ req \in Seq(Request) /\ resp \in Seq(Change)
    BY DEF Init
  <2>3. /\ doc \in [Gets -> Docs \cup {Nothing}] /\ listeners \in [Docs -> SUBSET Gets]
        /\ synced \subseteq Docs /\ targets \subseteq Docs /\ watched \subseteq Docs
        /\ raised \subseteq Gets /\ muted \subseteq Gets /\ joined \subseteq Gets
        /\ outstanding \in [Docs -> Int]
    BY DEF Init
  <2>4. inherited \in BOOLEAN /\ crossed \in BOOLEAN
    BY DEF Init
  <2> QED BY <1>1, <1>2, <1>3, <2>1, <2>2, <2>3, <2>4 DEF AppTypes, Tracker, Stream
<1> QED BY <1>4, FS_EmptySet DEF Init, Types, TasksCalled, ListenersCalled, EventsCalled

\* Raising snapshots keeps the types.
LEMMA RaiseTypes ==
  ASSUME AppTypes, NEW ls \in SUBSET Gets, NEW v, NEW b \in BOOLEAN,
         \A g \in ls : doc[g] \in Docs /\ v[doc[g]] \in Version, Raise(ls, v, b), EventsCalled
  PROVE  /\ raised' \subseteq Gets /\ events' \in [Gets -> Seq(Event)]
         /\ \A g \in Gets : events'[g] # << >> => doc[g] \in Docs
<1>1. ASSUME NEW g \in Gets
      PROVE  (IF g \in ls THEN Append(events[g], Found(v[doc[g]], b)) ELSE events[g])
               \in Seq(Event)
  <2>1. CASE g \in ls
    <3>1. Found(v[doc[g]], b) \in Event
      BY <2>1, EventTypes
    <3>2. Append(events[g], Found(v[doc[g]], b)) \in Seq(Event)
      BY <3>1 DEF AppTypes
    <3> QED BY <2>1, <3>2
  <2>2. CASE g \notin ls
    BY <2>2 DEF AppTypes
  <2> QED BY <2>1, <2>2
<1>2. events' \in [Gets -> Seq(Event)]
  BY <1>1 DEF Raise
<1>3. \A g \in Gets : events'[g] # << >> => doc[g] \in Docs
  BY DEF Raise, EventsCalled
<1> QED BY <1>2, <1>3 DEF Raise, AppTypes

\* A change of the online state keeps the types.
LEMMA OnlineTypes ==
  ASSUME AppTypes, ListenersCalled, EventsCalled, NEW old, NEW new,
         HandleOnlineStateChange(old, new)
  PROVE  /\ raised' \subseteq Gets /\ events' \in [Gets -> Seq(Event)] /\ synced' \subseteq Docs
         /\ \A g \in Gets : events'[g] # << >> => doc[g] \in Docs
<1>1. CASE new = "Offline" /\ old # "Offline"
  <2> DEFINE ls == {g \in UNION {listeners[d] : d \in Docs} : g \notin raised \/ doc[g] \in synced}
  <2>1. ls \in SUBSET Gets /\ \A g \in ls : doc[g] \in Docs /\ cache[doc[g]] \in Version
    BY DEF AppTypes, ListenersCalled
  <2>2. Raise(ls, cache, TRUE) /\ synced' = {}
    BY <1>1 DEF HandleOnlineStateChange
  <2> HIDE DEF ls
  <2>4. /\ raised' \subseteq Gets /\ events' \in [Gets -> Seq(Event)]
        /\ \A g \in Gets : events'[g] # << >> => doc[g] \in Docs
    BY <2>1, <2>2, RaiseTypes
  <2> QED BY <2>2, <2>4
<1>2. CASE ~(new = "Offline" /\ old # "Offline")
  BY <1>2 DEF HandleOnlineStateChange, AppTypes, EventsCalled
<1> QED BY <1>1, <1>2

\* Closing the stream keeps the types.
LEMMA CloseTypes ==
  ASSUME AppTypes, ListenersCalled, EventsCalled, NEW s \in Stream, NEW b \in BOOLEAN, CloseStream(s, b)
  PROVE  /\ stream' \in Stream /\ tracker' \in Tracker /\ inherited' \in BOOLEAN
         /\ outstanding' \in [Docs -> Int]
         /\ req' \in Seq(Request) /\ resp' \in Seq(Change) /\ watched' \subseteq Docs
         /\ raised' \subseteq Gets /\ events' \in [Gets -> Seq(Event)] /\ synced' \subseteq Docs
         /\ \A g \in Gets : events'[g] # << >> => doc[g] \in Docs
         /\ UNCHANGED <<tasks, listeners, cache, caller, targets, server, rejects, joined, crossed>>
<1>1. tracker \in Tracker /\ Close(s, b) \in Stream
  BY StreamOps DEF AppTypes, Tracker
<1>2. stream' \in Stream /\ tracker' \in Tracker
  <2>1. CASE targets # {}
    BY <2>1, <1>1, StreamOps, TrackerOps DEF CloseStream, StartWatchStream
  <2>2. CASE targets = {}
    BY <2>2, <1>1, TrackerOps DEF CloseStream
  <2> QED BY <2>1, <2>2
<1>3. inherited' \in BOOLEAN
  BY DEF CloseStream, AppTypes
<1>4. outstanding' \in [Docs -> Int] /\ req' = << >> /\ resp' = << >> /\ watched' = {}
  BY DEF CloseStream
<1>5. HandleOnlineStateChange(tracker.online, tracker'.online)
      /\ UNCHANGED <<tasks, listeners, cache, caller, targets, server, rejects, joined, crossed>>
  BY DEF CloseStream
<1>6. /\ raised' \subseteq Gets /\ events' \in [Gets -> Seq(Event)] /\ synced' \subseteq Docs
      /\ \A g \in Gets : events'[g] # << >> => doc[g] \in Docs
  BY <1>5, OnlineTypes
<1> QED BY <1>2, <1>3, <1>4, <1>5, <1>6

\* A closed stream is one way a step may end.
LEMMA CloseKeepsTypes ==
  ASSUME Types, NEW s \in Stream, NEW b \in BOOLEAN, CloseStream(s, b), breaks' \in 0..MaxBreaks
  PROVE  Types'
<1>1. /\ stream' \in Stream /\ tracker' \in Tracker /\ inherited' \in BOOLEAN
      /\ outstanding' \in [Docs -> Int]
      /\ req' \in Seq(Request) /\ resp' \in Seq(Change) /\ watched' \subseteq Docs
      /\ raised' \subseteq Gets /\ events' \in [Gets -> Seq(Event)] /\ synced' \subseteq Docs
      /\ \A g \in Gets : events'[g] # << >> => doc[g] \in Docs
      /\ UNCHANGED <<tasks, listeners, cache, caller, targets, server, rejects, joined, crossed>>
  BY CloseTypes DEF Types
<1>2. AppTypes'
  BY <1>1 DEF Types, AppTypes, caller, Stream, Tracker
<1> QED BY <1>1, <1>2 DEF Types, TasksCalled, ListenersCalled, EventsCalled, caller

\* The calls and the events keep the types.
LEMMA CallerTypes ==
  ASSUME Types, (\E g \in Gets, d \in Docs : GetDocument(g, d)) \/ \E g \in Gets : OnEvent(g)
  PROVE  Types'
<1>0. tasks \in Seq(Task) /\ AppTypes
  BY DEF Types, AppTypes, Task
<1>1. ASSUME NEW g \in Gets, NEW d \in Docs, GetDocument(g, d) PROVE Types'
  <2>1. /\ doc' = [doc EXCEPT ![g] = d] /\ calledAt' = [calledAt EXCEPT ![g] = server[d]]
        /\ tasks' = Append(tasks, Adding(g)) /\ doc[g] = Nothing
        /\ UNCHANGED <<client, muted, answers, link, server, breaks, rejects, history>>
    BY <1>1 DEF GetDocument
  <2>2. Adding(g) \in Task /\ Adding(g).get = g
    BY DEF Adding, Task
  <2>3. /\ tasks' \in Seq(Task) /\ Len(tasks') = Len(tasks) + 1 /\ Len(tasks) \in Nat
        /\ \A n \in 1..Len(tasks) : tasks'[n] = tasks[n]
        /\ tasks'[Len(tasks) + 1] = Adding(g)
    BY <1>0, <2>1, <2>2
  <2>4. doc' \in [Gets -> Docs \cup {Nothing}] /\ doc'[g] = d /\ \A h \in Gets \ {g} : doc'[h] = doc[h]
    BY <1>0, <2>1 DEF AppTypes
  <2>5. calledAt' \in [Gets -> Version]
    BY <1>0, <2>1 DEF AppTypes
  <2>6. AppTypes'
    BY <1>0, <2>1, <2>3, <2>4, <2>5 DEF AppTypes, Task, client, link, history
  <2>7. TasksCalled'
    <3>1. \A n \in 1..Len(tasks) : tasks[n] \in Task
      BY <1>0
    <3>2. \A n \in 1..Len(tasks) : tasks[n].get \in Gets
      BY <3>1 DEF Task
    <3>3. ASSUME NEW n \in 1..Len(tasks') PROVE doc'[tasks'[n].get] \in Docs
      <4>1. CASE n \in 1..Len(tasks)
        BY <4>1, <3>2, <2>3, <2>4 DEF Types, TasksCalled
      <4>2. CASE n = Len(tasks) + 1
        BY <4>2, <2>2, <2>3, <2>4
      <4> QED BY <2>3, <4>1, <4>2
    <3> QED BY <3>3 DEF TasksCalled
  <2>8. ListenersCalled'
    <3>1. ASSUME NEW e \in Docs, NEW h \in listeners[e] PROVE doc'[h] = e
      <4>1. h \in Gets /\ doc[h] = e
        BY <1>0 DEF AppTypes, Types, ListenersCalled
      <4>2. h # g
        BY <4>1, <2>1, NothingAssumption
      <4> QED BY <4>1, <4>2, <2>4
    <3> QED BY <2>1, <3>1 DEF ListenersCalled, client
  <2>9. EventsCalled'
    BY <2>1, <2>4 DEF EventsCalled, Types, client
  <2> QED BY <2>1, <2>6, <2>7, <2>8, <2>9 DEF Types, link
<1>2. ASSUME NEW g \in Gets, OnEvent(g) PROVE Types'
  <2>1. /\ events[g] # << >> /\ events' = [events EXCEPT ![g] = Tail(@)]
        /\ UNCHANGED <<doc, listeners, synced, cache, raised, calledAt, link, server,
                       breaks, rejects, history>>
    BY <1>2 DEF OnEvent
  <2>2. Head(events[g]) \in Event /\ Tail(events[g]) \in Seq(Event)
    BY <1>0, <2>1, HeadTypes
  <2>3. PICK e \in Event : e = Head(events[g])
    BY <2>2
  <2>4. e \in Answer /\ (e.version = 0 /\ e.cached => [e EXCEPT !.kind = "offline"] \in Answer)
    BY OfflineAnswer
  <2>5. answers' \in [Gets -> Seq(Answer)]
    <3>1. answers \in [Gets -> Seq(Answer)]
      BY <1>0 DEF AppTypes
    <3>2. \/ answers' = answers
          \/ answers' = [answers EXCEPT ![g] = Append(@, e)]
          \/ e.version = 0 /\ e.cached
               /\ answers' = [answers EXCEPT ![g] = Append(@, [e EXCEPT !.kind = "offline"])]
      BY <1>2, <2>3 DEF OnEvent
    <3>3. CASE answers' = [answers EXCEPT ![g] = Append(@, e)]
      BY <3>1, <3>3, <2>4
    <3>4. ASSUME e.version = 0, e.cached,
                 answers' = [answers EXCEPT ![g] = Append(@, [e EXCEPT !.kind = "offline"])]
          PROVE  answers' \in [Gets -> Seq(Answer)]
      <4>1. PICK o \in Answer : o = [e EXCEPT !.kind = "offline"]
        BY <2>4, <3>4
      <4>2. answers' = [answers EXCEPT ![g] = Append(@, o)]
        BY <3>4, <4>1
      <4> QED BY <3>1, <4>2
    <3> QED BY <3>1, <3>2, <3>3, <3>4
  <2>6. muted' \subseteq Gets
    BY <1>0, <1>2 DEF OnEvent, Mute, AppTypes
  <2>7. tasks' = tasks \/ (tasks' = Append(tasks, Removing(g)) /\ Removing(g) \in Task)
    BY <1>2 DEF OnEvent, Removing, Task
  <2>8. tasks' \in Seq(Task)
    BY <1>0, <2>7
  <2>9. AppTypes'
    <3>1. events' \in [Gets -> Seq(Event)]
      BY <1>0, <2>1, <2>2 DEF AppTypes
    <3> QED BY <1>0, <2>1, <3>1, <2>5, <2>6, <2>8 DEF AppTypes, Task, link, history
  <2>10. doc[g] \in Docs
    BY <2>1 DEF Types, EventsCalled
  <2>11. TasksCalled'
    <3>1. CASE tasks' = tasks
      BY <2>1, <3>1 DEF Types, TasksCalled
    <3>2. CASE tasks' = Append(tasks, Removing(g)) /\ Removing(g) \in Task
      <4>1. /\ Len(tasks') = Len(tasks) + 1 /\ Len(tasks) \in Nat
            /\ \A n \in 1..Len(tasks) : tasks'[n] = tasks[n]
            /\ tasks'[Len(tasks) + 1] = Removing(g)
        BY <1>0, <3>2
      <4>2. Removing(g).get = g
        BY DEF Removing
      <4>3. ASSUME NEW n \in 1..Len(tasks') PROVE doc'[tasks'[n].get] \in Docs
        <5>1. CASE n \in 1..Len(tasks)
          BY <5>1, <4>1, <2>1 DEF Types, TasksCalled
        <5>2. CASE n = Len(tasks) + 1
          BY <5>2, <4>1, <4>2, <2>1, <2>10
        <5> QED BY <4>1, <5>1, <5>2
      <4> QED BY <4>3 DEF TasksCalled
    <3> QED BY <2>7, <3>1, <3>2
  <2>12. ListenersCalled' /\ EventsCalled'
    <3>1. events \in [Gets -> Seq(Event)]
      BY <1>0 DEF AppTypes
    <3>2. \A h \in Gets : events'[h] # << >> => events[h] # << >>
      BY <2>1, <3>1
    <3> QED BY <2>1, <3>2 DEF Types, ListenersCalled, EventsCalled
  <2> QED BY <2>1, <2>9, <2>11, <2>12 DEF Types, link
<1> QED BY <1>1, <1>2

\* The worker queue loses its first task.
LEMMA TaskTypes ==
  ASSUME Types, tasks # << >>, tasks' = Tail(tasks), doc' = doc
  PROVE  /\ Head(tasks) = tasks[1] /\ 1 \in 1..Len(tasks)
         /\ Head(tasks).get \in Gets /\ doc[Head(tasks).get] \in Docs
         /\ tasks' \in Seq(Task) /\ Len(tasks') = Len(tasks) - 1 /\ Len(tasks) \in Nat
         /\ \A n \in 1..Len(tasks') : n + 1 \in 1..Len(tasks) /\ tasks'[n] = tasks[n + 1]
         /\ TasksCalled'
<1>1. tasks \in Seq(Task)
  BY DEF Types, AppTypes, Task
<1>2. /\ Head(tasks) = tasks[1] /\ 1 \in 1..Len(tasks) /\ Len(tasks) \in Nat
      /\ tasks' \in Seq(Task) /\ Len(tasks') = Len(tasks) - 1
      /\ \A n \in 1..Len(tasks') : n + 1 \in 1..Len(tasks) /\ tasks'[n] = tasks[n + 1]
  BY <1>1
<1>3. Head(tasks).get \in Gets
  <2>1. Head(tasks) \in Task
    BY <1>1, <1>2
  <2> QED BY <2>1 DEF Task
<1>4. doc[Head(tasks).get] \in Docs
  BY <1>2 DEF Types, TasksCalled
<1>5. TasksCalled'
  BY <1>2 DEF Types, TasksCalled
<1> QED BY <1>2, <1>3, <1>4, <1>5

\* A message to the server.
LEMMA SendTypes ==
  ASSUME AppTypes, NEW op \in {"watch", "unwatch"}, NEW d \in Docs, NEW s \in Stream,
         Send(op, d, s)
  PROVE  stream' \in Stream /\ outstanding' \in [Docs -> Int] /\ req' \in Seq(Request)
<1>1. [op |-> op, doc |-> d] \in Request
  BY DEF Request
<1>2. req' \in Seq(Request)
  BY <1>1 DEF Send, AppTypes
<1>3. outstanding' \in [Docs -> Int]
  BY DEF Send, AppTypes
<1> QED BY <1>2, <1>3 DEF Send

\* The first listener of a query.
LEMMA ListenTypes ==
  ASSUME AppTypes, NEW d \in Docs, Listen(d), IsFiniteSet(targets)
  PROVE  /\ targets' \subseteq Docs /\ IsFiniteSet(targets')
         /\ stream' \in Stream /\ tracker' \in Tracker
         /\ outstanding' \in [Docs -> Int] /\ req' \in Seq(Request)
         /\ inherited' \in BOOLEAN /\ UNCHANGED <<resp, watched>>
<1>1. targets' \subseteq Docs /\ IsFiniteSet(targets')
  <2>1. targets' = targets \cup {d} /\ targets \subseteq Docs
    BY DEF Listen, AppTypes
  <2>2. IsFiniteSet(targets \cup {d})
    BY FS_AddElement
  <2> QED BY <2>1, <2>2
<1>2. tracker \in Tracker /\ stream \in Stream
  BY DEF AppTypes, Tracker, Stream
<1>3. inherited' \in BOOLEAN /\ UNCHANGED <<resp, watched>>
  <2>1. IsStarted(stream) \in BOOLEAN /\ inherited \in BOOLEAN
    BY DEF IsStarted, AppTypes
  <2>2. inherited' = IsStarted(stream) \/ inherited' = inherited
    BY Zenon DEF Listen
  <2>3. inherited' \in BOOLEAN
    BY <2>1, <2>2, Zenon
  <2> QED BY <2>3 DEF Listen
<1>4. outstanding \in [Docs -> Int] /\ req \in Seq(Request)
  BY DEF AppTypes
<1>5. CASE StartWatchStream(stream, tracker) /\ UNCHANGED <<outstanding, req>>
  BY <1>1, <1>2, <1>3, <1>4, <1>5, StreamOps, TrackerOps DEF StartWatchStream
<1>6. CASE Send("watch", d, Write(stream)) /\ UNCHANGED tracker
  <2>1. Write(stream) \in Stream
    BY <1>2, StreamOps
  <2>2. stream' \in Stream /\ outstanding' \in [Docs -> Int] /\ req' \in Seq(Request)
    BY <1>6, <2>1, SendTypes
  <2> QED BY <1>1, <1>2, <1>3, <1>6, <2>2
<1>7. CASE UNCHANGED <<stream, tracker, outstanding, req>>
  BY <1>1, <1>2, <1>3, <1>4, <1>7
<1> QED BY <1>5, <1>6, <1>7 DEF Listen

\* The last listener of a query.
LEMMA StopListeningTypes ==
  ASSUME AppTypes, NEW d \in Docs, StopListening(d), IsFiniteSet(targets)
  PROVE  /\ targets' \subseteq Docs /\ IsFiniteSet(targets')
         /\ stream' \in Stream /\ tracker' \in Tracker
         /\ outstanding' \in [Docs -> Int] /\ req' \in Seq(Request)
         /\ UNCHANGED <<resp, watched>>
<1>1. targets' \subseteq Docs /\ IsFiniteSet(targets')
  <2>1. targets' = targets \ {d} /\ targets \subseteq Docs
    BY DEF StopListening, AppTypes
  <2>2. IsFiniteSet(targets \ {d})
    BY FS_RemoveElement
  <2> QED BY <2>1, <2>2
<1>2. tracker \in Tracker /\ stream \in Stream /\ UNCHANGED <<resp, watched>>
  BY DEF AppTypes, Tracker, Stream, StopListening
<1>3. outstanding \in [Docs -> Int] /\ req \in Seq(Request)
  BY DEF AppTypes
<1>4. CASE IsOpen(stream)
  <2>1. PICK s \in Stream : Send("unwatch", d, s) /\ tracker' = tracker
    <3>1. Write(stream) \in Stream /\ MarkIdle(Write(stream)) \in Stream
      BY <1>2, StreamOps
    <3> QED BY <1>4, <3>1 DEF StopListening
  <2>2. stream' \in Stream /\ outstanding' \in [Docs -> Int] /\ req' \in Seq(Request)
    BY <2>1, SendTypes
  <2> QED BY <1>1, <1>2, <2>1, <2>2
<1>5. CASE ~IsOpen(stream)
  BY <1>1, <1>2, <1>3, <1>5, TrackerOps DEF StopListening
<1> QED BY <1>4, <1>5

\* Adding a listener keeps the types.
LEMMA AddTypes ==
  ASSUME Types, AddQueryListener
  PROVE  Types'
<1>0. AppTypes /\ IsFiniteSet(targets) /\ ListenersCalled /\ EventsCalled
  BY DEF Types
<1>1. /\ tasks # << >> /\ tasks' = Tail(tasks) /\ doc' = doc
      /\ UNCHANGED <<synced, cache, muted, answers, calledAt, server, breaks, rejects, crossed>>
  BY DEF AddQueryListener, caller
<1>2. PICK g \in Gets : g = Head(tasks).get
  BY <1>1, TaskTypes
<1>3. PICK d \in Docs : d = doc[g]
  BY <1>1, <1>2, TaskTypes
<1>4. tasks' \in Seq(Task) /\ TasksCalled'
  BY <1>1, TaskTypes
<1>5. /\ listeners' = [listeners EXCEPT ![d] = @ \cup {g}]
      /\ \/ Listen(d) /\ UNCHANGED joined
         \/ joined' = joined \cup {g} /\ UNCHANGED <<link, inherited>>
      /\ Raise(IF ShouldRaiseInitialEvent(d \in synced, tracker'.online)
               THEN {g} ELSE {}, cache, d \notin synced)
  BY <1>2, <1>3 DEF AddQueryListener
<1>6. listeners' \in [Docs -> SUBSET Gets] /\ ListenersCalled'
  BY <1>0, <1>1, <1>3, <1>5 DEF AppTypes, ListenersCalled
<1>7. /\ raised' \subseteq Gets /\ events' \in [Gets -> Seq(Event)]
      /\ \A h \in Gets : events'[h] # << >> => doc[h] \in Docs
  <2>1. PICK ls \in SUBSET Gets : Raise(ls, cache, d \notin synced) /\ \A h \in ls : h = g
    BY <1>5
  <2>2. cache \in [Docs -> Version] /\ (d \notin synced) \in BOOLEAN
    BY <1>0 DEF AppTypes
  <2>3. \A h \in ls : doc[h] \in Docs /\ cache[doc[h]] \in Version
    BY <1>3, <2>1, <2>2
  <2>4. PICK b \in BOOLEAN : b = (d \notin synced)
    BY <2>2
  <2>5. Raise(ls, cache, b)
    BY <2>1, <2>4, Zenon
  <2> QED BY <1>0, <2>2, <2>3, <2>5, RaiseTypes
<1>8. EventsCalled'
  BY <1>1, <1>7 DEF EventsCalled
<1>9. /\ targets' \subseteq Docs /\ IsFiniteSet(targets') /\ joined' \subseteq Gets
      /\ stream' \in Stream /\ tracker' \in Tracker
      /\ outstanding' \in [Docs -> Int] /\ req' \in Seq(Request)
      /\ inherited' \in BOOLEAN /\ UNCHANGED <<resp, watched>>
  <2>1. CASE Listen(d) /\ UNCHANGED joined
    BY <1>0, <2>1, ListenTypes DEF AppTypes
  <2>2. CASE joined' = joined \cup {g} /\ UNCHANGED <<link, inherited>>
    BY <1>0, <2>2 DEF AppTypes, link, Stream, Tracker
  <2> QED BY <1>5, <2>1, <2>2
<1>10. AppTypes'
  BY <1>0, <1>1, <1>4, <1>6, <1>7, <1>9 DEF AppTypes, Task, Stream, Tracker
<1> QED BY <1>4, <1>6, <1>8, <1>9, <1>10 DEF Types

\* Removing a listener keeps the types.
LEMMA RemoveTypes ==
  ASSUME Types, RemoveQueryListener
  PROVE  Types'
<1>0. AppTypes /\ IsFiniteSet(targets) /\ ListenersCalled /\ EventsCalled
  BY DEF Types
<1>1. /\ tasks # << >> /\ tasks' = Tail(tasks) /\ doc' = doc
      /\ UNCHANGED <<cache, raised, events, muted, answers, calledAt, server, breaks, rejects,
                     joined, inherited, crossed>>
  BY DEF RemoveQueryListener, caller, history
<1>2. PICK g \in Gets : g = Head(tasks).get
  BY <1>1, TaskTypes
<1>3. PICK d \in Docs : d = doc[g]
  BY <1>1, <1>2, TaskTypes
<1>4. tasks' \in Seq(Task) /\ TasksCalled'
  BY <1>1, TaskTypes
<1>5. /\ listeners' = [listeners EXCEPT ![d] = @ \ {g}]
      /\ \/ StopListening(d) /\ synced' = synced \ {d}
         \/ UNCHANGED <<synced, link>>
  BY <1>2, <1>3 DEF RemoveQueryListener
<1>6. listeners' \in [Docs -> SUBSET Gets] /\ ListenersCalled' /\ EventsCalled'
  BY <1>0, <1>1, <1>3, <1>5 DEF AppTypes, ListenersCalled, EventsCalled
<1>9. /\ targets' \subseteq Docs /\ IsFiniteSet(targets') /\ synced' \subseteq Docs
      /\ stream' \in Stream /\ tracker' \in Tracker
      /\ outstanding' \in [Docs -> Int] /\ req' \in Seq(Request)
      /\ UNCHANGED <<resp, watched>>
  <2>1. CASE StopListening(d) /\ synced' = synced \ {d}
    BY <1>0, <2>1, StopListeningTypes DEF AppTypes
  <2>2. CASE UNCHANGED <<synced, link>>
    BY <1>0, <2>2 DEF AppTypes, link, Stream, Tracker
  <2> QED BY <1>5, <2>1, <2>2
<1>10. AppTypes'
  BY <1>0, <1>1, <1>4, <1>6, <1>9 DEF AppTypes, Task, Stream, Tracker
<1> QED BY <1>4, <1>6, <1>9, <1>10 DEF Types

\* A step that leaves the calls and the views alone.
LEMMA LinkTypes ==
  ASSUME Types, UNCHANGED <<tasks, client, caller, targets, joined, crossed>>,
         stream' \in Stream, tracker' \in Tracker, outstanding' \in [Docs -> Int],
         req' \in Seq(Request), resp' \in Seq(Change), watched' \subseteq Docs,
         server' \in [Docs -> Version], breaks' \in 0..MaxBreaks, rejects' \in 0..MaxRejects,
         inherited' \in BOOLEAN
  PROVE  Types'
<1>1. AppTypes'
  BY DEF Types, AppTypes, Stream, Tracker, client, caller
<1> QED BY <1>1 DEF Types, TasksCalled, ListenersCalled, EventsCalled, client, caller

\* What a step of the stream that closes nothing keeps.
LEMMA OnlyStreamTypes ==
  ASSUME Types, OnlyStream, stream' \in Stream, outstanding' \in [Docs -> Int],
         req' \in Seq(Request)
  PROVE  Types'
<1>1. /\ tracker' \in Tracker /\ resp' \in Seq(Change) /\ watched' \subseteq Docs
      /\ server' \in [Docs -> Version] /\ breaks' \in 0..MaxBreaks /\ rejects' \in 0..MaxRejects
      /\ inherited' \in BOOLEAN /\ UNCHANGED <<tasks, client, caller, targets, joined, crossed>>
  BY DEF OnlyStream, Types, AppTypes, Tracker, history
<1> QED BY <1>1, LinkTypes

\* The steps of the stream keep the types.
LEMMA StreamTypes ==
  ASSUME Types,
         \/ \E c \in stream.credentials : ResumeStartWithCredentials(c)
         \/ OnStreamStart \/ OnStreamFinish \/ BackoffElapsed \/ IdleTimeout
  PROVE  Types'
<1>0. /\ stream \in Stream /\ outstanding \in [Docs -> Int] /\ req \in Seq(Request)
      /\ breaks \in 0..MaxBreaks /\ targets \subseteq Docs /\ IsFiniteSet(targets)
  BY DEF Types, AppTypes, Stream
<1>1. Break => breaks' \in 0..MaxBreaks
  BY <1>0, BoundsAssumption DEF Break
<1>2. ASSUME NEW c \in stream.credentials, ResumeStartWithCredentials(c) PROVE Types'
  <2>1. PICK s \in Stream : s = [stream EXCEPT !.credentials = @ \ {c}]
    BY <1>0, StreamOps
  <2>2. [s EXCEPT !.grpc = TRUE] \in Stream
    BY StreamOps
  <2>3. \/ stream' = s /\ OnlyStream /\ UNCHANGED <<outstanding, req>>
        \/ stream' = [s EXCEPT !.grpc = TRUE] /\ OnlyStream /\ UNCHANGED <<outstanding, req>>
        \/ Break /\ CloseStream(s, FALSE)
    BY <1>2, <2>1 DEF ResumeStartWithCredentials
  <2> QED BY <1>0, <1>1, <2>2, <2>3, OnlyStreamTypes, CloseKeepsTypes
<1>3. ASSUME OnStreamStart PROVE Types'
  <2>1. /\ stream' = [stream EXCEPT !.state = "Open"] /\ OnlyStream
        /\ outstanding' = [d \in Docs |-> IF d \in targets THEN outstanding[d] + 1
                                          ELSE outstanding[d]]
    BY <1>3 DEF OnStreamStart
  <2>2. stream' \in Stream /\ outstanding' \in [Docs -> Int]
    <3>1. stream' \in Stream
      BY <1>0, <2>1, StreamOps
    <3>2. outstanding' \in [Docs -> Int]
      BY <1>0, <2>1
    <3> QED BY <3>1, <3>2
  <2>3. PICK order \in Seq(targets) : order = SetToSeq(targets)
    BY <1>0, SetToSeqType
  <2>4. req' = [n \in 1..Len(order) |-> [op |-> "watch", doc |-> order[n]]]
    BY <1>3, <2>3 DEF OnStreamStart
  <2>5. \A n \in 1..Len(order) : [op |-> "watch", doc |-> order[n]] \in Request
    BY <1>0 DEF Request
  <2>6. req' \in Seq(Request)
    BY <2>4, <2>5
  <2> QED BY <2>1, <2>2, <2>6, OnlyStreamTypes
<1>4. ASSUME OnStreamFinish PROVE Types'
  BY <1>0, <1>1, <1>4, CloseKeepsTypes DEF OnStreamFinish
<1>5. ASSUME BackoffElapsed PROVE Types'
  <2>1. stream' = Start([stream EXCEPT !.state = "Initial"]) /\ OnlyStream
        /\ UNCHANGED <<outstanding, req>>
    BY <1>5 DEF BackoffElapsed
  <2>2. [stream EXCEPT !.state = "Initial"] \in Stream
    BY <1>0, StreamOps
  <2>3. stream' \in Stream
    BY <2>1, <2>2, StreamOps
  <2> QED BY <1>0, <2>1, <2>3, OnlyStreamTypes
<1>6. ASSUME IdleTimeout PROVE Types'
  BY <1>0, <1>6, CloseKeepsTypes DEF IdleTimeout
<1> QED BY <1>2, <1>3, <1>4, <1>5, <1>6

\* The timer of the online state and the network keep the types.
LEMMA NetworkTypes ==
  ASSUME Types, OnlineStateTimeout \/ RestartNetwork
  PROVE  Types'
<1>0. AppTypes /\ stream \in Stream /\ tracker \in Tracker /\ breaks \in 0..MaxBreaks
  BY DEF Types, AppTypes, Stream, Tracker
<1>1. ASSUME OnlineStateTimeout PROVE Types'
  <2>1. /\ tracker' \in Tracker /\ HandleOnlineStateChange(tracker.online, "Offline")
        /\ UNCHANGED <<tasks, listeners, cache, caller, stream, targets, outstanding, req, resp,
                       watched, server, breaks, rejects, history>>
    BY <1>0, <1>1, TrackerOps DEF OnlineStateTimeout
  <2>2. /\ raised' \subseteq Gets /\ events' \in [Gets -> Seq(Event)] /\ synced' \subseteq Docs
        /\ \A g \in Gets : events'[g] # << >> => doc[g] \in Docs
    BY <2>1, OnlineTypes DEF Types
  <2>3. AppTypes'
    BY <1>0, <2>1, <2>2 DEF AppTypes, caller, history, Tracker
  <2> QED BY <2>1, <2>2, <2>3 DEF Types, TasksCalled, ListenersCalled, EventsCalled, caller
<1>2. ASSUME RestartNetwork PROVE Types'
  <2>1. PICK s \in Stream :
          s = [(IF IsStarted(stream) THEN Close(stream, TRUE) ELSE stream)
                 EXCEPT !.state = "Initial"]
    <3>1. (IF IsStarted(stream) THEN Close(stream, TRUE) ELSE stream) \in Stream
      BY <1>0, StreamOps
    <3> QED BY <3>1, StreamOps
  <2>2. PICK t \in Tracker : t = UpdateState(tracker, "Unknown")
    BY <1>0, TrackerOps
  <2>3. IF targets # {} THEN StartWatchStream(s, t) ELSE stream' = s /\ tracker' = t
    BY <1>2, <2>1, <2>2 DEF RestartNetwork
  <2>4. stream' \in Stream /\ tracker' \in Tracker
    BY <2>3, StreamOps, TrackerOps DEF StartWatchStream
  <2>5. /\ breaks' \in 0..MaxBreaks /\ inherited' \in BOOLEAN /\ outstanding' \in [Docs -> Int]
        /\ req' \in Seq(Request) /\ resp' \in Seq(Change) /\ watched' \subseteq Docs
        /\ UNCHANGED <<tasks, client, caller, targets, server, rejects, joined, crossed>>
    <3>1. /\ Break /\ inherited' = FALSE /\ outstanding' = [d \in Docs |-> 0]
          /\ req' = << >> /\ resp' = << >> /\ watched' = {}
          /\ UNCHANGED <<tasks, client, caller, targets, server, rejects, joined, crossed>>
      BY <1>2 DEF RestartNetwork
    <3>2. breaks' \in 0..MaxBreaks
      BY <1>0, <3>1, BoundsAssumption DEF Break
    <3>3. outstanding' \in [Docs -> Int] /\ req' \in Seq(Request) /\ resp' \in Seq(Change)
      BY <3>1
    <3>4. inherited' \in BOOLEAN
      BY <3>1, Zenon
    <3> QED BY <3>1, <3>2, <3>3, <3>4
  <2>6. server' \in [Docs -> Version] /\ rejects' \in 0..MaxRejects
    BY <1>0, <2>5 DEF AppTypes
  <2> QED BY <2>4, <2>5, <2>6, LinkTypes
<1> QED BY <1>1, <1>2

\* The steps of the server keep the types.
LEMMA ServerTypes ==
  ASSUME Types, (\E d \in Docs : ServerChange(d)) \/ ServerAnswers
  PROVE  Types'
<1>0. /\ AppTypes /\ stream \in Stream /\ tracker \in Tracker /\ inherited \in BOOLEAN
      /\ outstanding \in [Docs -> Int] /\ server \in [Docs -> Version]
      /\ resp \in Seq(Change) /\ req \in Seq(Request) /\ watched \subseteq Docs
      /\ breaks \in 0..MaxBreaks /\ rejects \in 0..MaxRejects
  BY DEF Types, AppTypes, Stream, Tracker
<1>1. ASSUME NEW d \in Docs, ServerChange(d) PROVE Types'
  <2>1. server' \in [Docs -> Version]
    <3>1. server[d] + 1 \in Version
      BY <1>0, <1>1, BoundsAssumption DEF ServerChange, Version
    <3> QED BY <1>0, <1>1, <3>1 DEF ServerChange
  <2>2. [op |-> "current", doc |-> d, version |-> server'[d]] \in Change
    BY <2>1 DEF Change
  <2>3. resp' \in Seq(Change)
    BY <1>0, <1>1, <2>2 DEF ServerChange
  <2>4. UNCHANGED <<tasks, client, caller, stream, tracker, targets, outstanding, req, watched,
                    breaks, rejects, joined, inherited, crossed>>
    BY <1>1 DEF ServerChange, history
  <2> QED BY <1>0, <2>1, <2>3, <2>4, LinkTypes
<1>2. ASSUME ServerAnswers PROVE Types'
  <2>1. req # << >> /\ req' = Tail(req)
        /\ UNCHANGED <<tasks, client, caller, stream, tracker, targets, outstanding, server,
                       breaks, joined, inherited, crossed>>
    BY <1>2 DEF ServerAnswers, history
  <2>2. Head(req) \in Request /\ req' \in Seq(Request)
    BY <1>0, <2>1, HeadTypes
  <2>3. PICK d \in Docs : d = Head(req).doc
    BY <2>2 DEF Request
  <2>4. \A op \in {"added", "removed", "refused", "current"} :
          [op |-> op, doc |-> d, version |-> server[d]] \in Change
    BY <1>0 DEF Change
  <2>5. resp' \in Seq(Change)
    <3>1. \/ resp' = resp \o <<[op |-> "added", doc |-> d, version |-> server[d]],
                               [op |-> "current", doc |-> d, version |-> server[d]]>>
          \/ resp' = Append(resp, [op |-> "refused", doc |-> d, version |-> server[d]])
          \/ resp' = Append(resp, [op |-> "removed", doc |-> d, version |-> server[d]])
      BY <1>2, <2>3 DEF ServerAnswers
    <3>2. PICK a \in Change : a = [op |-> "added", doc |-> d, version |-> server[d]]
      BY <2>4
    <3>3. PICK c \in Change : c = [op |-> "current", doc |-> d, version |-> server[d]]
      BY <2>4
    <3>4. <<a, c>> \in Seq(Change)
      OBVIOUS
    <3>5. resp \o <<a, c>> \in Seq(Change)
      BY <1>0, <3>4
    <3>6. \A m \in Change : Append(resp, m) \in Seq(Change)
      BY <1>0
    <3> QED BY <2>4, <3>1, <3>2, <3>3, <3>5, <3>6
  <2>6. watched' \subseteq Docs /\ rejects' \in 0..MaxRejects
    <3>1. \/ watched' = watched \cup {d} /\ rejects' = rejects
          \/ watched' = watched /\ rejects < MaxRejects /\ rejects' = rejects + 1
          \/ watched' = watched \ {d} /\ rejects' = rejects
      BY <1>2, <2>3 DEF ServerAnswers
    <3> QED BY <1>0, <3>1, BoundsAssumption
  <2> QED BY <1>0, <2>1, <2>2, <2>5, <2>6, LinkTypes
<1> QED BY <1>1, <1>2

\* A message of the server keeps the types.
LEMMA ChangeTypes ==
  ASSUME Types, OnWatchStreamChange
  PROVE  Types'
<1>0. /\ AppTypes /\ ListenersCalled /\ EventsCalled /\ tracker \in Tracker /\ IsFiniteSet(targets)
      /\ outstanding \in [Docs -> Int] /\ cache \in [Docs -> Version]
      /\ listeners \in [Docs -> SUBSET Gets] /\ events \in [Gets -> Seq(Event)]
      /\ synced \subseteq Docs /\ targets \subseteq Docs /\ raised \subseteq Gets
  BY DEF Types, AppTypes, Tracker
<1>1. /\ resp # << >> /\ resp' = Tail(resp) /\ tracker' = UpdateState(tracker, "Online")
      /\ UNCHANGED <<tasks, caller, stream, req, watched, server, breaks, rejects, joined,
                     inherited>>
  BY DEF OnWatchStreamChange
<1>2. Head(resp) \in Change /\ resp' \in Seq(Change)
  BY <1>0, <1>1, HeadTypes
<1>3. PICK m \in Change : m = Head(resp)
  BY <1>2
<1>4. PICK d \in Docs : d = m.doc
  BY DEF Change
<1>5. PICK v \in Version : v = m.version
  BY DEF Change
<1>6. ProcessTargetError(d) \/ RecordTargetResponse(d) \/ ApplyRemoteEvent(d, v)
  BY <1>3, <1>4, <1>5 DEF OnWatchStreamChange
<1>7. tracker' \in Tracker
  BY <1>0, <1>1, TrackerOps
<1> DEFINE Client ==
      /\ listeners' \in [Docs -> SUBSET Gets] /\ synced' \subseteq Docs
      /\ cache' \in [Docs -> Version] /\ raised' \subseteq Gets
      /\ events' \in [Gets -> Seq(Event)] /\ outstanding' \in [Docs -> Int]
      /\ targets' \subseteq Docs /\ IsFiniteSet(targets') /\ crossed' \in BOOLEAN
      /\ \A e \in Docs : listeners'[e] \subseteq listeners[e]
      /\ \A g \in Gets : events'[g] # << >> => doc[g] \in Docs
<1>8. ASSUME ProcessTargetError(d) PROVE Client
  <2>1. /\ targets' = targets \ {d} /\ crossed' = (crossed \/ outstanding[d] # 1)
        /\ UNCHANGED <<cache, raised>>
    BY <1>8 DEF ProcessTargetError
  <2>2. IsFiniteSet(targets \ {d})
    BY <1>0, FS_RemoveElement
  <2>3. crossed' \in BOOLEAN
    BY <2>1, Zenon
  <2>4. CASE d \in targets
    <3>1. /\ outstanding' = [outstanding EXCEPT ![d] = 0]
          /\ events' = [g \in Gets |-> IF g \in listeners[d] THEN Append(events[g], Failed)
                                       ELSE events[g]]
          /\ listeners' = [listeners EXCEPT ![d] = {}]
          /\ synced' = synced \ {d}
      BY <1>8, <2>4 DEF ProcessTargetError
    <3>2. outstanding' \in [Docs -> Int] /\ synced' \subseteq Docs
      BY <1>0, <3>1
    <3>3. listeners' \in [Docs -> SUBSET Gets] /\ \A e \in Docs : listeners'[e] \subseteq listeners[e]
      BY <1>0, <3>1
    <3>4. \A g \in Gets : Append(events[g], Failed) \in Seq(Event) /\ events[g] \in Seq(Event)
      BY <1>0, EventTypes
    <3>5. events' \in [Gets -> Seq(Event)]
      BY <3>1, <3>4
    <3>6. \A g \in Gets : events'[g] # << >> => doc[g] \in Docs
      BY <1>0, <3>1 DEF ListenersCalled, EventsCalled
    <3> QED BY <1>0, <2>1, <2>2, <2>3, <3>2, <3>3, <3>5, <3>6
  <2>5. CASE d \notin targets
    <3>1. UNCHANGED <<outstanding, events, listeners, synced>>
      BY <1>8, <2>5 DEF ProcessTargetError
    <3> QED BY <1>0, <2>1, <2>2, <2>3, <3>1 DEF EventsCalled
  <2> QED BY <2>4, <2>5
<1>9. ASSUME RecordTargetResponse(d) PROVE Client
  <2>1. /\ outstanding' = [outstanding EXCEPT ![d] = @ - 1]
        /\ UNCHANGED <<client, targets, crossed>>
    BY <1>9 DEF RecordTargetResponse
  <2>2. outstanding' \in [Docs -> Int]
    BY <1>0, <2>1
  <2>3. crossed' \in BOOLEAN
    BY <1>0, <2>1 DEF AppTypes
  <2> QED BY <1>0, <2>1, <2>2, <2>3 DEF client, EventsCalled
<1>10. ASSUME ApplyRemoteEvent(d, v) PROVE Client
  <2>1. UNCHANGED <<listeners, targets, outstanding, crossed>>
    BY <1>10 DEF ApplyRemoteEvent
  <2>2. crossed' \in BOOLEAN
    BY <1>0, <2>1 DEF AppTypes
  <2>3. CASE UNCHANGED <<cache, synced, raised, events>>
    BY <1>0, <2>1, <2>2, <2>3 DEF EventsCalled
  <2>4. CASE /\ cache' = [cache EXCEPT ![d] = IF v > @ THEN v ELSE @]
             /\ synced' = synced \cup {d}
             /\ Raise(listeners[d], cache', FALSE)
    <3>1. cache' \in [Docs -> Version]
      BY <1>0, <2>4
    <3>2. PICK w \in [Docs -> Version] : w = cache'
      BY <3>1
    <3>3. PICK b \in BOOLEAN : b = FALSE
      OBVIOUS
    <3>5. PICK ls \in SUBSET Gets :
            ls = listeners[d] /\ \A g \in ls : doc[g] \in Docs /\ w[doc[g]] \in Version
      BY <1>0 DEF ListenersCalled
    <3>4. Raise(ls, w, b)
      BY <2>4, <3>2, <3>3, <3>5, Zenon
    <3>6. /\ raised' \subseteq Gets /\ events' \in [Gets -> Seq(Event)]
          /\ \A g \in Gets : events'[g] # << >> => doc[g] \in Docs
      BY <1>0, <3>4, <3>5, RaiseTypes
    <3> QED BY <1>0, <2>1, <2>2, <2>4, <3>1, <3>6
  <2> QED BY <1>10, <2>3, <2>4 DEF ApplyRemoteEvent
<1>11. Client
  BY <1>6, <1>8, <1>9, <1>10
<1>12. AppTypes'
  BY <1>0, <1>1, <1>2, <1>7, <1>11 DEF AppTypes, caller, Tracker
<1>13. TasksCalled' /\ ListenersCalled' /\ EventsCalled'
  BY <1>1, <1>11 DEF Types, TasksCalled, ListenersCalled, EventsCalled, caller
<1> QED BY <1>11, <1>12, <1>13 DEF Types

\* Every step keeps the types.
LEMMA TypesNext ==
  ASSUME Types, [Step]_app
  PROVE  Types'
<1>1. CASE UNCHANGED app
  <2>1. AppTypes'
    BY <1>1 DEF Types, AppTypes, app, client, caller, link, history
  <2> QED BY <1>1, <2>1 DEF Types, TasksCalled, ListenersCalled, EventsCalled, app, client,
                            caller, link
<1>2. CASE Step
  BY <1>2, CallerTypes, AddTypes, RemoveTypes, StreamTypes, NetworkTypes, ServerTypes,
     ChangeTypes DEF Step
<1> QED BY <1>1, <1>2

\* Every variable keeps its type: in particular the counters of faults stay in
\* their bounds, and no event or answer is anything but a snapshot or an error.
THEOREM TypeCorrect == Spec => []TypeOK
<1> DEFINE Typed == Types /\ aborted \in BOOLEAN
<1>1. Init => Typed
  BY InitTypes DEF Init
<1>2. Typed /\ [Next]_vars => Typed'
  <2> SUFFICES ASSUME Typed, [Next]_vars PROVE Typed'
    OBVIOUS
  <2>1. aborted' \in BOOLEAN
    BY DEF Next, Runs, StoppedWhileNeeded, vars
  <2> QED BY <2>1, StepOf, TypesNext
<1>3. Typed => TypeOK
  BY DEF Types, TypeOK
<1> QED BY <1>1, <1>2, <1>3, PTL DEF Spec

-----------------------------------------------------------------------------
(* The assertions of the client *)

\* What the operations of Stream change.
LEMMA StartFields ==
  ASSUME NEW s \in Stream
  PROVE  /\ Start(s).grpc = s.grpc /\ Start(s).idle = s.idle /\ Start(s).closes = s.closes
         /\ s.state = "Error" =>
              Start(s).state = "Backoff" /\ Start(s).credentials = s.credentials
         /\ s.state # "Error" =>
              /\ Start(s).state = "Starting"
              /\ Start(s).credentials = s.credentials \cup {s.closes}
BY DEF Start, Stream

\* Credentials are requested with the close count of the moment.
CredentialsPast == \A n \in stream.credentials : n <= stream.closes

Connection == AssertsHold /\ CredentialsPast

\* A stream s about to be started or stopped: nothing is open or under way.
Quiet(s) ==
  /\ s.state \in {"Initial", "Error"} /\ s.grpc = FALSE /\ s.idle = FALSE
  /\ s.closes \notin s.credentials /\ \A n \in s.credentials : n <= s.closes

\* A stream that is closed is quiet.
LEMMA CloseQuiet ==
  ASSUME NEW s \in Stream, \A n \in s.credentials : n <= s.closes, NEW b \in BOOLEAN
  PROVE  Quiet(Close(s, b))
<1>1. PICK z \in Stream : z = Close(s, b)
  BY StreamOps
<1>2. /\ z.state \in {"Initial", "Error"} /\ z.grpc = FALSE /\ z.idle = FALSE
      /\ z.closes = s.closes + 1 /\ z.credentials = s.credentials
  <2>1. PICK x \in {"Initial", "Error"} :
          z = [s EXCEPT !.state = x, !.grpc = FALSE, !.idle = FALSE, !.closes = @ + 1]
    BY <1>1 DEF Close
  <2> QED BY <2>1 DEF Stream
<1>3. s.closes \in Nat /\ s.credentials \subseteq Nat
  BY DEF Stream
<1>4. Quiet(z)
  BY <1>2, <1>3 DEF Quiet
<1> QED BY <1>1, <1>4

\* A quiet stream that is started.
LEMMA StartQuiet ==
  ASSUME NEW s \in Stream, Quiet(s), NEW z, z = Start(s)
  PROVE  /\ IsStarted(z) /\ ~IsOpen(z) /\ z.idle = FALSE /\ z.grpc = FALSE
         /\ z.closes \in z.credentials => z.state = "Starting"
         /\ \A n \in z.credentials : n <= z.closes
<1>1. /\ z.grpc = FALSE /\ z.idle = FALSE /\ z.closes = s.closes
      /\ s.state = "Error" => z.state = "Backoff" /\ z.credentials = s.credentials
      /\ s.state # "Error" => z.state = "Starting" /\ z.credentials = s.credentials \cup {s.closes}
  BY StartFields DEF Quiet
<1>2. s.closes \in Nat /\ s.credentials \subseteq Nat
  BY DEF Stream
<1> QED BY <1>1, <1>2 DEF Quiet, IsStarted, IsOpen

\* What the tracker says after the stream is started for a target, or stopped.
TrackerGood(t) ==
  /\ t.timer => t.online = "Unknown" /\ t.failures = 0
  /\ t.failures # 0 => t.online = "Offline"

\* The operations of the tracker keep its fields in step.
LEMMA TrackerKept ==
  ASSUME NEW t \in Tracker, TrackerGood(t)
  PROVE  /\ TrackerGood(HandleWatchStreamFailure(t)) /\ TrackerGood(HandleWatchStreamStart(t))
         /\ \A o \in {"Unknown", "Online"} :
              /\ TrackerGood(UpdateState(t, o))
              /\ UpdateState(t, o).timer = FALSE /\ UpdateState(t, o).failures = 0
              /\ UpdateState(t, o).online = o
         /\ TrackerGood([t EXCEPT !.timer = FALSE, !.online = "Offline"])
<1>1. TrackerGood(HandleWatchStreamFailure(t))
  BY DEF TrackerGood, Tracker, HandleWatchStreamFailure
<1>2. TrackerGood(HandleWatchStreamStart(t))
  BY DEF TrackerGood, Tracker, HandleWatchStreamStart
<1>3. \A o \in {"Unknown", "Online"} :
        /\ TrackerGood(UpdateState(t, o))
        /\ UpdateState(t, o).timer = FALSE /\ UpdateState(t, o).failures = 0
        /\ UpdateState(t, o).online = o
  BY DEF TrackerGood, Tracker, UpdateState
<1>4. TrackerGood([t EXCEPT !.timer = FALSE, !.online = "Offline"])
  BY DEF TrackerGood, Tracker
<1> QED BY <1>1, <1>2, <1>3, <1>4

\* After the stream was started for the targets.
LEMMA StartedConnection ==
  ASSUME NEW s \in Stream, NEW t \in Tracker, Quiet(s), TrackerGood(t), StartWatchStream(s, t),
         \A d \in Docs : d \in targets' <=> listeners'[d] # {}
  PROVE  Connection'
<1>1. PICK z : z = Start(s) /\ z = stream'
  BY DEF StartWatchStream
<1>2. PICK u : u = HandleWatchStreamStart(t) /\ u = tracker'
  BY DEF StartWatchStream
<1>3. /\ IsStarted(z) /\ ~IsOpen(z) /\ z.idle = FALSE /\ z.grpc = FALSE
      /\ z.closes \in z.credentials => z.state = "Starting"
      /\ \A n \in z.credentials : n <= z.closes
  BY <1>1, StartQuiet
<1>4. TrackerGood(u)
  BY <1>2, TrackerKept
<1>5. TrackerAsserts'
  BY <1>1, <1>2, <1>3, <1>4 DEF TrackerAsserts, TrackerGood, IsStarted
<1>6. StreamAsserts'
  BY <1>1, <1>3 DEF StreamAsserts, IsStarted, IsOpen
<1>7. CredentialsPast'
  BY <1>1, <1>3 DEF CredentialsPast
<1> QED BY <1>5, <1>6, <1>7 DEF Connection, AssertsHold

\* After the stream was stopped with no target left.
LEMMA StoppedConnection ==
  ASSUME NEW s \in Stream, NEW t \in Tracker, Quiet(s), t.timer = FALSE, t.failures = 0,
         stream' = s, tracker' = t, targets' = {},
         \A d \in Docs : d \in targets' <=> listeners'[d] # {}
  PROVE  Connection'
<1>1. TrackerAsserts'
  BY DEF TrackerAsserts
<1>2. StreamAsserts'
  BY DEF StreamAsserts, Quiet
<1>3. CredentialsPast'
  BY DEF CredentialsPast, Quiet
<1> QED BY <1>1, <1>2, <1>3 DEF Connection, AssertsHold

\* Closing the stream keeps the assertions.
LEMMA CloseConnection ==
  ASSUME AppTypes, Connection, NEW s \in Stream, NEW b \in BOOLEAN, CloseStream(s, b),
         \A n \in s.credentials : n <= s.closes
  PROVE  Connection'
<1>1. PICK z \in Stream : z = Close(s, b) /\ Quiet(z)
  BY StreamOps, CloseQuiet
<1>2. tracker \in Tracker /\ TrackerGood(tracker)
  BY DEF AppTypes, Tracker, Connection, AssertsHold, TrackerAsserts, TrackerGood
<1>3. /\ UNCHANGED <<listeners, targets>>
      /\ \A d \in Docs : d \in targets' <=> listeners'[d] # {}
  BY DEF CloseStream, Connection, AssertsHold, StreamAsserts
<1>4. CASE targets # {}
  <2>1. PICK t \in Tracker : t = HandleWatchStreamFailure(tracker) /\ TrackerGood(t)
    BY <1>2, TrackerOps, TrackerKept
  <2>2. StartWatchStream(z, t)
    BY <1>1, <1>4, <2>1 DEF CloseStream
  <2> QED BY <1>1, <1>3, <2>1, <2>2, StartedConnection
<1>5. CASE targets = {}
  <2>1. PICK t \in Tracker : t = UpdateState(tracker, "Unknown") /\ t.timer = FALSE /\ t.failures = 0
    BY <1>2, TrackerOps, TrackerKept
  <2>2. stream' = z /\ tracker' = t /\ targets' = {}
    BY <1>1, <1>3, <1>5, <2>1 DEF CloseStream
  <2> QED BY <1>1, <1>3, <2>1, <2>2, StoppedConnection
<1> QED BY <1>4, <1>5

\* A stream that is not started is quiet.
LEMMA NotStartedQuiet ==
  ASSUME AppTypes, Connection, ~IsStarted(stream)
  PROVE  Quiet(stream) /\ targets = {}
<1>1. stream \in Stream
  BY DEF AppTypes, Stream
<1>2. stream.state \in {"Initial", "Error"} /\ stream.grpc \in BOOLEAN /\ stream.idle \in BOOLEAN
  BY <1>1 DEF Stream, IsStarted
<1>3. ~stream.grpc /\ ~stream.idle /\ stream.closes \notin stream.credentials /\ targets = {}
  BY <1>2 DEF Connection, AssertsHold, StreamAsserts, IsOpen, IsStarted
<1>4. stream.grpc = FALSE /\ stream.idle = FALSE
  BY <1>2, <1>3, Zenon
<1> QED BY <1>2, <1>3, <1>4 DEF Quiet, Connection, CredentialsPast

\* Adding a listener keeps the assertions.
LEMMA AddConnection ==
  ASSUME Types, Connection, AddQueryListener
  PROVE  Connection'
<1>0. AppTypes /\ stream \in Stream /\ tracker \in Tracker /\ listeners \in [Docs -> SUBSET Gets]
  BY DEF Types, AppTypes, Stream, Tracker
<1>1. tasks # << >> /\ tasks' = Tail(tasks) /\ doc' = doc
  BY DEF AddQueryListener, caller
<1>2. PICK g \in Gets : g = Head(tasks).get
  BY <1>1, TaskTypes
<1>3. PICK d \in Docs : d = doc[g]
  BY <1>1, <1>2, TaskTypes
<1>4. /\ listeners' = [listeners EXCEPT ![d] = @ \cup {g}]
      /\ \/ listeners[d] = {} /\ Listen(d)
         \/ listeners[d] # {} /\ UNCHANGED <<link, inherited>>
  BY <1>2, <1>3 DEF AddQueryListener
<1>5. \A e \in Docs : e \in targets <=> listeners[e] # {}
  BY DEF Connection, AssertsHold, StreamAsserts
<1>6. CASE listeners[d] # {} /\ UNCHANGED <<link, inherited>>
  <2>1. \A e \in Docs : e \in targets' <=> listeners'[e] # {}
    BY <1>0, <1>4, <1>5, <1>6 DEF link
  <2> QED BY <1>6, <2>1 DEF Connection, AssertsHold, TrackerAsserts, StreamAsserts,
                            CredentialsPast, IsStarted, IsOpen, link
<1>7. CASE listeners[d] = {} /\ Listen(d)
  <2>1. targets' = targets \cup {d}
    BY <1>7 DEF Listen
  <2>2. \A e \in Docs : e \in targets' <=> listeners'[e] # {}
    BY <1>0, <1>4, <1>5, <2>1
  <2>3. CASE ~IsStarted(stream) /\ StartWatchStream(stream, tracker)
    <3>1. Quiet(stream)
      BY <1>0, <2>3, NotStartedQuiet
    <3>2. TrackerGood(tracker)
      BY DEF Connection, AssertsHold, TrackerAsserts, TrackerGood
    <3> QED BY <1>0, <2>2, <2>3, <3>1, <3>2, StartedConnection
  <2>4. CASE IsOpen(stream) /\ Send("watch", d, Write(stream)) /\ UNCHANGED tracker
    <3>1. /\ stream'.idle = FALSE /\ stream'.state = "Open" /\ stream'.grpc = stream.grpc
          /\ stream'.closes = stream.closes /\ stream'.credentials = stream.credentials
      BY <1>0, <2>4 DEF Send, Write, Stream, IsOpen
    <3>2. TrackerAsserts'
      BY <2>4, <3>1 DEF Connection, AssertsHold, TrackerAsserts, IsStarted
    <3>3. StreamAsserts'
      BY <2>2, <2>4, <3>1 DEF Connection, AssertsHold, StreamAsserts, IsStarted, IsOpen
    <3> QED BY <3>1, <3>2, <3>3 DEF Connection, AssertsHold, CredentialsPast
  <2>5. CASE IsStarted(stream) /\ ~IsOpen(stream) /\ UNCHANGED <<stream, tracker>>
    <3>1. TrackerAsserts'
      BY <2>5 DEF Connection, AssertsHold, TrackerAsserts, IsStarted
    <3>2. StreamAsserts'
      BY <2>2, <2>5 DEF Connection, AssertsHold, StreamAsserts, IsStarted, IsOpen
    <3> QED BY <2>5, <3>1, <3>2 DEF Connection, AssertsHold, CredentialsPast
  <2> QED BY <1>7, <2>3, <2>4, <2>5 DEF Listen
<1> QED BY <1>4, <1>6, <1>7

\* Removing a listener keeps the assertions.
LEMMA RemoveConnection ==
  ASSUME Types, Connection, RemoveQueryListener
  PROVE  Connection'
<1>0. AppTypes /\ stream \in Stream /\ tracker \in Tracker /\ listeners \in [Docs -> SUBSET Gets]
  BY DEF Types, AppTypes, Stream, Tracker
<1>1. tasks # << >> /\ tasks' = Tail(tasks) /\ doc' = doc
  BY DEF RemoveQueryListener, caller
<1>2. PICK g \in Gets : g = Head(tasks).get
  BY <1>1, TaskTypes
<1>3. PICK d \in Docs : d = doc[g]
  BY <1>1, <1>2, TaskTypes
<1>4. /\ listeners' = [listeners EXCEPT ![d] = @ \ {g}]
      /\ \/ listeners[d] = {g} /\ StopListening(d)
         \/ listeners[d] # {g} /\ UNCHANGED link
  BY <1>2, <1>3 DEF RemoveQueryListener
<1>5. \A e \in Docs : e \in targets <=> listeners[e] # {}
  BY DEF Connection, AssertsHold, StreamAsserts
<1>6. CASE listeners[d] # {g} /\ UNCHANGED link
  <2>1. \A e \in Docs : e \in targets' <=> listeners'[e] # {}
    BY <1>0, <1>4, <1>5, <1>6 DEF link
  <2> QED BY <1>6, <2>1 DEF Connection, AssertsHold, TrackerAsserts, StreamAsserts,
                            CredentialsPast, IsStarted, IsOpen, link
<1>7. CASE listeners[d] = {g} /\ StopListening(d)
  <2>1. targets' = targets \ {d}
    BY <1>7 DEF StopListening
  <2>2. \A e \in Docs : e \in targets' <=> listeners'[e] # {}
    BY <1>0, <1>4, <1>5, <1>7, <2>1
  <2>3. CASE IsOpen(stream)
    <3>1. /\ stream'.idle => targets' = {}
          /\ stream'.state = "Open" /\ stream'.grpc = stream.grpc
          /\ stream'.closes = stream.closes /\ stream'.credentials = stream.credentials
          /\ tracker' = tracker
      <4>1. \/ stream' = Write(stream)
            \/ targets' = {} /\ stream' = MarkIdle(Write(stream))
        BY <1>7, <2>3 DEF StopListening, Send
      <4>2. tracker' = tracker
        BY <1>7, <2>3 DEF StopListening
      <4> QED BY <1>0, <2>3, <4>1, <4>2 DEF Write, MarkIdle, Stream, IsOpen
    <3>2. TrackerAsserts'
      BY <3>1 DEF Connection, AssertsHold, TrackerAsserts, IsStarted
    <3>3. StreamAsserts'
      BY <2>2, <2>3, <3>1 DEF Connection, AssertsHold, StreamAsserts, IsStarted, IsOpen
    <3> QED BY <3>1, <3>2, <3>3 DEF Connection, AssertsHold, CredentialsPast
  <2>4. CASE ~IsOpen(stream)
    <3>1. /\ stream' = stream
          /\ tracker' = IF targets' = {} THEN UpdateState(tracker, "Unknown") ELSE tracker
      BY <1>7, <2>4 DEF StopListening
    <3>2. TrackerAsserts'
      BY <3>1, <1>0, TrackerKept
         DEF Connection, AssertsHold, TrackerAsserts, IsStarted, UpdateState
    <3>3. StreamAsserts'
      BY <2>1, <2>2, <3>1 DEF Connection, AssertsHold, StreamAsserts, IsStarted, IsOpen
    <3> QED BY <3>1, <3>2, <3>3 DEF Connection, AssertsHold, CredentialsPast
  <2> QED BY <2>3, <2>4
<1> QED BY <1>4, <1>6, <1>7

\* The steps of the stream keep the assertions.
LEMMA StreamConnection ==
  ASSUME Types, Connection,
         \/ \E c \in stream.credentials : ResumeStartWithCredentials(c)
         \/ OnStreamStart \/ OnStreamFinish \/ BackoffElapsed \/ IdleTimeout
  PROVE  Connection'
<1>0. /\ AppTypes /\ stream \in Stream /\ tracker \in Tracker
      /\ \A n \in stream.credentials : n <= stream.closes
  BY DEF Types, AppTypes, Stream, Tracker, Connection, CredentialsPast
<1> DEFINE Kept == UNCHANGED <<tracker, targets, listeners>>
<1>1. ASSUME Kept, IsStarted(stream) => IsStarted(stream'),
             stream'.idle => stream.idle /\ IsOpen(stream'),
             stream'.closes \in stream'.credentials => stream'.state = "Starting" /\ ~stream'.grpc,
             stream'.grpc => stream'.state \in {"Starting", "Open"},
             \A n \in stream'.credentials : n <= stream'.closes
      PROVE  Connection'
  <2>1. TrackerAsserts'
    BY <1>1 DEF Connection, AssertsHold, TrackerAsserts, IsStarted
  <2>2. StreamAsserts'
    BY <1>1 DEF Connection, AssertsHold, StreamAsserts, IsStarted, IsOpen
  <2> QED BY <1>1, <2>1, <2>2 DEF Connection, AssertsHold, CredentialsPast
<1>2. OnlyStream => Kept
  BY DEF OnlyStream, client
<1>3. stream.idle => IsOpen(stream)
  BY DEF Connection, AssertsHold, StreamAsserts
<1>4. /\ stream.closes \in stream.credentials => stream.state = "Starting" /\ ~stream.grpc
      /\ stream.grpc => stream.state \in {"Starting", "Open"}
  BY DEF Connection, AssertsHold, StreamAsserts
<1> HIDE DEF Kept
<1>5. ASSUME NEW c \in stream.credentials, ResumeStartWithCredentials(c) PROVE Connection'
  <2>1. PICK s \in Stream : s = [stream EXCEPT !.credentials = @ \ {c}]
    BY <1>0, StreamOps
  <2>2. /\ s.credentials = stream.credentials \ {c} /\ s.closes = stream.closes
        /\ s.state = stream.state /\ s.grpc = stream.grpc /\ s.idle = stream.idle
    BY <1>0, <2>1 DEF Stream
  <2>3. \/ c # s.closes /\ stream' = s /\ OnlyStream
        \/ c = s.closes /\ stream' = [s EXCEPT !.grpc = TRUE] /\ OnlyStream
        \/ CloseStream(s, FALSE)
    BY <1>5, <2>1 DEF ResumeStartWithCredentials
  <2>4. CASE CloseStream(s, FALSE)
    BY <1>0, <2>2, <2>4, CloseConnection
  <2>5. CASE stream' = s /\ OnlyStream
    BY <1>0, <1>1, <1>2, <1>3, <1>4, <2>2, <2>5 DEF IsStarted, IsOpen
  <2>6. CASE c = s.closes /\ stream' = [s EXCEPT !.grpc = TRUE] /\ OnlyStream
    <3>1. /\ stream'.credentials = stream.credentials \ {c} /\ stream'.closes = stream.closes
          /\ stream'.state = stream.state /\ stream'.idle = stream.idle
      BY <2>2, <2>6 DEF Stream
    <3>2. stream.state = "Starting"
      BY <1>4, <2>2, <2>6
    <3> QED BY <1>0, <1>1, <1>2, <1>3, <2>2, <2>6, <3>1, <3>2 DEF IsStarted, IsOpen
  <2> QED BY <2>3, <2>4, <2>5, <2>6
<1>6. ASSUME OnStreamStart PROVE Connection'
  <2>1. stream.grpc /\ ~IsOpen(stream) /\ OnlyStream
    BY <1>6 DEF OnStreamStart
  <2>2. /\ stream'.credentials = stream.credentials /\ stream'.closes = stream.closes
        /\ stream'.state = "Open" /\ stream'.idle = stream.idle /\ stream'.grpc = stream.grpc
    BY <1>0, <1>6 DEF OnStreamStart, Stream
  <2> QED BY <1>0, <1>1, <1>2, <1>3, <1>4, <2>1, <2>2 DEF IsStarted, IsOpen
<1>7. ASSUME OnStreamFinish PROVE Connection'
  BY <1>0, <1>7, CloseConnection DEF OnStreamFinish
<1>8. ASSUME BackoffElapsed PROVE Connection'
  <2>1. PICK s \in Stream : s = [stream EXCEPT !.state = "Initial"]
    BY <1>0, StreamOps
  <2>2. /\ s.credentials = stream.credentials /\ s.closes = stream.closes
        /\ s.state = "Initial" /\ s.grpc = stream.grpc /\ s.idle = stream.idle
    BY <1>0, <2>1 DEF Stream
  <2>3. stream.state = "Backoff" /\ stream' = Start(s) /\ OnlyStream
    BY <1>8, <2>1 DEF BackoffElapsed
  <2>4. /\ stream'.credentials = stream.credentials \cup {stream.closes}
        /\ stream'.closes = stream.closes /\ stream'.state = "Starting"
        /\ stream'.idle = stream.idle /\ stream'.grpc = stream.grpc
    BY <2>2, <2>3, StartFields
  <2>5. stream.closes \in Nat
    BY <1>0 DEF Stream
  <2>6. ~stream.idle /\ ~stream.grpc
    BY <1>3, <1>4, <2>3 DEF IsOpen
  <2>7. \A n \in stream'.credentials : n <= stream'.closes
    BY <1>0, <2>4, <2>5
  <2>8. IsStarted(stream')
    BY <2>4 DEF IsStarted
  <2> QED BY <1>1, <1>2, <2>3, <2>4, <2>6, <2>7, <2>8
<1>9. ASSUME IdleTimeout PROVE Connection'
  BY <1>0, <1>9, CloseConnection DEF IdleTimeout
<1> QED BY <1>5, <1>6, <1>7, <1>8, <1>9

\* The timer of the online state and the network keep the assertions.
LEMMA NetworkConnection ==
  ASSUME Types, Connection, OnlineStateTimeout \/ RestartNetwork
  PROVE  Connection'
<1>0. /\ AppTypes /\ stream \in Stream /\ tracker \in Tracker
      /\ \A n \in stream.credentials : n <= stream.closes
      /\ \A d \in Docs : d \in targets <=> listeners[d] # {}
  BY DEF Types, AppTypes, Stream, Tracker, Connection, CredentialsPast, AssertsHold, StreamAsserts
<1>1. ASSUME OnlineStateTimeout PROVE Connection'
  <2>1. /\ tracker.timer /\ UNCHANGED <<stream, targets, listeners>>
        /\ tracker' = [tracker EXCEPT !.timer = FALSE, !.online = "Offline"]
    BY <1>1 DEF OnlineStateTimeout
  <2>2. /\ ~tracker'.timer /\ tracker'.online = "Offline" /\ tracker'.failures = tracker.failures
    BY <1>0, <2>1 DEF Tracker
  <2>3. TrackerAsserts'
    BY <2>1, <2>2 DEF Connection, AssertsHold, TrackerAsserts
  <2>4. StreamAsserts'
    BY <2>1 DEF Connection, AssertsHold, StreamAsserts, IsStarted, IsOpen
  <2> QED BY <2>1, <2>3, <2>4 DEF Connection, AssertsHold, CredentialsPast
<1>2. ASSUME RestartNetwork PROVE Connection'
  <2>1. PICK z \in Stream : z = (IF IsStarted(stream) THEN Close(stream, TRUE) ELSE stream) /\ Quiet(z)
    BY <1>0, StreamOps, CloseQuiet, NotStartedQuiet
  <2>2. PICK s \in Stream : s = [z EXCEPT !.state = "Initial"]
    BY StreamOps
  <2>3. Quiet(s)
    <3>1. /\ s.state = "Initial" /\ s.grpc = z.grpc /\ s.idle = z.idle
          /\ s.closes = z.closes /\ s.credentials = z.credentials
      BY <2>2 DEF Stream
    <3> QED BY <2>1, <3>1 DEF Quiet
  <2>4. PICK t \in Tracker :
          t = UpdateState(tracker, "Unknown") /\ t.timer = FALSE /\ t.failures = 0
    BY <1>0, TrackerOps DEF UpdateState
  <2>5. TrackerGood(t)
    BY <2>4 DEF TrackerGood
  <2>6. /\ IF targets # {} THEN StartWatchStream(s, t) ELSE stream' = s /\ tracker' = t
        /\ UNCHANGED <<targets, listeners>>
    BY <1>2, <2>1, <2>2, <2>4 DEF RestartNetwork, client
  <2>7. \A d \in Docs : d \in targets' <=> listeners'[d] # {}
    BY <1>0, <2>6
  <2>8. CASE targets # {}
    BY <2>3, <2>5, <2>6, <2>7, <2>8, StartedConnection
  <2>9. CASE targets = {}
    BY <2>3, <2>4, <2>6, <2>7, <2>9, StoppedConnection
  <2> QED BY <2>8, <2>9
<1> QED BY <1>1, <1>2

\* A message of the server keeps the assertions.
LEMMA ChangeConnection ==
  ASSUME Types, Connection, OnWatchStreamChange
  PROVE  Connection'
<1>0. /\ AppTypes /\ tracker \in Tracker /\ listeners \in [Docs -> SUBSET Gets]
      /\ \A d \in Docs : d \in targets <=> listeners[d] # {}
  BY DEF Types, AppTypes, Tracker, Connection, AssertsHold, StreamAsserts
<1>1. /\ resp # << >> /\ tracker' = UpdateState(tracker, "Online") /\ stream' = stream
  BY DEF OnWatchStreamChange
<1>2. PICK m \in Change : m = Head(resp)
  BY <1>0, <1>1, HeadTypes
<1>3. PICK d \in Docs : d = m.doc
  BY DEF Change
<1>4. PICK v : v = m.version
  OBVIOUS
<1>5. ProcessTargetError(d) \/ RecordTargetResponse(d) \/ ApplyRemoteEvent(d, v)
  BY <1>2, <1>3, <1>4 DEF OnWatchStreamChange
<1>6. targets' \subseteq targets /\ \A e \in Docs : e \in targets' <=> listeners'[e] # {}
  <2>1. CASE ProcessTargetError(d)
    <3>1. CASE d \in targets
      BY <1>0, <2>1, <3>1 DEF ProcessTargetError
    <3>2. CASE d \notin targets
      BY <1>0, <2>1, <3>2 DEF ProcessTargetError
    <3> QED BY <3>1, <3>2
  <2>2. CASE RecordTargetResponse(d) \/ ApplyRemoteEvent(d, v)
    BY <1>0, <2>2 DEF RecordTargetResponse, ApplyRemoteEvent, client
  <2> QED BY <1>5, <2>1, <2>2
<1>7. ~tracker'.timer /\ tracker'.failures = 0
  BY <1>1 DEF UpdateState
<1>8. TrackerAsserts'
  BY <1>7 DEF TrackerAsserts
<1>9. StreamAsserts'
  BY <1>1, <1>6 DEF Connection, AssertsHold, StreamAsserts, IsStarted, IsOpen
<1> QED BY <1>1, <1>8, <1>9 DEF Connection, AssertsHold, CredentialsPast

\* Every step keeps the assertions.
LEMMA ConnectionNext ==
  ASSUME Types, Connection, [Step]_app
  PROVE  Connection'
<1>1. ASSUME UNCHANGED <<stream, tracker, targets, listeners>> PROVE Connection'
  BY <1>1 DEF Connection, AssertsHold, TrackerAsserts, StreamAsserts, CredentialsPast,
              IsStarted, IsOpen
<1>2. CASE \/ \E g \in Gets, d \in Docs : GetDocument(g, d)
           \/ \E g \in Gets : OnEvent(g)
           \/ \E d \in Docs : ServerChange(d)
           \/ ServerAnswers
           \/ UNCHANGED app
  <2>1. UNCHANGED <<stream, tracker, targets, listeners>>
    BY <1>2 DEF GetDocument, OnEvent, ServerChange, ServerAnswers, app, client, link
  <2> QED BY <1>1, <2>1
<1> QED BY <1>2, AddConnection, RemoveConnection, StreamConnection, NetworkConnection,
           ChangeConnection DEF Step

\* The assertions hold at the start.
LEMMA InitConnection == Init => Connection
BY DEF Init, Connection, AssertsHold, TrackerAsserts, StreamAsserts, CredentialsPast,
       IsStarted, IsOpen

\* No assertion of OnlineStateTracker, Stream or RemoteStore about the
\* connection can fail, however often the stream breaks, idles or is restarted
\* and in whatever order gets come and go: TrackerAsserts and StreamAsserts need
\* of each other that a timer or a failure count belongs to a started stream,
\* and of the stream that credentials are asked for with a close count no larger
\* than the present one.
THEOREM NoAssertFails == Spec => []AssertsHold
<1>1. Types /\ Connection /\ [Next]_vars => Types' /\ Connection'
  BY StepOf, TypesNext, ConnectionNext
<1>2. Init => Types /\ Connection
  BY InitTypes, InitConnection
<1>3. Connection => AssertsHold
  BY DEF Connection
<1> QED BY <1>1, <1>2, <1>3, PTL DEF Spec

-----------------------------------------------------------------------------
(* Waiting for the server *)

\* With a target, the state is Unknown only while the timer runs, unless the
\* first target found the stream started; and Offline everyone was told.
Timed == targets # {} /\ tracker.online = "Unknown" => tracker.timer \/ inherited
Told == tracker.online = "Offline" => \A d \in Docs : listeners[d] \subseteq raised
Waits == Timed /\ Told

\* What starting the stream makes of a tracker.
LEMMA StartTracker ==
  ASSUME NEW t \in Tracker, NEW u, u = HandleWatchStreamStart(t)
  PROVE  /\ t.failures = 0 => u.online = "Unknown" /\ u.timer
         /\ t.failures # 0 => u = t
<1>1. t.failures = 0 => u.online = "Unknown" /\ u.timer
  BY DEF Tracker, HandleWatchStreamStart
<1> QED BY <1>1 DEF HandleWatchStreamStart

\* What a failure makes of a tracker: a client that was online counts no failure.
LEMMA FailureTracker ==
  ASSUME NEW t \in Tracker, TrackerGood(t), NEW u, u = HandleWatchStreamFailure(t)
  PROVE  /\ t.online = "Online" => u.failures = 0
         /\ t.online # "Online" => u.online = "Offline" /\ u.failures # 0
<1>1. t.online = "Online" => u.failures = 0
  BY DEF Tracker, TrackerGood, HandleWatchStreamFailure
<1>2. t.online # "Online" => u.online = "Offline" /\ u.failures # 0
  BY DEF Tracker, HandleWatchStreamFailure
<1> QED BY <1>1, <1>2

\* On the step to Offline the listeners that told nothing yet do.
LEMMA OfflineTold ==
  ASSUME AppTypes, Told, NEW new, HandleOnlineStateChange(tracker.online, new),
         UNCHANGED listeners, new = "Offline"
  PROVE  \A d \in Docs : listeners'[d] \subseteq raised'
<1>1. CASE tracker.online = "Offline"
  BY <1>1 DEF HandleOnlineStateChange, Told
<1>2. CASE tracker.online # "Offline"
  <2>1. raised' = raised \cup {g \in UNION {listeners[d] : d \in Docs} :
                                 g \notin raised \/ doc[g] \in synced}
    BY <1>2 DEF HandleOnlineStateChange, Raise
  <2> QED BY <2>1
<1> QED BY <1>1, <1>2

\* Closing the stream leaves no one waiting without a timer.
LEMMA CloseWaits ==
  ASSUME AppTypes, Connection, Waits, NEW s, NEW b, CloseStream(s, b)
  PROVE  Waits'
<1>1. tracker \in Tracker /\ TrackerGood(tracker)
  BY DEF AppTypes, Tracker, Connection, AssertsHold, TrackerAsserts, TrackerGood
<1>2. /\ UNCHANGED <<listeners, targets>>
      /\ HandleOnlineStateChange(tracker.online, tracker'.online)
  BY DEF CloseStream
<1>3. Told'
  <2>1. PICK new : new = tracker'.online
    OBVIOUS
  <2>2. new = "Offline" => \A d \in Docs : listeners'[d] \subseteq raised'
    BY <1>2, <2>1, OfflineTold DEF Waits
  <2> QED BY <2>1, <2>2 DEF Told
<1>4. Timed'
  <2>1. CASE targets # {}
    <3>1. PICK t \in Tracker : t = HandleWatchStreamFailure(tracker)
      BY <1>1, TrackerOps
    <3>2. PICK u : u = tracker' /\ u = HandleWatchStreamStart(t)
      BY <2>1, <3>1 DEF CloseStream, StartWatchStream
    <3>3. u.online = "Unknown" => u.timer
      BY <1>1, <3>1, <3>2, StartTracker, FailureTracker
    <3> QED BY <3>2, <3>3 DEF Timed
  <2>2. CASE targets = {}
    BY <1>2, <2>2 DEF Timed
  <2> QED BY <2>1, <2>2
<1> QED BY <1>3, <1>4 DEF Waits

\* Adding a listener leaves no one waiting without a timer.
LEMMA AddWaits ==
  ASSUME Types, Connection, Waits, AddQueryListener
  PROVE  Waits'
<1>0. AppTypes /\ stream \in Stream /\ tracker \in Tracker /\ listeners \in [Docs -> SUBSET Gets]
  BY DEF Types, AppTypes, Stream, Tracker
<1>1. tasks # << >> /\ tasks' = Tail(tasks) /\ doc' = doc
  BY DEF AddQueryListener, caller
<1>2. PICK g \in Gets : g = Head(tasks).get
  BY <1>1, TaskTypes
<1>3. PICK d \in Docs : d = doc[g]
  BY <1>1, <1>2, TaskTypes
<1>4. /\ listeners' = [listeners EXCEPT ![d] = @ \cup {g}]
      /\ \/ Listen(d)
         \/ UNCHANGED <<link, inherited>>
      /\ raised' = raised \cup (IF ShouldRaiseInitialEvent(d \in synced, tracker'.online)
                                THEN {g} ELSE {})
  BY <1>2, <1>3 DEF AddQueryListener, Raise
<1>5. \/ ~IsStarted(stream) /\ tracker' = HandleWatchStreamStart(tracker)
      \/ /\ tracker' = tracker
         /\ \/ targets' = targets /\ inherited' = inherited
            \/ targets = {} /\ inherited' = IsStarted(stream) /\ IsStarted(stream)
            \/ targets # {} /\ inherited' = inherited
  <2>1. CASE UNCHANGED <<link, inherited>>
    BY <2>1 DEF link
  <2>2. CASE Listen(d)
    <3>1. inherited' = IF targets = {} THEN IsStarted(stream) ELSE inherited
      BY <2>2 DEF Listen
    <3>2. \/ ~IsStarted(stream) /\ tracker' = HandleWatchStreamStart(tracker)
          \/ IsStarted(stream) /\ tracker' = tracker
      BY <2>2 DEF Listen, StartWatchStream, IsOpen, IsStarted
    <3> QED BY <3>1, <3>2
  <2> QED BY <1>4, <2>1, <2>2
<1>6. CASE ~IsStarted(stream) /\ tracker' = HandleWatchStreamStart(tracker)
  <2>1. tracker.failures = 0
    BY <1>6 DEF Connection, AssertsHold, TrackerAsserts
  <2>2. tracker'.online = "Unknown" /\ tracker'.timer
    BY <1>0, <1>6, <2>1, StartTracker
  <2> QED BY <2>2 DEF Waits, Timed, Told
<1>7. CASE /\ tracker' = tracker
           /\ \/ targets' = targets /\ inherited' = inherited
              \/ targets = {} /\ inherited' = IsStarted(stream) /\ IsStarted(stream)
              \/ targets # {} /\ inherited' = inherited
  <2>1. Timed'
    BY <1>7 DEF Waits, Timed
  <2>2. ASSUME tracker'.online = "Offline" PROVE \A e \in Docs : listeners'[e] \subseteq raised'
    <3>1. raised' = raised \cup {g}
      BY <1>4, <2>2 DEF ShouldRaiseInitialEvent
    <3>2. \A e \in Docs : listeners[e] \subseteq raised
      BY <1>7, <2>2 DEF Waits, Told
    <3> QED BY <1>0, <1>4, <3>1, <3>2
  <2> QED BY <2>1, <2>2 DEF Waits, Told
<1> QED BY <1>5, <1>6, <1>7

\* Removing a listener leaves no one waiting without a timer.
LEMMA RemoveWaits ==
  ASSUME Types, Waits, RemoveQueryListener
  PROVE  Waits'
<1>0. AppTypes /\ tracker \in Tracker /\ listeners \in [Docs -> SUBSET Gets]
  BY DEF Types, AppTypes, Tracker
<1>1. tasks # << >> /\ tasks' = Tail(tasks) /\ doc' = doc /\ UNCHANGED <<raised, inherited>>
  BY DEF RemoveQueryListener, caller, history
<1>2. PICK g \in Gets : g = Head(tasks).get
  BY <1>1, TaskTypes
<1>3. PICK d \in Docs : d = doc[g]
  BY <1>1, <1>2, TaskTypes
<1>4. /\ listeners' = [listeners EXCEPT ![d] = @ \ {g}]
      /\ StopListening(d) \/ UNCHANGED link
  BY <1>2, <1>3 DEF RemoveQueryListener
<1>5. \/ tracker' = tracker /\ targets' \subseteq targets
      \/ tracker' = UpdateState(tracker, "Unknown") /\ targets' = {}
  <2>1. CASE StopListening(d)
    BY <2>1 DEF StopListening
  <2>2. CASE UNCHANGED link
    BY <2>2 DEF link
  <2> QED BY <1>4, <2>1, <2>2
<1>6. \A e \in Docs : listeners'[e] \subseteq listeners[e]
  BY <1>0, <1>4
<1>7. CASE tracker' = tracker /\ targets' \subseteq targets
  BY <1>1, <1>6, <1>7 DEF Waits, Timed, Told
<1>8. CASE tracker' = UpdateState(tracker, "Unknown") /\ targets' = {}
  BY <1>8 DEF Waits, Timed, Told, UpdateState
<1> QED BY <1>5, <1>7, <1>8

\* Every step leaves no one waiting without a timer.
LEMMA WaitsNext ==
  ASSUME Types, Connection, Waits, [Step]_app
  PROVE  Waits'
<1>0. AppTypes /\ tracker \in Tracker
  BY DEF Types, AppTypes, Tracker
<1>1. ASSUME UNCHANGED <<tracker, targets, listeners, raised, inherited>> PROVE Waits'
  BY <1>1 DEF Waits, Timed, Told
<1>2. CASE \/ \E g \in Gets, d \in Docs : GetDocument(g, d)
           \/ \E g \in Gets : OnEvent(g)
           \/ \E d \in Docs : ServerChange(d)
           \/ ServerAnswers
           \/ UNCHANGED app
  <2>1. UNCHANGED <<tracker, targets, listeners, raised, inherited>>
    BY <1>2 DEF GetDocument, OnEvent, ServerChange, ServerAnswers, app, client, link, history
  <2> QED BY <1>1, <2>1
<1>3. CASE \/ \E c \in stream.credentials : ResumeStartWithCredentials(c)
           \/ OnStreamStart \/ OnStreamFinish \/ BackoffElapsed \/ IdleTimeout
  <2>1. OnlyStream \/ \E s, b : CloseStream(s, b)
    BY <1>3 DEF ResumeStartWithCredentials, OnStreamStart, OnStreamFinish, BackoffElapsed,
                IdleTimeout
  <2>2. CASE OnlyStream
    BY <1>1, <2>2 DEF OnlyStream, client, history
  <2> QED BY <1>0, <2>1, <2>2, CloseWaits
<1>4. CASE OnlineStateTimeout
  <2>1. /\ tracker' = [tracker EXCEPT !.timer = FALSE, !.online = "Offline"]
        /\ HandleOnlineStateChange(tracker.online, "Offline") /\ UNCHANGED listeners
    BY <1>4 DEF OnlineStateTimeout
  <2>2. tracker'.online = "Offline"
    BY <1>0, <2>1 DEF Tracker
  <2>3. \A d \in Docs : listeners'[d] \subseteq raised'
    BY <1>0, <2>1, OfflineTold DEF Waits
  <2> QED BY <2>2, <2>3 DEF Waits, Timed, Told
<1>5. CASE RestartNetwork
  <2>1. PICK t \in Tracker : t = UpdateState(tracker, "Unknown")
    BY <1>0, TrackerOps
  <2>2. t.online = "Unknown" /\ t.failures = 0
    BY <2>1 DEF UpdateState
  <2>3. targets' = targets /\ (targets # {} => tracker' = HandleWatchStreamStart(t))
                           /\ (targets = {} => tracker' = t)
    BY <1>5, <2>1 DEF RestartNetwork, StartWatchStream
  <2>4. tracker'.online = "Unknown" /\ (targets # {} => tracker'.timer)
    BY <2>2, <2>3, StartTracker
  <2> QED BY <2>3, <2>4 DEF Waits, Timed, Told
<1>6. CASE OnWatchStreamChange
  BY <1>6 DEF OnWatchStreamChange, UpdateState, Waits, Timed, Told
<1> QED BY <1>2, <1>3, <1>4, <1>5, <1>6, AddWaits, RemoveWaits DEF Step

\* A get whose listener raised nothing yet is waiting for the ten-second timer,
\* or the client is online and an error would end the wait, or the first of the
\* present targets found the stream already started: the tracker settles every
\* other case, since only a stream that failed counts failures, and the step to
\* Offline answers every listener there is.
THEOREM BoundedWait == Spec => []WaitIsBounded
<1>1. Types /\ Connection /\ Waits /\ [Next]_vars => Types' /\ Connection' /\ Waits'
  BY StepOf, TypesNext, ConnectionNext, WaitsNext
<1>2. Init => Types /\ Connection /\ Waits
  BY InitTypes, InitConnection DEF Init, Waits, Timed, Told
<1>3. Connection /\ Waits => WaitIsBounded
  BY DEF Connection, AssertsHold, StreamAsserts, Waits, Timed, Told, WaitIsBounded
<1> QED BY <1>1, <1>2, <1>3, PTL DEF Spec

-----------------------------------------------------------------------------
(* Answers *)

NotListening(g) == \A d \in Docs : g \notin listeners[d]

\* A get whose listener was not added yet.
Fresh(g) == NotListening(g) /\ events[g] = << >> /\ answers[g] = << >> /\ g \notin muted

\* A listener is added once, and nothing happens to its get before.
AddedOnce ==
  \A m, n \in 1..Len(tasks) : tasks[m].op = "add" /\ tasks[m] = tasks[n] => m = n
FreshUntilAdded ==
  \A g \in Gets : (\E n \in 1..Len(tasks) : tasks[n] = Adding(g)) => Fresh(g)
FreshUntilCalled == \A g \in Gets : doc[g] = Nothing => Fresh(g)

\* An error is the last event of its listener, which is removed with it.
ErrorIsLast ==
  \A g \in Gets : \A n \in 1..Len(events[g]) :
    events[g][n].kind = "error" => n = Len(events[g]) /\ NotListening(g)

\* A get that was answered is muted, or was answered with an error.
AnsweredIsDone ==
  \A g \in Gets : answers[g] # << >> /\ g \notin muted => events[g] = << >> /\ NotListening(g)

Answering ==
  FreshUntilCalled /\ ErrorIsLast /\ AnsweredIsDone /\ AnsweredOnce
Once == AddedOnce /\ FreshUntilAdded /\ Answering

\* Listeners raise events, and an error removes its listener.
Raises ==
  /\ \A d \in Docs : listeners'[d] \subseteq listeners[d]
  /\ \A g \in Gets :
       \/ events'[g] = events[g]
       \/ /\ ~NotListening(g)
          /\ \E e \in Event : /\ events'[g] = Append(events[g], e)
                              /\ e.kind = "error" => NotListening(g)'

\* Raising events answers no one, and touches no get that is not listened for.
LEMMA RaisesKeep ==
  ASSUME AppTypes, Once, Raises, UNCHANGED <<doc, muted, answers>>
  PROVE  Answering' /\ \A g \in Gets : Fresh(g) => Fresh(g)'
<1>1. \A g \in Gets : NotListening(g) => NotListening(g)' /\ events'[g] = events[g]
  BY DEF Raises, NotListening
<1>2. \A g \in Gets : Fresh(g) => Fresh(g)'
  BY <1>1 DEF Fresh
<1>3. FreshUntilCalled'
  BY <1>2 DEF FreshUntilCalled, Once, Answering
<1>4. AnsweredIsDone'
  BY <1>1 DEF AnsweredIsDone, Once, Answering
<1>5. AnsweredOnce'
  BY DEF AnsweredOnce, Once, Answering
<1>6. ASSUME NEW g \in Gets, NEW n \in 1..Len(events'[g]), events'[g][n].kind = "error"
      PROVE  n = Len(events'[g]) /\ NotListening(g)'
  <2>1. CASE events'[g] = events[g]
    BY <1>1, <1>6, <2>1 DEF ErrorIsLast, Once, Answering
  <2>2. CASE events'[g] # events[g]
    <3>1. PICK e \in Event : /\ events'[g] = Append(events[g], e)
                             /\ e.kind = "error" => NotListening(g)'
      BY <2>2 DEF Raises
    <3>2. events[g] \in Seq(Event)
      BY DEF AppTypes
    <3>3. /\ Len(events'[g]) = Len(events[g]) + 1 /\ Len(events[g]) \in Nat
          /\ events'[g][Len(events[g]) + 1] = e
          /\ \A k \in 1..Len(events[g]) : events'[g][k] = events[g][k]
      BY <3>1, <3>2
    <3>4. ~NotListening(g)
      BY <1>1, <2>2
    <3>5. n \notin 1..Len(events[g])
      BY <1>6, <3>3, <3>4 DEF ErrorIsLast, Once, Answering
    <3>6. n = Len(events[g]) + 1
      BY <3>3, <3>5
    <3> QED BY <1>6, <3>1, <3>3, <3>6
  <2> QED BY <2>1, <2>2
<1>7. ErrorIsLast'
  BY <1>6 DEF ErrorIsLast
<1> QED BY <1>2, <1>3, <1>4, <1>5, <1>7 DEF Answering

\* Snapshots of listeners are events raised.
LEMMA SnapshotRaises ==
  ASSUME AppTypes, NEW ls \in SUBSET Gets, NEW v, NEW b \in BOOLEAN,
         \A g \in ls : ~NotListening(g) /\ doc[g] \in Docs /\ v[doc[g]] \in Version,
         Raise(ls, v, b), UNCHANGED listeners
  PROVE  Raises
<1>1. ASSUME NEW g \in ls
      PROVE  \E e \in Event : events'[g] = Append(events[g], e) /\ e.kind # "error"
  <2>1. Found(v[doc[g]], b) \in Event
    BY EventTypes
  <2>2. Found(v[doc[g]], b).kind = "snapshot"
    BY DEF Found
  <2>3. events'[g] = Append(events[g], Found(v[doc[g]], b))
    BY DEF Raise
  <2> QED BY <2>1, <2>2, <2>3
<1>2. \A g \in Gets \ ls : events'[g] = events[g]
  BY DEF Raise
<1> QED BY <1>1, <1>2 DEF Raises

\* A change of the online state raises events of listeners.
LEMMA OnlineRaises ==
  ASSUME AppTypes, ListenersCalled, NEW old, NEW new, HandleOnlineStateChange(old, new),
         UNCHANGED listeners
  PROVE  Raises
<1>1. CASE new = "Offline" /\ old # "Offline"
  <2> DEFINE ls == {g \in UNION {listeners[d] : d \in Docs} : g \notin raised \/ doc[g] \in synced}
  <2>1. /\ ls \in SUBSET Gets
        /\ \A g \in ls : ~NotListening(g) /\ doc[g] \in Docs /\ cache[doc[g]] \in Version
    BY DEF AppTypes, ListenersCalled, NotListening
  <2>2. Raise(ls, cache, TRUE)
    BY <1>1 DEF HandleOnlineStateChange
  <2> HIDE DEF ls
  <2> QED BY <2>1, <2>2, SnapshotRaises
<1>2. CASE ~(new = "Offline" /\ old # "Offline")
  BY <1>2 DEF HandleOnlineStateChange, Raises
<1> QED BY <1>1, <1>2

\* Only what is enqueued, and the first task, touch the tasks.
LEMMA SameTasks ==
  ASSUME AppTypes, Once, Raises, UNCHANGED <<doc, muted, answers, tasks>>
  PROVE  Once'
<1>1. Answering' /\ \A g \in Gets : Fresh(g) => Fresh(g)'
  BY RaisesKeep
<1>2. AddedOnce'
  BY DEF AddedOnce, Once
<1>3. FreshUntilAdded'
  BY <1>1 DEF FreshUntilAdded, Once
<1> QED BY <1>1, <1>2, <1>3 DEF Once

\* A step with no call, task or event keeps the answers in order.
LEMMA NothingRaised ==
  ASSUME AppTypes, Once, UNCHANGED <<doc, muted, answers, tasks, listeners, events>>
  PROVE  Once'
<1>1. Raises
  BY DEF Raises
<1> QED BY <1>1, SameTasks

\* Closing the stream keeps the answers in order.
LEMMA CloseOnce ==
  ASSUME Types, Once, NEW s, NEW b, CloseStream(s, b)
  PROVE  Once'
<1>1. /\ HandleOnlineStateChange(tracker.online, tracker'.online)
      /\ UNCHANGED <<tasks, listeners, doc, muted, answers>>
  BY DEF CloseStream, caller
<1>2. PICK new : new = tracker'.online
  OBVIOUS
<1>3. HandleOnlineStateChange(tracker.online, new)
  BY <1>1, <1>2
<1>4. Raises
  BY <1>1, <1>3, OnlineRaises DEF Types
<1> QED BY <1>1, <1>4, SameTasks DEF Types

\* A message of the server keeps the answers in order.
LEMMA ChangeOnce ==
  ASSUME Types, Once, OnWatchStreamChange
  PROVE  Once'
<1>0. /\ AppTypes /\ ListenersCalled /\ cache \in [Docs -> Version]
      /\ listeners \in [Docs -> SUBSET Gets] /\ events \in [Gets -> Seq(Event)]
  BY DEF Types, AppTypes
<1>1. resp # << >> /\ UNCHANGED <<tasks, doc, muted, answers>>
  BY DEF OnWatchStreamChange, caller
<1>2. PICK m \in Change : m = Head(resp)
  BY <1>0, <1>1, HeadTypes
<1>3. PICK d \in Docs : d = m.doc
  BY DEF Change
<1>4. PICK v \in Version : v = m.version
  BY DEF Change
<1>5. ProcessTargetError(d) \/ RecordTargetResponse(d) \/ ApplyRemoteEvent(d, v)
  BY <1>2, <1>3, <1>4 DEF OnWatchStreamChange
<1>6. CASE UNCHANGED <<listeners, events>>
  BY <1>0, <1>1, <1>6, NothingRaised
<1>7. ASSUME ProcessTargetError(d), d \in targets PROVE Once'
  <2>1. /\ events' = [g \in Gets |-> IF g \in listeners[d] THEN Append(events[g], Failed)
                                     ELSE events[g]]
        /\ listeners' = [listeners EXCEPT ![d] = {}]
    BY <1>7 DEF ProcessTargetError
  <2>2. \A e \in Docs : listeners'[e] \subseteq listeners[e]
    BY <1>0, <2>1
  <2>3. ASSUME NEW g \in listeners[d]
        PROVE  /\ ~NotListening(g) /\ NotListening(g)'
               /\ \E e \in Event : events'[g] = Append(events[g], e)
    <3>1. ~NotListening(g) /\ NotListening(g)'
      BY <1>0, <2>1 DEF NotListening, ListenersCalled
    <3>2. events'[g] = Append(events[g], Failed) /\ Failed \in Event
      BY <1>0, <2>1, EventTypes
    <3> QED BY <3>1, <3>2
  <2>4. \A g \in Gets \ listeners[d] : events'[g] = events[g]
    BY <2>1
  <2>5. Raises
    BY <2>2, <2>3, <2>4 DEF Raises
  <2> QED BY <1>0, <1>1, <2>5, SameTasks
<1>8. ASSUME ApplyRemoteEvent(d, v), ~UNCHANGED <<listeners, events>> PROVE Once'
  <2>1. /\ cache' = [cache EXCEPT ![d] = IF v > @ THEN v ELSE @]
        /\ Raise(listeners[d], cache', FALSE) /\ UNCHANGED listeners
    BY <1>8 DEF ApplyRemoteEvent
  <2>2. PICK w \in [Docs -> Version] : w = cache'
    BY <1>0, <2>1
  <2>3. PICK b \in BOOLEAN : b = FALSE
    OBVIOUS
  <2>4. PICK ls \in SUBSET Gets :
          /\ ls = listeners[d]
          /\ \A g \in ls : ~NotListening(g) /\ doc[g] \in Docs /\ w[doc[g]] \in Version
    BY <1>0 DEF ListenersCalled, NotListening
  <2>5. Raise(ls, w, b)
    BY <2>1, <2>2, <2>3, <2>4, Zenon
  <2>6. Raises
    BY <1>0, <2>1, <2>4, <2>5, SnapshotRaises
  <2> QED BY <1>0, <1>1, <2>6, SameTasks
<1>9. RecordTargetResponse(d) => UNCHANGED <<listeners, events>>
  BY DEF RecordTargetResponse, client
<1>10. ProcessTargetError(d) /\ d \notin targets => UNCHANGED <<listeners, events>>
  BY DEF ProcessTargetError
<1> QED BY <1>5, <1>6, <1>7, <1>8, <1>9, <1>10

\* A call enqueues its listener once.
LEMMA GetOnce ==
  ASSUME Types, Once, NEW g \in Gets, NEW d \in Docs, GetDocument(g, d)
  PROVE  Once'
<1>0. AppTypes /\ tasks \in Seq(Task) /\ doc \in [Gets -> Docs \cup {Nothing}]
  BY DEF Types, AppTypes, Task
<1>1. /\ doc[g] = Nothing /\ doc' = [doc EXCEPT ![g] = d] /\ tasks' = Append(tasks, Adding(g))
      /\ UNCHANGED <<listeners, events, muted, answers>>
  BY DEF GetDocument, client
<1>2. Adding(g) \in Task /\ Adding(g).op = "add" /\ Adding(g).get = g
  BY DEF Adding, Task
<1>3. /\ Len(tasks') = Len(tasks) + 1 /\ Len(tasks) \in Nat
      /\ \A n \in 1..Len(tasks) : tasks'[n] = tasks[n]
      /\ tasks'[Len(tasks) + 1] = Adding(g)
  BY <1>0, <1>1, <1>2
<1>4. Fresh(g)
  BY <1>1 DEF Once, Answering, FreshUntilCalled
<1>5. \A n \in 1..Len(tasks) : tasks[n] # Adding(g)
  BY <1>1, <1>2, NothingAssumption DEF Types, TasksCalled
<1>6. \A h \in Gets : (NotListening(h)' <=> NotListening(h)) /\ (Fresh(h) => Fresh(h)')
  BY <1>1 DEF NotListening, Fresh
<1>7. AddedOnce'
  <2>1. ASSUME NEW m \in 1..Len(tasks'), NEW n \in 1..Len(tasks'),
               tasks'[m].op = "add", tasks'[m] = tasks'[n]
        PROVE  m = n
    <3>1. m \in 1..Len(tasks) \/ m = Len(tasks) + 1
      BY <1>3
    <3>2. n \in 1..Len(tasks) \/ n = Len(tasks) + 1
      BY <1>3
    <3> QED BY <1>3, <1>5, <2>1, <3>1, <3>2 DEF Once, AddedOnce
  <2> QED BY <2>1 DEF AddedOnce
<1>8. FreshUntilAdded'
  <2>1. ASSUME NEW h \in Gets, NEW n \in 1..Len(tasks'), tasks'[n] = Adding(h) PROVE Fresh(h)'
    <3>1. CASE n \in 1..Len(tasks)
      BY <1>3, <1>6, <2>1, <3>1 DEF Once, FreshUntilAdded
    <3>2. CASE n = Len(tasks) + 1
      <4>1. h = g
        BY <1>3, <2>1, <3>2 DEF Adding
      <4> QED BY <1>4, <1>6, <4>1
    <3> QED BY <1>3, <3>1, <3>2
  <2> QED BY <2>1 DEF FreshUntilAdded
<1>9. FreshUntilCalled'
  <2>1. \A h \in Gets : doc'[h] = Nothing => doc[h] = Nothing
    BY <1>0, <1>1
  <2> QED BY <1>6, <2>1 DEF Once, Answering, FreshUntilCalled
<1>10. ErrorIsLast' /\ AnsweredIsDone' /\ AnsweredOnce'
  BY <1>1, <1>6 DEF Once, Answering, ErrorIsLast, AnsweredIsDone, AnsweredOnce
<1> QED BY <1>7, <1>8, <1>9, <1>10 DEF Once, Answering

\* An event answers a get that was not answered, and no other event will.
LEMMA EventOnce ==
  ASSUME Types, Once, NEW g \in Gets, OnEvent(g)
  PROVE  Once'
<1>0. /\ AppTypes /\ tasks \in Seq(Task) /\ events \in [Gets -> Seq(Event)]
      /\ answers \in [Gets -> Seq(Answer)]
  BY DEF Types, AppTypes, Task
<1>1. /\ events[g] # << >> /\ events' = [events EXCEPT ![g] = Tail(@)]
      /\ UNCHANGED <<doc, listeners>>
  BY DEF OnEvent
<1>2. PICK e \in Event : e = Head(events[g]) /\ e = events[g][1] /\ 1 \in 1..Len(events[g])
  BY <1>0, <1>1, HeadTypes
<1>3. /\ events'[g] = Tail(events[g]) /\ \A h \in Gets \ {g} : events'[h] = events[h]
      /\ Len(events'[g]) = Len(events[g]) - 1 /\ Len(events[g]) \in Nat
      /\ \A n \in 1..Len(events'[g]) : n + 1 \in 1..Len(events[g]) /\ events'[g][n] = events[g][n + 1]
  BY <1>0, <1>1
<1>4. \A h \in Gets : NotListening(h)' <=> NotListening(h)
  BY <1>1 DEF NotListening
<1>5. PICK a : \/ UNCHANGED <<tasks, muted, answers>> /\ g \in muted
               \/ /\ g \notin muted /\ e.kind = "error" /\ UNCHANGED <<tasks, muted>>
                  /\ answers' = [answers EXCEPT ![g] = Append(@, a)]
               \/ /\ g \notin muted /\ muted' = muted \cup {g}
                  /\ tasks' = Append(tasks, Removing(g))
                  /\ answers' = [answers EXCEPT ![g] = Append(@, a)]
  BY <1>2 DEF OnEvent, Mute
<1>6. ~Fresh(g) /\ \A h \in Gets \ {g} : Fresh(h) => Fresh(h)'
  <2>1. \A h \in Gets \ {g} : answers'[h] = answers[h] /\ (h \in muted' => h \in muted)
    BY <1>0, <1>5
  <2> QED BY <1>1, <1>3, <1>4, <2>1 DEF Fresh
<1>7. AddedOnce' /\ FreshUntilAdded'
  <2>1. CASE tasks' = tasks
    BY <1>6, <2>1 DEF Once, AddedOnce, FreshUntilAdded
  <2>2. CASE tasks' = Append(tasks, Removing(g))
    <3>1. Removing(g) \in Task /\ Removing(g).op = "remove"
      BY DEF Removing, Task
    <3>2. /\ Len(tasks') = Len(tasks) + 1 /\ Len(tasks) \in Nat
          /\ \A n \in 1..Len(tasks) : tasks'[n] = tasks[n]
          /\ tasks'[Len(tasks) + 1] = Removing(g)
      BY <1>0, <2>2, <3>1
    <3>3. \A n \in 1..Len(tasks') : tasks'[n].op = "add" => n \in 1..Len(tasks)
      BY <3>1, <3>2
    <3>4. AddedOnce'
      BY <3>2, <3>3 DEF Once, AddedOnce
    <3>5. \A h \in Gets : Adding(h).op = "add"
      BY DEF Adding
    <3>6. FreshUntilAdded'
      BY <1>6, <3>2, <3>3, <3>5 DEF Once, FreshUntilAdded
    <3> QED BY <3>4, <3>6
  <2> QED BY <1>5, <2>1, <2>2
<1>8. FreshUntilCalled'
  BY <1>1, <1>6 DEF Once, Answering, FreshUntilCalled
<1>9. ErrorIsLast'
  <2>1. ASSUME NEW n \in 1..Len(events'[g]), events'[g][n].kind = "error"
        PROVE  n = Len(events'[g]) /\ NotListening(g)'
    BY <1>3, <1>4, <2>1 DEF Once, Answering, ErrorIsLast
  <2> QED BY <1>3, <1>4, <2>1 DEF Once, Answering, ErrorIsLast
<1>10. g \notin muted => answers[g] = << >>
  BY <1>1 DEF Once, Answering, AnsweredIsDone
<1>11. AnsweredOnce'
  <2>1. \A h \in Gets \ {g} : answers'[h] = answers[h]
    BY <1>0, <1>5
  <2>2. PICK q : q = Append(answers[g], a)
    OBVIOUS
  <2>3. answers'[g] = answers[g] \/ (g \notin muted /\ answers'[g] = q)
    <3>1. \/ answers' = answers
          \/ g \notin muted /\ answers' = [answers EXCEPT ![g] = q]
      BY <1>5, <2>2
    <3> QED BY <1>0, <3>1
  <2>4. answers[g] = << >> => Len(q) = 1
    <3>1. answers[g] = << >> => q = Append(<< >>, a)
      BY <2>2, Zenon
    <3>2. Len(Append(<< >>, a)) = 1
      OBVIOUS
    <3> QED BY <3>1, <3>2
  <2>5. Len(answers'[g]) <= 1
    <3>1. CASE answers'[g] = answers[g]
      BY <3>1 DEF Once, Answering, AnsweredOnce
    <3>2. CASE g \notin muted /\ answers'[g] = q
      <4>1. Len(answers'[g]) = 1
        BY <1>10, <2>4, <3>2
      <4> QED BY <4>1
    <3> QED BY <2>3, <3>1, <3>2
  <2> QED BY <2>1, <2>5 DEF Once, Answering, AnsweredOnce
<1>12. AnsweredIsDone'
  <2>1. \A h \in Gets \ {g} : answers'[h] = answers[h] /\ (h \in muted <=> h \in muted')
    BY <1>0, <1>5
  <2>2. ASSUME g \notin muted' PROVE events'[g] = << >> /\ NotListening(g)'
    <3>1. e.kind = "error"
      BY <1>5, <2>2
    <3>2. 1 = Len(events[g]) /\ NotListening(g)
      BY <1>2, <3>1 DEF Once, Answering, ErrorIsLast
    <3>3. Len(events'[g]) = 0 /\ events'[g] \in Seq(Event)
      <4>1. events'[g] \in Seq(Event)
        BY <1>0, <1>1, <1>3, HeadTypes
      <4> QED BY <1>3, <3>2, <4>1
    <3> QED BY <1>4, <3>2, <3>3
  <2> QED BY <1>3, <1>4, <2>1, <2>2 DEF Once, Answering, AnsweredIsDone
<1> QED BY <1>7, <1>8, <1>9, <1>11, <1>12 DEF Once, Answering

\* The worker adds a fresh listener.
LEMMA AddOnce ==
  ASSUME Types, Once, AddQueryListener
  PROVE  Once'
<1>0. /\ AppTypes /\ listeners \in [Docs -> SUBSET Gets] /\ cache \in [Docs -> Version]
      /\ tasks \in Seq(Task)
  BY DEF Types, AppTypes, Task
<1>1. tasks # << >> /\ tasks' = Tail(tasks) /\ UNCHANGED <<doc, muted, answers>>
      /\ Head(tasks).op = "add"
  BY DEF AddQueryListener, caller
<1>2. PICK g \in Gets : g = Head(tasks).get
  BY <1>1, TaskTypes
<1>3. PICK d \in Docs : d = doc[g]
  BY <1>1, <1>2, TaskTypes
<1>4. /\ Head(tasks) = tasks[1] /\ 1 \in 1..Len(tasks)
      /\ \A n \in 1..Len(tasks') : n + 1 \in 1..Len(tasks) /\ tasks'[n] = tasks[n + 1]
  BY <1>1, TaskTypes
<1>5. tasks[1] = Adding(g)
  <2>1. tasks[1] \in Task
    BY <1>0, <1>4
  <2>2. tasks[1] = [op |-> tasks[1].op, get |-> tasks[1].get]
    BY <2>1 DEF Task
  <2> QED BY <1>1, <1>2, <1>4, <2>2 DEF Adding
<1>6. Fresh(g)
  BY <1>4, <1>5 DEF Once, FreshUntilAdded
<1>7. \A n \in 1..Len(tasks') : tasks'[n] # Adding(g)
  <2>1. ASSUME NEW n \in 1..Len(tasks'), tasks'[n] = Adding(g) PROVE FALSE
    <3>1. n + 1 \in 1..Len(tasks) /\ tasks[n + 1] = Adding(g)
      BY <1>4, <2>1
    <3>2. 1 = n + 1
      BY <1>1, <1>4, <1>5, <3>1 DEF Once, AddedOnce
    <3> QED BY <3>2
  <2> QED BY <2>1
<1>8. listeners' = [listeners EXCEPT ![d] = @ \cup {g}]
  BY <1>2, <1>3 DEF AddQueryListener
<1>9. PICK b \in BOOLEAN : Raise({g}, cache, b) \/ Raise({}, cache, b)
  <2>1. PICK b \in BOOLEAN : b = (d \notin synced)
    OBVIOUS
  <2>2. Raise({g}, cache, d \notin synced) \/ Raise({}, cache, d \notin synced)
    BY <1>2, <1>3 DEF AddQueryListener
  <2> QED BY <2>1, <2>2, Zenon
<1>10. \A h \in Gets \ {g} : events'[h] = events[h] /\ (NotListening(h)' <=> NotListening(h))
  <2>1. \A h \in Gets \ {g} : events'[h] = events[h]
    BY <1>9 DEF Raise
  <2>2. \A h \in Gets \ {g} : NotListening(h)' <=> NotListening(h)
    BY <1>0, <1>8 DEF NotListening
  <2> QED BY <2>1, <2>2
<1>11. events'[g] = << >> \/ \E x : events'[g] = <<x>> /\ x.kind = "snapshot"
  <2>1. Found(cache[d], b).kind = "snapshot"
    BY DEF Found
  <2>2. events'[g] = events[g] \/ events'[g] = Append(events[g], Found(cache[d], b))
    BY <1>3, <1>9 DEF Raise
  <2>3. events[g] = << >>
    BY <1>6 DEF Fresh
  <2> QED BY <2>1, <2>2, <2>3
<1>12. \A h \in Gets \ {g} : Fresh(h) => Fresh(h)'
  BY <1>1, <1>10 DEF Fresh
<1>13. AddedOnce'
  <2>1. ASSUME NEW m \in 1..Len(tasks'), NEW n \in 1..Len(tasks'),
               tasks'[m].op = "add", tasks'[m] = tasks'[n]
        PROVE  m = n
    <3>1. m + 1 = n + 1
      BY <1>4, <2>1 DEF Once, AddedOnce
    <3> QED BY <3>1
  <2> QED BY <2>1 DEF AddedOnce
<1>14. FreshUntilAdded'
  BY <1>4, <1>7, <1>12 DEF Once, FreshUntilAdded
<1>15. FreshUntilCalled'
  BY <1>1, <1>3, <1>12, NothingAssumption DEF Once, Answering, FreshUntilCalled
<1>16. ErrorIsLast'
  <2>1. ASSUME NEW n \in 1..Len(events'[g]) PROVE events'[g][n].kind # "error"
    BY <1>11
  <2> QED BY <1>10, <2>1 DEF Once, Answering, ErrorIsLast
<1>17. AnsweredIsDone' /\ AnsweredOnce'
  BY <1>1, <1>6, <1>10 DEF Fresh, Once, Answering, AnsweredIsDone, AnsweredOnce
<1> QED BY <1>13, <1>14, <1>15, <1>16, <1>17 DEF Once, Answering

\* The worker removes a listener.
LEMMA RemoveOnce ==
  ASSUME Types, Once, RemoveQueryListener
  PROVE  Once'
<1>0. AppTypes /\ listeners \in [Docs -> SUBSET Gets]
  BY DEF Types, AppTypes
<1>1. tasks # << >> /\ tasks' = Tail(tasks) /\ UNCHANGED <<doc, muted, answers, events>>
  BY DEF RemoveQueryListener, caller
<1>2. PICK g \in Gets : g = Head(tasks).get
  BY <1>1, TaskTypes
<1>3. PICK d \in Docs : d = doc[g]
  BY <1>1, <1>2, TaskTypes
<1>4. listeners' = [listeners EXCEPT ![d] = @ \ {g}]
  BY <1>2, <1>3 DEF RemoveQueryListener
<1>5. Raises
  BY <1>0, <1>1, <1>4 DEF Raises
<1>6. Answering' /\ \A h \in Gets : Fresh(h) => Fresh(h)'
  BY <1>0, <1>1, <1>5, RaisesKeep
<1>7. \A n \in 1..Len(tasks') : n \in Int /\ n + 1 \in 1..Len(tasks) /\ tasks'[n] = tasks[n + 1]
  BY <1>1, TaskTypes
<1>8. AddedOnce'
  <2>1. ASSUME NEW m \in 1..Len(tasks'), NEW n \in 1..Len(tasks'),
               tasks'[m].op = "add", tasks'[m] = tasks'[n]
        PROVE  m = n
    <3>1. m + 1 = n + 1
      BY <1>7, <2>1 DEF Once, AddedOnce
    <3> QED BY <3>1
  <2> QED BY <2>1 DEF AddedOnce
<1>9. FreshUntilAdded'
  BY <1>6, <1>7 DEF Once, FreshUntilAdded
<1> QED BY <1>6, <1>8, <1>9 DEF Once

\* Every step keeps the answers in order.
LEMMA OnceNext ==
  ASSUME Types, Once, [Step]_app
  PROVE  Once'
<1>0. AppTypes
  BY DEF Types
<1>1. CASE \/ \E c \in stream.credentials : ResumeStartWithCredentials(c)
           \/ OnStreamStart \/ OnStreamFinish \/ BackoffElapsed \/ IdleTimeout
  <2>1. OnlyStream \/ \E s, b : CloseStream(s, b)
    BY <1>1 DEF ResumeStartWithCredentials, OnStreamStart, OnStreamFinish, BackoffElapsed,
                IdleTimeout
  <2>2. CASE OnlyStream
    <3>1. UNCHANGED <<doc, muted, answers, tasks, listeners, events>>
      BY <2>2 DEF OnlyStream, client, caller
    <3> QED BY <1>0, <3>1, NothingRaised
  <2> QED BY <2>1, <2>2, CloseOnce
<1>2. CASE OnlineStateTimeout
  <2>1. /\ HandleOnlineStateChange(tracker.online, "Offline")
        /\ UNCHANGED <<doc, muted, answers, tasks, listeners>>
    BY <1>2 DEF OnlineStateTimeout, caller
  <2>2. Raises
    BY <2>1, OnlineRaises DEF Types
  <2> QED BY <1>0, <2>1, <2>2, SameTasks
<1>3. CASE \/ RestartNetwork \/ (\E d \in Docs : ServerChange(d)) \/ ServerAnswers
           \/ UNCHANGED app
  <2>1. UNCHANGED <<doc, muted, answers, tasks, listeners, events>>
    BY <1>3 DEF RestartNetwork, ServerChange, ServerAnswers, app, client, caller
  <2> QED BY <1>0, <2>1, NothingRaised
<1> QED BY <1>1, <1>2, <1>3, GetOnce, EventOnce, AddOnce, RemoveOnce, ChangeOnce DEF Step

\* The caller of a get is told one answer, although its listener may raise
\* several events before the worker removes it, may be told of an error after a
\* snapshot, and is removed by two executors: a snapshot mutes the listener before
\* the caller hears of it, and an error is the last event a listener ever raises.
THEOREM OneAnswer == Spec => []AnsweredOnce
<1>1. Types /\ Once /\ [Next]_vars => Types' /\ Once'
  BY StepOf, TypesNext, OnceNext
<1>2. Init => Types /\ Once
  <2>1. Init => Once
    BY DEF Init, Once, Answering, AddedOnce, FreshUntilAdded, FreshUntilCalled, Fresh,
           NotListening, ErrorIsLast, AnsweredIsDone, AnsweredOnce
  <2> QED BY <2>1, InitTypes
<1>3. Once => AnsweredOnce
  BY DEF Once, Answering
<1> QED BY <1>1, <1>2, <1>3, PTL DEF Spec

-----------------------------------------------------------------------------
(* Fresh answers *)

\* How many members of s are in S.
CountOf(s, S) == Cardinality({n \in 1..Len(s) : s[n] \in S})

\* Requests for the target of d, and the server's acknowledgements of them.
ReqsOf(d) == {r \in Request : r.doc = d}
AcksOf(d) == {m \in Change : m.doc = d /\ m.op # "current"}

\* Something for d is on the wire behind the n-th message of the server.
Behind(d, n) ==
  \/ \E m \in 1..Len(resp) : m > n /\ resp[m] \in AcksOf(d)
  \/ \E m \in 1..Len(req) : req[m] \in ReqsOf(d)

\* Nothing is on the wire of a stream that is not open.
WireQuiet ==
  ~IsOpen(stream) => /\ req = << >> /\ resp = << >> /\ watched = {}
                     /\ \A d \in Docs : outstanding[d] = 0

\* Each acknowledgement awaited is on the wire.
Counted ==
  ~crossed => \A d \in Docs :
    outstanding[d] = CountOf(req, ReqsOf(d)) + CountOf(resp, AcksOf(d))

\* The last request for a target that is not listened to is the one to drop it.
Dropped ==
  ~crossed => \A d \in Docs \ targets :
    /\ \A n \in 1..Len(req) : req[n] \in ReqsOf(d) /\ req[n].op = "watch" =>
         \E m \in 1..Len(req) : m > n /\ req[m] \in ReqsOf(d)
    /\ \A n \in 1..Len(resp) : resp[n] \in AcksOf(d) /\ resp[n].op # "removed" => Behind(d, n)

\* A document sent before a get was called has an acknowledgement behind it.
StaleIsAwaited ==
  \A d \in Docs : \A g \in listeners[d] \ joined : \A n \in 1..Len(resp) :
    resp[n].op = "current" /\ resp[n].doc = d /\ resp[n].version < calledAt[g] => Behind(d, n)

Messages == WireQuiet /\ Counted /\ Dropped /\ StaleIsAwaited

\* Calls see what the server has, and only views of targets are in sync.
CalledBefore == \A g \in Gets : doc[g] \in Docs => calledAt[g] <= server[doc[g]]
SyncedIsTarget == synced \subseteq targets

\* What a listener or a caller is told.
IsFresh(e, g) == e.kind = "snapshot" /\ ~e.cached => e.version >= calledAt[g]
EventsFresh ==
  ~crossed => \A g \in Gets \ joined : \A n \in 1..Len(events[g]) : IsFresh(events[g][n], g)
AnswersFresh ==
  ~crossed => \A g \in Gets \ joined : \A n \in 1..Len(answers[g]) : IsFresh(answers[g][n], g)

Freshness == EventsFresh /\ AnswersFresh

\* A sequence has finitely many places.
LEMMA CountType ==
  ASSUME NEW T, NEW s \in Seq(T), NEW S
  PROVE  /\ IsFiniteSet({n \in 1..Len(s) : s[n] \in S}) /\ CountOf(s, S) \in Nat
         /\ CountOf(s, S) = 0 <=> \A n \in 1..Len(s) : s[n] \notin S
<1> DEFINE A == {n \in 1..Len(s) : s[n] \in S}
<1>1. IsFiniteSet(1..Len(s))
  BY FS_Interval
<1>2. A \subseteq 1..Len(s)
  OBVIOUS
<1>3. IsFiniteSet(A)
  BY <1>1, <1>2, FS_Subset
<1>4. CountOf(s, S) = Cardinality(A)
  BY DEF CountOf
<1>5. (A = {}) <=> \A n \in 1..Len(s) : s[n] \notin S
  OBVIOUS
<1> HIDE DEF A
<1>6. Cardinality(A) \in Nat /\ (Cardinality(A) = 0 <=> A = {})
  BY <1>3, FS_CardinalityType, FS_EmptySet
<1>7. IsFiniteSet(A) /\ CountOf(s, S) \in Nat /\ (CountOf(s, S) = 0 <=> A = {})
  BY <1>3, <1>4, <1>6
<1> QED BY <1>5, <1>7 DEF A

\* An empty sequence counts nothing.
LEMMA CountEmpty == \A S : CountOf(<< >>, S) = 0
<1> TAKE S
<1>1. {n \in 1..Len(<< >>) : << >>[n] \in S} = {}
  OBVIOUS
<1> QED BY <1>1, FS_EmptySet DEF CountOf

\* A sequence t that continues s with members of S at the place i only, or nowhere.
LEMMA CountGrows ==
  ASSUME NEW T, NEW s \in Seq(T), NEW t \in Seq(T), NEW S, Len(s) <= Len(t),
         \A n \in 1..Len(s) : t[n] = s[n]
  PROVE  /\ \A i \in (Len(s) + 1)..Len(t) :
              (\A n \in (Len(s) + 1)..Len(t) : t[n] \in S <=> n = i)
                => CountOf(t, S) = CountOf(s, S) + 1
         /\ (\A n \in (Len(s) + 1)..Len(t) : t[n] \notin S) => CountOf(t, S) = CountOf(s, S)
<1> DEFINE A == {n \in 1..Len(s) : s[n] \in S}
           B == {n \in 1..Len(t) : t[n] \in S}
<1>1. CountOf(s, S) = Cardinality(A) /\ CountOf(t, S) = Cardinality(B) /\ IsFiniteSet(A)
  BY CountType DEF CountOf
<1>2. Len(s) \in Nat /\ Len(t) \in Nat
  OBVIOUS
<1>3. ASSUME NEW i \in (Len(s) + 1)..Len(t),
             \A n \in (Len(s) + 1)..Len(t) : t[n] \in S <=> n = i
      PROVE  CountOf(t, S) = CountOf(s, S) + 1
  <2>1. B = A \cup {i} /\ i \notin A
    <3>1. \A n \in 1..Len(t) : n \in 1..Len(s) \/ n \in (Len(s) + 1)..Len(t)
      BY <1>2
    <3>2. \A n \in 1..Len(s) : n \in 1..Len(t)
      BY <1>2
    <3> QED BY <1>2, <1>3, <3>1, <3>2
  <2> HIDE DEF A, B
  <2> QED BY <1>1, <2>1, FS_AddElement
<1>4. ASSUME \A n \in (Len(s) + 1)..Len(t) : t[n] \notin S
      PROVE  CountOf(t, S) = CountOf(s, S)
  <2>1. B = A
    <3>1. \A n \in 1..Len(t) : n \in 1..Len(s) \/ n \in (Len(s) + 1)..Len(t)
      BY <1>2
    <3>2. \A n \in 1..Len(s) : n \in 1..Len(t)
      BY <1>2
    <3> QED BY <1>2, <1>4, <3>1, <3>2
  <2> QED BY <1>1, <2>1
<1> QED BY <1>3, <1>4

\* Appending counts the new member.
LEMMA CountAppend ==
  ASSUME NEW T, NEW s \in Seq(T), NEW x \in T, NEW S
  PROVE  /\ x \in S => CountOf(Append(s, x), S) = CountOf(s, S) + 1
         /\ x \notin S => CountOf(Append(s, x), S) = CountOf(s, S)
<1>0. Append(s, x) \in Seq(T)
  OBVIOUS
<1>1. PICK t \in Seq(T) : t = Append(s, x)
  BY <1>0
<1>2. /\ Len(t) = Len(s) + 1 /\ Len(s) \in Nat /\ t[Len(s) + 1] = x
      /\ \A n \in 1..Len(s) : t[n] = s[n]
  BY <1>1
<1>3. Len(s) <= Len(t) /\ (Len(s) + 1)..Len(t) = {Len(s) + 1}
  BY <1>2
<1>4. x \in S => CountOf(t, S) = CountOf(s, S) + 1
  BY <1>2, <1>3, CountGrows
<1>5. x \notin S => CountOf(t, S) = CountOf(s, S)
  BY <1>2, <1>3, CountGrows
<1> QED BY <1>1, <1>4, <1>5

\* Taking the first member off uncounts it.
LEMMA CountTail ==
  ASSUME NEW T, NEW s \in Seq(T), s # << >>, NEW S
  PROVE  /\ Head(s) \in S => CountOf(s, S) = CountOf(Tail(s), S) + 1
         /\ Head(s) \notin S => CountOf(s, S) = CountOf(Tail(s), S)
<1>0. Tail(s) \in Seq(T)
  OBVIOUS
<1>1. PICK t \in Seq(T) : t = Tail(s)
  BY <1>0
<1>2. /\ Len(t) + 1 = Len(s) /\ Len(t) \in Nat /\ Head(s) = s[1]
      /\ \A n \in 1..Len(t) : t[n] = s[n + 1]
  BY <1>1
<1> DEFINE A == {n \in 1..Len(s) : s[n] \in S}
           B == {n \in 1..Len(t) : t[n] \in S}
           C == A \ {1}
           f == [n \in B |-> n + 1]
<1>3. CountOf(s, S) = Cardinality(A) /\ CountOf(t, S) = Cardinality(B)
      /\ IsFiniteSet(A) /\ IsFiniteSet(B)
  BY CountType DEF CountOf
<1>4. \A n \in C : n - 1 \in B /\ n = (n - 1) + 1
  BY <1>2
<1>5. \A n \in B : n + 1 \in C /\ n \in Int
  BY <1>2
<1>6. f \in Bijection(B, C)
  <2>1. f \in [B -> C]
    BY <1>5
  <2>2. \A m, n \in B : f[m] = f[n] => m = n
    BY <1>5
  <2>3. \A n \in C : \E m \in B : f[m] = n
    BY <1>4
  <2> HIDE DEF f, B, C
  <2> QED BY <2>1, <2>2, <2>3 DEF Bijection, Injection, Surjection, IsInjective
<1>7. Cardinality(C) = Cardinality(B)
  <2> HIDE DEF f, B, C
  <2> QED BY <1>3, <1>6, FS_Bijection DEF ExistsBijection
<1>8. Head(s) \in S <=> 1 \in A
  BY <1>2
<1>9. Cardinality(A) \in Nat
  <2> HIDE DEF A
  <2> QED BY <1>3, FS_CardinalityType
<1>10. 1 \in A => Cardinality(C) = Cardinality(A) - 1
  <2> HIDE DEF A
  <2> QED BY <1>3, FS_RemoveElement
<1>11. 1 \notin A => C = A
  OBVIOUS
<1>12. CountOf(t, S) = Cardinality(C)
  BY <1>3, <1>7
<1> HIDE DEF A, C
<1>13. /\ 1 \in A => CountOf(s, S) = CountOf(t, S) + 1
       /\ 1 \notin A => CountOf(s, S) = CountOf(t, S)
  BY <1>3, <1>9, <1>10, <1>11, <1>12
<1> QED BY <1>1, <1>8, <1>13

\* What the members of the two sets are.
LEMMA MessageSets ==
  ASSUME NEW d
  PROVE  /\ \A r \in Request : r \in ReqsOf(d) <=> r.doc = d
         /\ \A m \in Change : m \in AcksOf(d) <=> m.doc = d /\ m.op # "current"
         /\ ReqsOf(d) \subseteq Request /\ AcksOf(d) \subseteq Change
         /\ \A r \in ReqsOf(d) : r.doc = d
         /\ \A m \in AcksOf(d) : m.doc = d /\ m.op # "current"
BY DEF ReqsOf, AcksOf

\* Nothing on the wire.
LEMMA EmptyWire ==
  ASSUME req' = << >>, resp' = << >>, watched' = {}, \A d \in Docs : outstanding'[d] = 0
  PROVE  Messages'
<1>1. WireQuiet'
  BY DEF WireQuiet
<1>2. Counted'
  BY CountEmpty DEF Counted
<1>3. Dropped' /\ StaleIsAwaited'
  BY DEF Dropped, StaleIsAwaited
<1> QED BY <1>1, <1>2, <1>3 DEF Messages

\* A step that leaves the wire alone and adds no one who waits.
LEMMA SameWire ==
  ASSUME Messages, UNCHANGED <<req, resp, watched, outstanding, crossed, targets>>,
         IsOpen(stream) => IsOpen(stream'),
         \A d \in Docs : \A g \in listeners'[d] \ joined' :
           g \in listeners[d] \ joined /\ calledAt'[g] = calledAt[g]
  PROVE  Messages'
<1>1. WireQuiet'
  BY DEF Messages, WireQuiet, IsOpen
<1>2. Counted'
  BY DEF Messages, Counted
<1>3. \A d \in Docs : \A n \in 1..Len(resp) : Behind(d, n)' <=> Behind(d, n)
  BY DEF Behind
<1>4. Dropped'
  BY <1>3 DEF Messages, Dropped
<1>5. StaleIsAwaited'
  BY <1>3 DEF Messages, StaleIsAwaited
<1> QED BY <1>1, <1>2, <1>4, <1>5 DEF Messages

\* A request is sent, for a target that is added or dropped with it.
LEMMA SentWire ==
  ASSUME AppTypes, Messages, NEW op \in {"watch", "unwatch"}, NEW d \in Docs, NEW s,
         Send(op, d, s), IsOpen(s), UNCHANGED <<resp, watched, crossed>>,
         IF op = "watch" THEN targets' = targets \cup {d} ELSE targets' = targets \ {d},
         \A e \in Docs \ {d} : \A g \in listeners'[e] \ joined' :
           g \in listeners[e] \ joined /\ calledAt'[g] = calledAt[g]
  PROVE  Messages'
<1>0. req \in Seq(Request) /\ outstanding \in [Docs -> Int] /\ resp \in Seq(Change)
  BY DEF AppTypes
<1>1. PICK r \in Request : r = [op |-> op, doc |-> d]
  <2>1. [op |-> op, doc |-> d] \in Request
    BY DEF Request
  <2> QED BY <2>1
<1>11. r.op = op /\ r.doc = d
  BY <1>1
<1>2. /\ req' = Append(req, r) /\ outstanding' = [outstanding EXCEPT ![d] = @ + 1] /\ stream' = s
  BY <1>1 DEF Send
<1>3. /\ Len(req') = Len(req) + 1 /\ Len(req) \in Nat /\ req'[Len(req) + 1] = r
      /\ \A n \in 1..Len(req) : req'[n] = req[n] /\ req[n] \in Request /\ n \in 1..Len(req')
      /\ Len(req) + 1 \in 1..Len(req')
  BY <1>0, <1>2
<1>4. r \in ReqsOf(d) /\ \A e \in Docs \ {d} : r \notin ReqsOf(e)
  BY <1>1, <1>11, MessageSets
<1>5. \A e \in Docs, n \in 1..Len(resp) : Behind(e, n) => Behind(e, n)'
  BY <1>3 DEF Behind
<1>6. \A n \in 1..Len(resp) : Behind(d, n)'
  BY <1>3, <1>4 DEF Behind
<1>7. WireQuiet'
  BY <1>2 DEF WireQuiet, IsOpen
<1>8. Counted'
  <2>1. ASSUME NEW e \in Docs, ~crossed
        PROVE  outstanding'[e] = CountOf(req', ReqsOf(e)) + CountOf(resp', AcksOf(e))
    <3>1. /\ outstanding[e] = CountOf(req, ReqsOf(e)) + CountOf(resp, AcksOf(e))
          /\ CountOf(req, ReqsOf(e)) \in Nat /\ CountOf(resp, AcksOf(e)) \in Nat
      BY <1>0, <2>1, CountType DEF Messages, Counted
    <3>2. CASE e = d
      <4>1. CountOf(req', ReqsOf(e)) = CountOf(req, ReqsOf(e)) + 1
        BY <1>0, <1>2, <1>4, <3>2, CountAppend
      <4>2. outstanding'[e] = outstanding[e] + 1
        BY <1>0, <1>2, <3>2
      <4> QED BY <3>1, <4>1, <4>2
    <3>3. CASE e # d
      <4>1. CountOf(req', ReqsOf(e)) = CountOf(req, ReqsOf(e))
        BY <1>0, <1>2, <1>4, <3>3, CountAppend
      <4>2. outstanding'[e] = outstanding[e]
        BY <1>0, <1>2, <3>3
      <4> QED BY <3>1, <4>1, <4>2
    <3> QED BY <3>2, <3>3
  <2> QED BY <2>1 DEF Counted
<1>9. Dropped'
  <2>1. ASSUME NEW e \in Docs \ targets', ~crossed
        PROVE  /\ \A n \in 1..Len(req') : req'[n] \in ReqsOf(e) /\ req'[n].op = "watch" =>
                    \E m \in 1..Len(req') : m > n /\ req'[m] \in ReqsOf(e)
               /\ \A n \in 1..Len(resp') : resp'[n] \in AcksOf(e) /\ resp'[n].op # "removed" =>
                    Behind(e, n)'
    <3>1. CASE e = d
      <4>1. r.op = "unwatch"
        BY <1>11, <2>1, <3>1
      <4>2. \A n \in 1..Len(req') : n = Len(req) + 1 \/ Len(req) + 1 > n
        BY <1>3
      <4> QED BY <1>3, <1>4, <1>6, <3>1, <4>1, <4>2
    <3>2. CASE e # d
      <4>1. e \notin targets
        BY <2>1, <3>2
      <4>2. \A n \in 1..Len(req') : n \in 1..Len(req) \/ n = Len(req) + 1
        BY <1>3
      <4>3. \A n \in 1..Len(req) : req[n] \in ReqsOf(e) /\ req[n].op = "watch" =>
              \E m \in 1..Len(req) : m > n /\ req[m] \in ReqsOf(e)
        BY <2>1, <4>1 DEF Messages, Dropped
      <4>4. \A n \in 1..Len(req') : req'[n] \in ReqsOf(e) /\ req'[n].op = "watch" =>
              \E m \in 1..Len(req') : m > n /\ req'[m] \in ReqsOf(e)
        BY <1>3, <1>4, <3>2, <4>2, <4>3
      <4>5. \A n \in 1..Len(resp) : resp[n] \in AcksOf(e) /\ resp[n].op # "removed" => Behind(e, n)
        BY <2>1, <4>1 DEF Messages, Dropped
      <4> QED BY <1>5, <4>4, <4>5
    <3> QED BY <3>1, <3>2
  <2> QED BY <2>1 DEF Dropped
<1>10. StaleIsAwaited'
  BY <1>5, <1>6 DEF Messages, StaleIsAwaited
<1> QED BY <1>7, <1>8, <1>9, <1>10 DEF Messages

\* The order in which the targets are sent has each of them once.
LEMMA SetToSeqOnce ==
  ASSUME NEW S, IsFiniteSet(S)
  PROVE  \A x \in S : \E i \in 1..Len(SetToSeq(S)) :
           \A n \in 1..Len(SetToSeq(S)) : SetToSeq(S)[n] = x <=> n = i
<1>1. Cardinality(S) \in Nat /\ ExistsBijection(1..Cardinality(S), S)
  BY FS_CardinalityType
<1>2. \E f \in [1..Cardinality(S) -> S] : IsInjective(f)
  BY <1>1 DEF ExistsBijection, Bijection, Injection
<1>3. SetToSeq(S) \in [1..Cardinality(S) -> S] /\ IsInjective(SetToSeq(S))
  BY <1>2 DEF SetToSeq
<1>4. PICK order : order = SetToSeq(S)
  OBVIOUS
<1>5. order \in Injection(1..Cardinality(S), S)
  BY <1>3, <1>4 DEF Injection
<1>6. IsFiniteSet(1..Cardinality(S)) /\ Cardinality(1..Cardinality(S)) = Cardinality(S)
  <2>1. IsFiniteSet(1..Cardinality(S))
    BY <1>1, FS_Interval
  <2>2. Cardinality(1..Cardinality(S)) = Cardinality(S)
    BY <1>1, FS_Interval
  <2> QED BY <2>1, <2>2
<1>7. order \in Surjection(1..Cardinality(S), S)
  BY <1>5, <1>6, FS_Injection
<1>8. \A x \in S : \E i \in 1..Cardinality(S) : order[i] = x
  BY <1>7 DEF Surjection
<1>9. \A a, b \in 1..Cardinality(S) : order[a] = order[b] => a = b
  BY <1>3, <1>4 DEF IsInjective
<1>10. Len(order) = Cardinality(S)
  BY <1>1, <1>3, <1>4
<1> QED BY <1>4, <1>8, <1>9, <1>10

\* When the stream opens, one request is sent for each target.
LEMMA StartWire ==
  ASSUME Types, Messages, OnStreamStart
  PROVE  Messages'
<1>0. /\ stream \in Stream /\ outstanding \in [Docs -> Int] /\ targets \subseteq Docs
      /\ IsFiniteSet(targets)
  BY DEF Types, AppTypes, Stream
<1>1. /\ ~IsOpen(stream) /\ stream' = [stream EXCEPT !.state = "Open"]
      /\ outstanding' = [d \in Docs |-> IF d \in targets THEN outstanding[d] + 1
                                        ELSE outstanding[d]]
      /\ UNCHANGED <<targets, resp, crossed>>
  BY DEF OnStreamStart, OnlyStream, history
<1>2. resp = << >> /\ \A d \in Docs : outstanding[d] = 0
  BY <1>1 DEF Messages, WireQuiet
<1>3. PICK order \in Seq(targets) : order = SetToSeq(targets)
  BY <1>0, SetToSeqType
<1>4. req' = [n \in 1..Len(order) |-> [op |-> "watch", doc |-> order[n]]]
  BY <1>3 DEF OnStreamStart
<1>5. \A x \in targets : \E i \in 1..Len(order) : \A n \in 1..Len(order) : order[n] = x <=> n = i
  <2>1. \A x \in targets : \E i \in 1..Len(SetToSeq(targets)) :
          \A n \in 1..Len(SetToSeq(targets)) : SetToSeq(targets)[n] = x <=> n = i
    BY <1>0, SetToSeqOnce
  <2> QED BY <1>3, <2>1
<1>6. Len(order) \in Nat /\ \A n \in 1..Len(order) : order[n] \in targets
  OBVIOUS
<1>7. \A n \in 1..Len(order) : [op |-> "watch", doc |-> order[n]] \in Request
  BY <1>0, <1>6 DEF Request
<1>8. /\ req' \in Seq(Request) /\ Len(req') = Len(order)
      /\ \A n \in 1..Len(order) : req'[n] \in Request /\ req'[n].doc = order[n]
  <2>1. req' \in Seq(Request) /\ Len(req') = Len(order)
    BY <1>4, <1>6, <1>7
  <2>2. \A n \in 1..Len(order) : req'[n] = [op |-> "watch", doc |-> order[n]]
    BY <1>4
  <2>3. ASSUME NEW n \in 1..Len(order) PROVE req'[n] \in Request /\ req'[n].doc = order[n]
    <3>1. PICK r \in Request : r = [op |-> "watch", doc |-> order[n]]
      BY <1>7
    <3>2. r.doc = order[n]
      BY <3>1
    <3> QED BY <2>2, <3>1, <3>2
  <2> QED BY <2>1, <2>3
<1>9. \A d \in Docs : \A n \in 1..Len(order) : req'[n] \in ReqsOf(d) <=> order[n] = d
  BY <1>8, MessageSets
<1>10. WireQuiet'
  BY <1>0, <1>1 DEF WireQuiet, IsOpen, Stream
<1>11. Counted'
  <2>1. ASSUME NEW d \in Docs
        PROVE  outstanding'[d] = CountOf(req', ReqsOf(d)) + CountOf(resp', AcksOf(d))
    <3>1. CountOf(resp', AcksOf(d)) = 0
      BY <1>1, <1>2, CountEmpty
    <3>2. PICK t \in Seq(Request) : t = req'
      BY <1>8
    <3>3. PICK s \in Seq(Request) : s = << >>
      <4>1. << >> \in Seq(Request)
        OBVIOUS
      <4> QED BY <4>1
    <3>4. CountOf(s, ReqsOf(d)) = 0 /\ Len(s) = 0 /\ (Len(s) + 1)..Len(t) = 1..Len(order)
      BY <1>8, <3>2, <3>3, CountEmpty
    <3>5. \A n \in 1..Len(s) : t[n] = s[n]
      BY <3>4
    <3>6. \A n \in 1..Len(order) : t[n] \in ReqsOf(d) <=> order[n] = d
      BY <1>9, <3>2
    <3>60. Len(s) <= Len(t)
      BY <3>4
    <3>7. CASE d \in targets
      <4>1. PICK i \in 1..Len(order) : \A n \in 1..Len(order) : order[n] = d <=> n = i
        BY <1>5, <3>7
      <4>2. i \in (Len(s) + 1)..Len(t)
            /\ \A n \in (Len(s) + 1)..Len(t) : t[n] \in ReqsOf(d) <=> n = i
        BY <3>4, <3>6, <4>1
      <4>3. CountOf(t, ReqsOf(d)) = CountOf(s, ReqsOf(d)) + 1
        BY <3>5, <3>60, <4>2, CountGrows
      <4>4. outstanding'[d] = 1
        BY <1>1, <1>2, <3>7
      <4> QED BY <3>1, <3>2, <3>4, <4>3, <4>4
    <3>8. CASE d \notin targets
      <4>1. \A n \in (Len(s) + 1)..Len(t) : t[n] \notin ReqsOf(d)
        BY <1>6, <3>4, <3>6, <3>8
      <4>2. CountOf(t, ReqsOf(d)) = CountOf(s, ReqsOf(d))
        BY <3>5, <3>60, <4>1, CountGrows
      <4>3. outstanding'[d] = 0
        BY <1>1, <1>2, <3>8
      <4> QED BY <3>1, <3>2, <3>4, <4>2, <4>3
    <3> QED BY <3>7, <3>8
  <2> QED BY <2>1 DEF Counted
<1>12. Dropped'
  <2>1. \A d \in Docs \ targets : \A n \in 1..Len(req') : req'[n] \notin ReqsOf(d)
    BY <1>6, <1>8, <1>9
  <2> QED BY <1>1, <1>2, <2>1 DEF Dropped
<1>13. StaleIsAwaited'
  BY <1>1, <1>2 DEF StaleIsAwaited
<1> QED BY <1>10, <1>11, <1>12, <1>13 DEF Messages

\* A change that the server sends is newer than any call.
LEMMA ChangeWire ==
  ASSUME Types, Messages, CalledBefore, NEW d \in Docs, ServerChange(d)
  PROVE  Messages'
<1>0. /\ resp \in Seq(Change) /\ server \in [Docs -> Version] /\ calledAt \in [Gets -> Version]
      /\ listeners \in [Docs -> SUBSET Gets]
  BY DEF Types, AppTypes
<1>1. /\ server' = [server EXCEPT ![d] = @ + 1] /\ server[d] < MaxVersion
      /\ UNCHANGED <<stream, targets, outstanding, req, watched, crossed, listeners, joined, calledAt>>
  BY DEF ServerChange, history, client, caller
<1>2. CASE d \notin watched
  <2>1. resp' = resp
    BY <1>2 DEF ServerChange
  <2> QED BY <1>1, <2>1, SameWire
<1>3. CASE d \in watched
  <2>1. server[d] + 1 \in Version /\ server'[d] = server[d] + 1
    <3>1. server'[d] = server[d] + 1
      BY <1>0, <1>1
    <3>2. server[d] + 1 \in Version
      BY <1>0, <1>1, BoundsAssumption DEF Version
    <3> QED BY <3>1, <3>2
  <2>2. [op |-> "current", doc |-> d, version |-> server'[d]] \in Change
    BY <2>1 DEF Change
  <2>3. PICK c \in Change : c = [op |-> "current", doc |-> d, version |-> server'[d]]
    BY <2>2
  <2>4. resp' = Append(resp, c) /\ c.op = "current" /\ c.doc = d /\ c.version = server[d] + 1
    BY <1>3, <2>1, <2>3 DEF ServerChange
  <2>5. /\ Len(resp) \in Nat /\ Len(resp') = Len(resp) + 1 /\ resp'[Len(resp) + 1] = c
        /\ \A n \in 1..Len(resp) : resp'[n] = resp[n] /\ n \in 1..Len(resp')
        /\ \A n \in 1..Len(resp') : n \in 1..Len(resp) \/ n = Len(resp) + 1
    BY <1>0, <2>4
  <2>6. \A e \in Docs : c \notin AcksOf(e)
    BY <2>4, MessageSets
  <2>7. \A e \in Docs, n \in 1..Len(resp) : Behind(e, n) => Behind(e, n)'
    BY <1>1, <2>5 DEF Behind
  <2>8. WireQuiet'
    BY <1>1, <1>3 DEF Messages, WireQuiet, IsOpen
  <2>9. Counted'
    <3>1. \A e \in Docs : CountOf(resp', AcksOf(e)) = CountOf(resp, AcksOf(e))
      BY <1>0, <2>4, <2>6, CountAppend
    <3> QED BY <1>1, <3>1 DEF Messages, Counted
  <2>10. Dropped'
    BY <1>1, <2>5, <2>6, <2>7 DEF Messages, Dropped
  <2>11. StaleIsAwaited'
    <3>1. ASSUME NEW e \in Docs, NEW g \in listeners'[e] \ joined', NEW n \in 1..Len(resp'),
                 resp'[n].op = "current", resp'[n].doc = e, resp'[n].version < calledAt'[g]
          PROVE  Behind(e, n)'
      <4>1. g \in listeners[e] \ joined /\ calledAt'[g] = calledAt[g] /\ g \in Gets
        BY <1>0, <1>1, <3>1
      <4>2. CASE n = Len(resp) + 1
        <5>1. e = d /\ server[d] + 1 < calledAt[g]
          BY <2>4, <2>5, <3>1, <4>1, <4>2
        <5>2. doc[g] = d
          BY <4>1, <5>1 DEF Types, ListenersCalled
        <5>3. calledAt[g] <= server[d]
          BY <4>1, <5>2 DEF CalledBefore
        <5>4. calledAt[g] \in Int /\ server[d] \in Int
          BY <1>0, <4>1 DEF Version
        <5> QED BY <5>1, <5>3, <5>4
      <4>3. CASE n \in 1..Len(resp)
        <5>1. Behind(e, n)
          BY <2>5, <3>1, <4>1, <4>3 DEF Messages, StaleIsAwaited
        <5> QED BY <2>7, <4>3, <5>1
      <4> QED BY <2>5, <4>2, <4>3
    <3> QED BY <3>1 DEF StaleIsAwaited
  <2> QED BY <2>8, <2>9, <2>10, <2>11 DEF Messages
<1> QED BY <1>2, <1>3

\* The answer a to the first request, with the document behind it or not.
LEMMA AnswerWire ==
  ASSUME Types, Messages, CalledBefore, IsOpen(stream), req # << >>, req' = Tail(req),
         NEW d \in Docs, d = Head(req).doc, NEW a \in Change, a.doc = d, a.op # "current",
         a.op = "removed" \/ Head(req).op = "watch",
         NEW c \in Change, c.doc = d, c.op = "current", c.version = server[d],
         resp' = Append(resp, a) \/ resp' = Append(Append(resp, a), c),
         UNCHANGED <<stream, targets, outstanding, crossed, listeners, joined, calledAt>>
  PROVE  Messages'
<1>0. /\ resp \in Seq(Change) /\ req \in Seq(Request) /\ listeners \in [Docs -> SUBSET Gets]
      /\ server \in [Docs -> Version] /\ calledAt \in [Gets -> Version]
  BY DEF Types, AppTypes
<1>1. PICK q \in Seq(Change) : q = Append(resp, a)
  <2>1. Append(resp, a) \in Seq(Change)
    BY <1>0
  <2> QED BY <2>1
<1>2. resp' = q \/ resp' = Append(q, c)
  BY <1>1
<1>3. /\ Len(resp) \in Nat /\ Len(q) = Len(resp) + 1 /\ q[Len(resp) + 1] = a
      /\ \A n \in 1..Len(resp) : q[n] = resp[n]
  BY <1>0, <1>1
<1>4. /\ Len(resp') \in Nat /\ Len(resp') >= Len(q)
      /\ \A n \in 1..Len(q) : resp'[n] = q[n]
      /\ \A n \in (Len(q) + 1)..Len(resp') : resp'[n] = c
  <2>1. CASE resp' = q
    BY <2>1
  <2>2. CASE resp' = Append(q, c)
    BY <2>2
  <2> QED BY <1>2, <2>1, <2>2
<1>5. /\ \A n \in 1..Len(resp) : resp'[n] = resp[n] /\ n \in 1..Len(resp') /\ Len(resp) + 1 > n
      /\ Len(resp) + 1 \in 1..Len(resp') /\ resp'[Len(resp) + 1] = a
      /\ \A n \in 1..Len(resp') : n \in 1..Len(resp) \/ n = Len(resp) + 1 \/ resp'[n] = c
  <2>1. \A n \in 1..Len(resp) : n \in 1..Len(q) /\ n \in 1..Len(resp') /\ Len(resp) + 1 > n
    BY <1>3, <1>4
  <2>2. Len(resp) + 1 \in 1..Len(resp') /\ Len(resp) + 1 \in 1..Len(q)
    BY <1>3, <1>4
  <2>3. \A n \in 1..Len(resp') : n \in 1..Len(resp) \/ n = Len(resp) + 1
                                 \/ n \in (Len(q) + 1)..Len(resp')
    BY <1>3, <1>4
  <2> QED BY <1>3, <1>4, <2>1, <2>2, <2>3
<1>6. /\ a \in AcksOf(d) /\ \A e \in Docs : c \notin AcksOf(e)
      /\ \A e \in Docs \ {d} : a \notin AcksOf(e)
  BY MessageSets
<1>7. PICK t \in Seq(Request) : t = Tail(req)
  <2>1. Tail(req) \in Seq(Request)
    BY <1>0
  <2> QED BY <2>1
<1>8. /\ Len(req) = Len(t) + 1 /\ Len(t) \in Nat /\ req' = t
      /\ \A n \in 1..Len(t) : t[n] = req[n + 1] /\ n + 1 \in 1..Len(req)
      /\ \A n \in 1..Len(req) : n = 1 \/ (n - 1 \in 1..Len(t) /\ t[n - 1] = req[n])
  BY <1>0, <1>7
<1>9. /\ Head(req) = req[1] /\ Head(req) \in Request
      /\ Head(req) \in ReqsOf(d) /\ \A e \in Docs \ {d} : Head(req) \notin ReqsOf(e)
  <2>1. Head(req) = req[1] /\ Head(req) \in Request
    BY <1>0
  <2> QED BY <2>1, MessageSets
<1>10. \A e \in Docs, n \in 1..Len(resp) : Behind(e, n) => Behind(e, n)'
  <2>1. ASSUME NEW e \in Docs, NEW n \in 1..Len(resp), Behind(e, n) PROVE Behind(e, n)'
    <3>1. CASE \E m \in 1..Len(resp) : m > n /\ resp[m] \in AcksOf(e)
      BY <1>5, <3>1 DEF Behind
    <3>2. CASE \E m \in 1..Len(req) : req[m] \in ReqsOf(e)
      <4>1. PICK m \in 1..Len(req) : req[m] \in ReqsOf(e)
        BY <3>2
      <4>2. CASE m = 1
        <5>1. e = d
          BY <1>9, <4>1, <4>2
        <5> QED BY <1>5, <1>6, <5>1 DEF Behind
      <4>3. CASE m # 1
        BY <1>8, <4>1, <4>3 DEF Behind
      <4> QED BY <4>2, <4>3
    <3> QED BY <2>1, <3>1, <3>2 DEF Behind
  <2> QED BY <2>1
<1>11. WireQuiet'
  BY DEF WireQuiet, IsOpen
<1>12. Counted'
  <2>1. ASSUME NEW e \in Docs, ~crossed
        PROVE  outstanding'[e] = CountOf(req', ReqsOf(e)) + CountOf(resp', AcksOf(e))
    <3>1. /\ outstanding[e] = CountOf(req, ReqsOf(e)) + CountOf(resp, AcksOf(e))
          /\ CountOf(t, ReqsOf(e)) \in Nat /\ CountOf(resp, AcksOf(e)) \in Nat
      BY <1>0, <2>1, CountType DEF Messages, Counted
    <3>2. CountOf(Append(q, c), AcksOf(e)) = CountOf(q, AcksOf(e))
      BY <1>6, CountAppend
    <3>3. CountOf(resp', AcksOf(e)) = CountOf(q, AcksOf(e))
          /\ CountOf(req', ReqsOf(e)) = CountOf(t, ReqsOf(e)) /\ outstanding'[e] = outstanding[e]
      BY <1>2, <1>7, <3>2
    <3>4. CASE e = d
      <4>1. CountOf(q, AcksOf(e)) = CountOf(resp, AcksOf(e)) + 1
        BY <1>0, <1>1, <1>6, <3>4, CountAppend
      <4>2. CountOf(req, ReqsOf(e)) = CountOf(t, ReqsOf(e)) + 1
        BY <1>0, <1>7, <1>9, <3>4, CountTail
      <4> QED BY <3>1, <3>3, <4>1, <4>2
    <3>5. CASE e # d
      <4>1. CountOf(q, AcksOf(e)) = CountOf(resp, AcksOf(e))
        BY <1>0, <1>1, <1>6, <3>5, CountAppend
      <4>2. CountOf(req, ReqsOf(e)) = CountOf(t, ReqsOf(e))
        BY <1>0, <1>7, <1>9, <3>5, CountTail
      <4> QED BY <3>1, <3>3, <4>1, <4>2
    <3> QED BY <3>4, <3>5
  <2> QED BY <2>1 DEF Counted
<1>13. Dropped'
  <2>1. ASSUME NEW e \in Docs \ targets, ~crossed
        PROVE  /\ \A n \in 1..Len(req') : req'[n] \in ReqsOf(e) /\ req'[n].op = "watch" =>
                    \E m \in 1..Len(req') : m > n /\ req'[m] \in ReqsOf(e)
               /\ \A n \in 1..Len(resp') : resp'[n] \in AcksOf(e) /\ resp'[n].op # "removed" =>
                    Behind(e, n)'
    <3>1. \A n \in 1..Len(req) : req[n] \in ReqsOf(e) /\ req[n].op = "watch" =>
            \E m \in 1..Len(t) : m + 1 > n /\ t[m] \in ReqsOf(e)
      <4>1. ASSUME NEW n \in 1..Len(req), req[n] \in ReqsOf(e), req[n].op = "watch"
            PROVE  \E m \in 1..Len(t) : m + 1 > n /\ t[m] \in ReqsOf(e)
        <5>1. PICK m \in 1..Len(req) : m > n /\ req[m] \in ReqsOf(e)
          BY <2>1, <4>1 DEF Messages, Dropped
        <5>2. m # 1 /\ (m - 1) + 1 > n
          BY <1>8, <5>1
        <5> QED BY <1>8, <5>1, <5>2
      <4> QED BY <4>1
    <3>2. \A n \in 1..Len(req') : req'[n] \in ReqsOf(e) /\ req'[n].op = "watch" =>
            \E m \in 1..Len(req') : m > n /\ req'[m] \in ReqsOf(e)
      <4>1. ASSUME NEW n \in 1..Len(t), t[n] \in ReqsOf(e), t[n].op = "watch"
            PROVE  \E m \in 1..Len(t) : m > n /\ t[m] \in ReqsOf(e)
        <5>1. PICK m \in 1..Len(t) : m + 1 > n + 1 /\ t[m] \in ReqsOf(e)
          BY <1>8, <3>1, <4>1
        <5> QED BY <1>8, <5>1
      <4> QED BY <1>8, <4>1
    <3>3. ASSUME NEW n \in 1..Len(resp'), resp'[n] \in AcksOf(e), resp'[n].op # "removed"
          PROVE  Behind(e, n)'
      <4>1. CASE n \in 1..Len(resp)
        <5>1. Behind(e, n)
          BY <1>5, <2>1, <3>3, <4>1 DEF Messages, Dropped
        <5> QED BY <1>10, <4>1, <5>1
      <4>2. CASE n = Len(resp) + 1
        <5>1. e = d /\ Head(req).op = "watch"
          BY <1>5, <1>6, <3>3, <4>2
        <5>2. 1 \in 1..Len(req) /\ req[1] \in ReqsOf(e) /\ req[1].op = "watch"
          BY <1>8, <1>9, <5>1
        <5>3. PICK m \in 1..Len(t) : t[m] \in ReqsOf(e)
          BY <3>1, <5>2
        <5> QED BY <1>8, <5>3 DEF Behind
      <4> QED BY <1>5, <1>6, <3>3, <4>1, <4>2
    <3> QED BY <3>2, <3>3
  <2> QED BY <2>1 DEF Dropped
<1>14. StaleIsAwaited'
  <2>1. ASSUME NEW e \in Docs, NEW g \in listeners'[e] \ joined', NEW n \in 1..Len(resp'),
               resp'[n].op = "current", resp'[n].doc = e, resp'[n].version < calledAt'[g]
        PROVE  Behind(e, n)'
    <3>1. g \in listeners[e] \ joined /\ calledAt'[g] = calledAt[g] /\ g \in Gets
      BY <1>0, <2>1
    <3>2. CASE resp'[n] = c
      <4>1. e = d /\ server[d] < calledAt[g]
        BY <2>1, <3>1, <3>2
      <4>2. doc[g] = d
        BY <3>1, <4>1 DEF Types, ListenersCalled
      <4>3. calledAt[g] <= server[d]
        BY <3>1, <4>2 DEF CalledBefore
      <4>4. calledAt[g] \in Int /\ server[d] \in Int
        BY <1>0, <3>1 DEF Version
      <4> QED BY <4>1, <4>3, <4>4
    <3>3. CASE n \in 1..Len(resp)
      <4>1. Behind(e, n)
        BY <1>5, <2>1, <3>1, <3>3 DEF Messages, StaleIsAwaited
      <4> QED BY <1>10, <3>3, <4>1
    <3>4. n # Len(resp) + 1
      BY <1>5, <2>1
    <3> QED BY <1>5, <3>2, <3>3, <3>4
  <2> QED BY <2>1 DEF StaleIsAwaited
<1> QED BY <1>11, <1>12, <1>13, <1>14 DEF Messages

\* The server takes a request.
LEMMA AnswersWire ==
  ASSUME Types, Messages, CalledBefore, ServerAnswers
  PROVE  Messages'
<1>0. /\ server \in [Docs -> Version] /\ resp \in Seq(Change)
      /\ req # << >> /\ req' = Tail(req) /\ IsOpen(stream)
      /\ UNCHANGED <<stream, targets, outstanding, crossed, listeners, joined, calledAt>>
  BY DEF Types, AppTypes, ServerAnswers, client, caller, history
<1>1. PICK r \in Request : r = Head(req)
  BY <1>0, HeadTypes DEF Types
<1>2. PICK d \in Docs : d = r.doc
  BY DEF Request
<1>3. server[d] \in Version
  BY <1>0
<1>4. \A op \in {"added", "removed", "refused", "current"} :
        [op |-> op, doc |-> d, version |-> server[d]] \in Change
  BY <1>3 DEF Change
<1>5. PICK c \in Change : c = [op |-> "current", doc |-> d, version |-> server[d]]
  BY <1>4
<1>6. c.doc = d /\ c.op = "current" /\ c.version = server[d]
  BY <1>5
<1>7. \/ /\ r.op = "watch"
         /\ resp' = resp \o <<[op |-> "added", doc |-> d, version |-> server[d]], c>>
      \/ /\ r.op = "watch"
         /\ resp' = Append(resp, [op |-> "refused", doc |-> d, version |-> server[d]])
      \/ resp' = Append(resp, [op |-> "removed", doc |-> d, version |-> server[d]])
  BY <1>1, <1>2, <1>5 DEF ServerAnswers
<1>8. CASE r.op = "watch" /\ resp' = resp \o <<[op |-> "added", doc |-> d, version |-> server[d]], c>>
  <2>1. PICK a \in Change : a = [op |-> "added", doc |-> d, version |-> server[d]]
    BY <1>4
  <2>2. a.doc = d /\ a.op = "added"
    BY <2>1
  <2>3. resp \o <<a, c>> = Append(Append(resp, a), c)
    BY <1>0
  <2>4. resp' = Append(Append(resp, a), c)
    BY <1>8, <2>1, <2>3
  <2> QED BY <1>0, <1>1, <1>2, <1>6, <1>8, <2>2, <2>4, AnswerWire
<1>9. CASE r.op = "watch" /\ resp' = Append(resp, [op |-> "refused", doc |-> d, version |-> server[d]])
  <2>1. PICK a \in Change : a = [op |-> "refused", doc |-> d, version |-> server[d]]
    BY <1>4
  <2>2. a.doc = d /\ a.op = "refused" /\ resp' = Append(resp, a)
    BY <1>9, <2>1
  <2> QED BY <1>0, <1>1, <1>2, <1>6, <1>9, <2>2, AnswerWire
<1>10. CASE resp' = Append(resp, [op |-> "removed", doc |-> d, version |-> server[d]])
  <2>1. PICK a \in Change : a = [op |-> "removed", doc |-> d, version |-> server[d]]
    BY <1>4
  <2>2. a.doc = d /\ a.op = "removed" /\ resp' = Append(resp, a)
    BY <1>10, <2>1
  <2> QED BY <1>0, <1>1, <1>2, <1>6, <2>2, AnswerWire
<1> QED BY <1>7, <1>8, <1>9, <1>10

\* What it means that the first message of the server is taken off.
LEMMA Shifted ==
  ASSUME resp \in Seq(Change), resp # << >>, resp' = Tail(resp), UNCHANGED req
  PROVE  /\ \A n \in 1..Len(resp') : resp'[n] = resp[n + 1] /\ n + 1 \in 1..Len(resp)
         /\ \A d, n : n \in 1..Len(resp') /\ Behind(d, n + 1) => Behind(d, n)'
         /\ Head(resp) = resp[1] /\ 1 \in 1..Len(resp)
<1>1. PICK t \in Seq(Change) : t = resp'
  <2>1. Tail(resp) \in Seq(Change)
    OBVIOUS
  <2> QED BY <2>1
<1>2. /\ Len(resp) = Len(t) + 1 /\ Len(t) \in Nat /\ resp' = t
      /\ \A n \in 1..Len(t) : t[n] = resp[n + 1] /\ n + 1 \in 1..Len(resp)
      /\ \A n \in 1..Len(resp) : n = 1 \/ (n - 1 \in 1..Len(t) /\ t[n - 1] = resp[n])
  BY <1>1
<1>3. ASSUME NEW d, NEW n \in 1..Len(t), Behind(d, n + 1) PROVE Behind(d, n)'
  <2>1. CASE \E m \in 1..Len(resp) : m > n + 1 /\ resp[m] \in AcksOf(d)
    <3>1. PICK m \in 1..Len(resp) : m > n + 1 /\ resp[m] \in AcksOf(d)
      BY <2>1
    <3>2. m # 1 /\ m - 1 > n
      BY <1>2, <3>1
    <3>3. \E k \in 1..Len(t) : k > n /\ t[k] \in AcksOf(d)
      BY <1>2, <3>1, <3>2
    <3> QED BY <1>2, <3>3 DEF Behind
  <2>2. CASE \E m \in 1..Len(req) : req[m] \in ReqsOf(d)
    BY <2>2 DEF Behind
  <2> QED BY <1>3, <2>1, <2>2 DEF Behind
<1>4. Head(resp) = resp[1] /\ 1 \in 1..Len(resp)
  BY <1>2
<1> QED BY <1>2, <1>3, <1>4

\* Nothing is behind the only message awaited.
LEMMA NothingBehind ==
  ASSUME AppTypes, Counted, ~crossed, NEW d \in Docs, resp # << >>,
         IF Head(resp) \in AcksOf(d) THEN outstanding[d] = 1 ELSE outstanding[d] = 0
  PROVE  /\ ~Behind(d, 1)
         /\ \A n \in 1..Len(req) : req[n] \notin ReqsOf(d)
         /\ \A n \in 1..Len(resp) : n # 1 => resp[n] \notin AcksOf(d)
<1>0. resp \in Seq(Change) /\ req \in Seq(Request)
  BY DEF AppTypes
<1>1. PICK t \in Seq(Change) : t = Tail(resp)
  <2>1. Tail(resp) \in Seq(Change)
    BY <1>0
  <2> QED BY <2>1
<1>2. /\ outstanding[d] = CountOf(req, ReqsOf(d)) + CountOf(resp, AcksOf(d))
      /\ CountOf(req, ReqsOf(d)) \in Nat /\ CountOf(t, AcksOf(d)) \in Nat
  BY <1>0, CountType DEF Counted
<1>3. /\ Head(resp) \in AcksOf(d) => CountOf(resp, AcksOf(d)) = CountOf(t, AcksOf(d)) + 1
      /\ Head(resp) \notin AcksOf(d) => CountOf(resp, AcksOf(d)) = CountOf(t, AcksOf(d))
  BY <1>0, <1>1, CountTail
<1>4. CountOf(req, ReqsOf(d)) = 0 /\ CountOf(t, AcksOf(d)) = 0
  BY <1>2, <1>3
<1>5. \A n \in 1..Len(req) : req[n] \notin ReqsOf(d)
  BY <1>0, <1>4, CountType
<1>6. \A n \in 1..Len(t) : t[n] \notin AcksOf(d)
  BY <1>4, CountType
<1>7. \A n \in 1..Len(resp) : n # 1 => n - 1 \in 1..Len(t) /\ t[n - 1] = resp[n]
  BY <1>0, <1>1
<1>8. \A n \in 1..Len(resp) : n # 1 => resp[n] \notin AcksOf(d)
  BY <1>6, <1>7
<1>9. \A n \in 1..Len(resp) : n > 1 => n # 1
  BY <1>0
<1> QED BY <1>5, <1>8, <1>9 DEF Behind

\* The client takes a message.
LEMMA MessageWire ==
  ASSUME Types, AssertsHold, Messages, OnWatchStreamChange
  PROVE  Messages'
<1>0. /\ resp \in Seq(Change) /\ req \in Seq(Request) /\ outstanding \in [Docs -> Int]
      /\ crossed \in BOOLEAN /\ AppTypes /\ listeners \in [Docs -> SUBSET Gets]
      /\ resp # << >> /\ resp' = Tail(resp) /\ UNCHANGED <<req, stream, joined, calledAt>>
  BY DEF Types, AppTypes, OnWatchStreamChange, caller
<1>1. PICK m \in Change : m = Head(resp)
  BY <1>0, HeadTypes
<1>2. PICK d \in Docs : d = m.doc
  BY DEF Change
<1>3. /\ \A n \in 1..Len(resp') : resp'[n] = resp[n + 1] /\ n + 1 \in 1..Len(resp)
      /\ \A e, n : n \in 1..Len(resp') /\ Behind(e, n + 1) => Behind(e, n)'
      /\ m = resp[1] /\ 1 \in 1..Len(resp)
  BY <1>0, <1>1, Shifted
<1>4. \/ m.op = "refused" /\ ProcessTargetError(d)
      \/ m.op \in {"added", "removed"} /\ RecordTargetResponse(d)
      \/ m.op = "current" /\ ApplyRemoteEvent(d, m.version)
  BY <1>1, <1>2 DEF OnWatchStreamChange
<1>5. WireQuiet'
  <2>1. IsOpen(stream)
    BY <1>0 DEF Messages, WireQuiet
  <2> QED BY <1>0, <2>1 DEF WireQuiet, IsOpen
<1>6. StaleIsAwaited'
  <2>1. \A e \in Docs : listeners'[e] \subseteq listeners[e]
    BY <1>0, <1>4 DEF ProcessTargetError, RecordTargetResponse, ApplyRemoteEvent, client
  <2>2. \A e \in Docs : \A g \in listeners'[e] \ joined' :
          g \in listeners[e] \ joined /\ calledAt'[g] = calledAt[g]
    BY <1>0, <2>1
  <2>3. ASSUME NEW e \in Docs, NEW g \in listeners'[e] \ joined', NEW n \in 1..Len(resp'),
               resp'[n].op = "current", resp'[n].doc = e, resp'[n].version < calledAt'[g]
        PROVE  Behind(e, n)'
    <3>1. Behind(e, n + 1)
      BY <1>3, <2>2, <2>3 DEF Messages, StaleIsAwaited
    <3> QED BY <1>3, <3>1
  <2> QED BY <2>3 DEF StaleIsAwaited
<1>7. PICK t \in Seq(Change) : t = resp'
  <2>1. Tail(resp) \in Seq(Change)
    BY <1>0
  <2> QED BY <1>0, <2>1
<1>8. /\ m \in AcksOf(d) <=> m.op # "current"
      /\ \A e \in Docs \ {d} : m \notin AcksOf(e)
  BY <1>2, MessageSets
<1>9. \A e \in Docs : /\ CountOf(req, ReqsOf(e)) \in Nat /\ CountOf(t, AcksOf(e)) \in Nat
                      /\ m \in AcksOf(e) => CountOf(resp, AcksOf(e)) = CountOf(t, AcksOf(e)) + 1
                      /\ m \notin AcksOf(e) => CountOf(resp, AcksOf(e)) = CountOf(t, AcksOf(e))
  <2> TAKE e \in Docs
  <2>1. CountOf(req, ReqsOf(e)) \in Nat /\ CountOf(t, AcksOf(e)) \in Nat
    BY <1>0, CountType
  <2>2. /\ Head(resp) \in AcksOf(e) => CountOf(resp, AcksOf(e)) = CountOf(Tail(resp), AcksOf(e)) + 1
        /\ Head(resp) \notin AcksOf(e) => CountOf(resp, AcksOf(e)) = CountOf(Tail(resp), AcksOf(e))
    BY <1>0, CountTail
  <2>3. t = Tail(resp)
    BY <1>0, <1>7
  <2> QED BY <1>1, <2>1, <2>2, <2>3
<1>10. \A e \in Docs \ targets : ~crossed =>
         /\ \A n \in 1..Len(req') : req'[n] \in ReqsOf(e) /\ req'[n].op = "watch" =>
              \E k \in 1..Len(req') : k > n /\ req'[k] \in ReqsOf(e)
         /\ \A n \in 1..Len(resp') : resp'[n] \in AcksOf(e) /\ resp'[n].op # "removed" =>
              Behind(e, n)'
  BY <1>0, <1>3 DEF Messages, Dropped
<1>11. CASE m.op = "refused" /\ ProcessTargetError(d)
  <2>1. /\ targets' = targets \ {d} /\ crossed' = (crossed \/ outstanding[d] # 1)
        /\ d \in targets => outstanding' = [outstanding EXCEPT ![d] = 0]
    BY <1>11 DEF ProcessTargetError
  <2>2. CASE crossed'
    <3>1. Counted' /\ Dropped'
      BY <2>2 DEF Counted, Dropped
    <3> QED BY <1>5, <1>6, <3>1 DEF Messages
  <2>3. CASE ~crossed'
    <3>1. ~crossed /\ outstanding[d] = 1 /\ m \in AcksOf(d)
      BY <1>8, <1>11, <2>1, <2>3
    <3>2. /\ ~Behind(d, 1)
          /\ \A n \in 1..Len(req) : req[n] \notin ReqsOf(d)
          /\ \A n \in 1..Len(resp) : n # 1 => resp[n] \notin AcksOf(d)
      BY <1>0, <1>1, <3>1, NothingBehind DEF Messages
    <3>3. d \in targets
      BY <1>3, <1>11, <3>1, <3>2 DEF Messages, Dropped
    <3>4. \A n \in 1..Len(t) : t[n] \notin AcksOf(d)
      <4>1. \A n \in 1..Len(t) : n + 1 \in 1..Len(resp) /\ n + 1 # 1 /\ t[n] = resp[n + 1]
        BY <1>3, <1>7
      <4> QED BY <3>2, <4>1
    <3>5. Counted'
      <4>1. ASSUME NEW e \in Docs
            PROVE  outstanding'[e] = CountOf(req', ReqsOf(e)) + CountOf(resp', AcksOf(e))
        <5>1. CASE e = d
          <6>1. CountOf(req, ReqsOf(d)) = 0 /\ CountOf(t, AcksOf(d)) = 0
            BY <1>0, <3>2, <3>4, CountType
          <6>2. outstanding'[d] = 0
            BY <1>0, <2>1, <3>3
          <6> QED BY <1>0, <1>7, <5>1, <6>1, <6>2
        <5>2. CASE e # d
          <6>1. outstanding'[e] = outstanding[e]
            BY <1>0, <2>1, <3>3, <5>2
          <6>2. outstanding[e] = CountOf(req, ReqsOf(e)) + CountOf(resp, AcksOf(e))
            BY <3>1 DEF Messages, Counted
          <6>3. CountOf(resp, AcksOf(e)) = CountOf(t, AcksOf(e))
            BY <1>8, <1>9, <5>2
          <6> QED BY <1>0, <1>7, <6>1, <6>2, <6>3
        <5> QED BY <5>1, <5>2
      <4> QED BY <4>1 DEF Counted
    <3>6. Dropped'
      <4>1. \A n \in 1..Len(req') : req'[n] \notin ReqsOf(d)
        BY <1>0, <3>2
      <4>2. \A n \in 1..Len(resp') : resp'[n] \notin AcksOf(d)
        BY <1>7, <3>4
      <4>3. \A e \in Docs \ targets' : e = d \/ e \in Docs \ targets
        BY <2>1
      <4> QED BY <1>10, <3>1, <4>1, <4>2, <4>3 DEF Dropped
    <3> QED BY <1>5, <1>6, <3>5, <3>6 DEF Messages
  <2> QED BY <2>2, <2>3
<1>12. CASE m.op \in {"added", "removed"} /\ RecordTargetResponse(d)
  <2>1. /\ outstanding' = [outstanding EXCEPT ![d] = @ - 1]
        /\ UNCHANGED <<targets, crossed>> /\ m \in AcksOf(d)
    BY <1>8, <1>12 DEF RecordTargetResponse
  <2>2. Dropped'
    BY <1>10, <2>1 DEF Dropped
  <2>3. Counted'
    <3>1. ASSUME NEW e \in Docs, ~crossed
          PROVE  outstanding'[e] = CountOf(req', ReqsOf(e)) + CountOf(resp', AcksOf(e))
      <4>1. outstanding[e] = CountOf(req, ReqsOf(e)) + CountOf(resp, AcksOf(e))
        BY <3>1 DEF Messages, Counted
      <4>2. CASE e = d
        <5>1. outstanding'[e] = outstanding[e] - 1
          BY <1>0, <2>1, <4>2
        <5>2. CountOf(resp, AcksOf(e)) = CountOf(t, AcksOf(e)) + 1
          BY <1>9, <2>1, <4>2
        <5> QED BY <1>0, <1>7, <1>9, <4>1, <5>1, <5>2
      <4>3. CASE e # d
        <5>1. outstanding'[e] = outstanding[e]
          BY <1>0, <2>1, <4>3
        <5>2. CountOf(resp, AcksOf(e)) = CountOf(t, AcksOf(e))
          BY <1>8, <1>9, <4>3
        <5> QED BY <1>0, <1>7, <4>1, <5>1, <5>2
      <4> QED BY <4>2, <4>3
    <3> QED BY <2>1, <3>1 DEF Counted
  <2> QED BY <1>5, <1>6, <2>2, <2>3 DEF Messages
<1>13. CASE m.op = "current" /\ ApplyRemoteEvent(d, m.version)
  <2>1. UNCHANGED <<targets, crossed, outstanding>>
    BY <1>13 DEF ApplyRemoteEvent
  <2>2. \A e \in Docs : CountOf(resp, AcksOf(e)) = CountOf(resp', AcksOf(e))
    BY <1>7, <1>8, <1>9, <1>13
  <2>3. Dropped'
    BY <1>10, <2>1 DEF Dropped
  <2>4. Counted'
    BY <1>0, <2>1, <2>2 DEF Messages, Counted
  <2> QED BY <1>5, <1>6, <2>3, <2>4 DEF Messages
<1> QED BY <1>4, <1>11, <1>12, <1>13

\* Adding a listener keeps the wire in order.
LEMMA AddWire ==
  ASSUME Types, Messages, AddQueryListener
  PROVE  Messages'
<1>0. AppTypes /\ stream \in Stream /\ listeners \in [Docs -> SUBSET Gets]
  BY DEF Types, AppTypes, Stream
<1>1. /\ tasks # << >> /\ tasks' = Tail(tasks) /\ doc' = doc
      /\ UNCHANGED <<crossed, calledAt>>
  BY DEF AddQueryListener, caller
<1>2. PICK g \in Gets : g = Head(tasks).get
  BY <1>1, TaskTypes
<1>3. PICK d \in Docs : d = doc[g]
  BY <1>1, <1>2, TaskTypes
<1>4. /\ listeners' = [listeners EXCEPT ![d] = @ \cup {g}]
      /\ \/ listeners[d] = {} /\ Listen(d) /\ UNCHANGED joined
         \/ listeners[d] # {} /\ joined' = joined \cup {g} /\ UNCHANGED link
  BY <1>2, <1>3 DEF AddQueryListener
<1>5. \A e \in Docs : listeners'[e] = IF e = d THEN listeners[e] \cup {g} ELSE listeners[e]
  BY <1>0, <1>4
<1>6. CASE joined' = joined \cup {g} /\ UNCHANGED link
  <2>1. \A e \in Docs : \A h \in listeners'[e] \ joined' :
          h \in listeners[e] \ joined /\ calledAt'[h] = calledAt[h]
    BY <1>1, <1>5, <1>6
  <2>2. UNCHANGED <<req, resp, watched, outstanding, targets, stream>>
    BY <1>6 DEF link
  <2> QED BY <1>1, <2>1, <2>2, SameWire
<1>7. CASE Listen(d) /\ UNCHANGED joined
  <2>1. targets' = targets \cup {d} /\ UNCHANGED <<resp, watched>>
    BY <1>7 DEF Listen
  <2>2. CASE IsOpen(stream)
    <3>1. Send("watch", d, Write(stream))
      BY <1>7, <2>2 DEF Listen, IsStarted, IsOpen
    <3>2. PICK s : s = Write(stream)
      OBVIOUS
    <3>3. IsOpen(s)
      BY <1>0, <2>2, <3>2 DEF IsOpen, Write, Stream
    <3>4. \A e \in Docs \ {d} : \A h \in listeners'[e] \ joined' :
            h \in listeners[e] \ joined /\ calledAt'[h] = calledAt[h]
      BY <1>1, <1>5, <1>7
    <3>5. PICK op \in {"watch", "unwatch"} : op = "watch"
      OBVIOUS
    <3>6. Send(op, d, s)
      BY <3>1, <3>2, <3>5
    <3>7. IF op = "watch" THEN targets' = targets \cup {d} ELSE targets' = targets \ {d}
      BY <2>1, <3>5
    <3> QED BY <1>0, <1>1, <2>1, <3>3, <3>4, <3>6, <3>7, SentWire
  <2>3. CASE ~IsOpen(stream)
    <3>1. UNCHANGED <<outstanding, req>>
      BY <1>7, <2>3 DEF Listen
    <3>2. req' = << >> /\ resp' = << >> /\ watched' = {} /\ \A e \in Docs : outstanding'[e] = 0
      BY <2>1, <2>3, <3>1 DEF Messages, WireQuiet
    <3> QED BY <3>2, EmptyWire
  <2> QED BY <2>2, <2>3
<1> QED BY <1>4, <1>6, <1>7

\* Removing a listener keeps the wire in order.
LEMMA RemoveWire ==
  ASSUME Types, Messages, RemoveQueryListener
  PROVE  Messages'
<1>0. AppTypes /\ stream \in Stream /\ listeners \in [Docs -> SUBSET Gets]
  BY DEF Types, AppTypes, Stream
<1>1. /\ tasks # << >> /\ tasks' = Tail(tasks) /\ doc' = doc
      /\ UNCHANGED <<crossed, joined, calledAt>>
  BY DEF RemoveQueryListener, caller, history
<1>2. PICK g \in Gets : g = Head(tasks).get
  BY <1>1, TaskTypes
<1>3. PICK d \in Docs : d = doc[g]
  BY <1>1, <1>2, TaskTypes
<1>4. /\ listeners' = [listeners EXCEPT ![d] = @ \ {g}]
      /\ StopListening(d) \/ UNCHANGED link
  BY <1>2, <1>3 DEF RemoveQueryListener
<1>5. \A e \in Docs : \A h \in listeners'[e] \ joined' :
        h \in listeners[e] \ joined /\ calledAt'[h] = calledAt[h]
  <2>1. \A e \in Docs : listeners'[e] \subseteq listeners[e]
    BY <1>0, <1>4
  <2> QED BY <1>1, <2>1
<1>6. CASE UNCHANGED link
  <2>1. UNCHANGED <<req, resp, watched, outstanding, targets, stream>>
    BY <1>6 DEF link
  <2> QED BY <1>1, <1>5, <2>1, SameWire
<1>7. CASE StopListening(d)
  <2>1. targets' = targets \ {d} /\ UNCHANGED <<resp, watched>>
    BY <1>7 DEF StopListening
  <2>2. CASE IsOpen(stream)
    <3>1. PICK s : s = IF targets' = {} THEN MarkIdle(Write(stream)) ELSE Write(stream)
      OBVIOUS
    <3>2. Send("unwatch", d, s)
      BY <1>7, <2>2, <3>1 DEF StopListening
    <3>3. IsOpen(s)
      BY <1>0, <2>2, <3>1 DEF IsOpen, Write, MarkIdle, Stream
    <3>5. PICK op \in {"watch", "unwatch"} : op = "unwatch"
      OBVIOUS
    <3>6. Send(op, d, s)
      BY <3>2, <3>5
    <3>7. IF op = "watch" THEN targets' = targets \cup {d} ELSE targets' = targets \ {d}
      BY <2>1, <3>5
    <3> QED BY <1>0, <1>1, <1>5, <2>1, <3>3, <3>6, <3>7, SentWire
  <2>3. CASE ~IsOpen(stream)
    <3>1. UNCHANGED <<outstanding, req>>
      BY <1>7, <2>3 DEF StopListening
    <3>2. req' = << >> /\ resp' = << >> /\ watched' = {} /\ \A e \in Docs : outstanding'[e] = 0
      BY <2>1, <2>3, <3>1 DEF Messages, WireQuiet
    <3> QED BY <3>2, EmptyWire
  <2> QED BY <2>2, <2>3
<1> QED BY <1>4, <1>6, <1>7

\* Every step keeps the wire in order.
LEMMA MessagesNext ==
  ASSUME Types, AssertsHold, Messages, CalledBefore, [Step]_app
  PROVE  Messages'
<1>0. stream \in Stream
  BY DEF Types, AppTypes, Stream
<1>1. CASE \E g \in Gets, d \in Docs : GetDocument(g, d)
  <2>1. PICK g \in Gets, d \in Docs : GetDocument(g, d)
    BY <1>1
  <2>2. /\ doc[g] = Nothing /\ calledAt' = [calledAt EXCEPT ![g] = server[d]]
        /\ UNCHANGED <<req, resp, watched, outstanding, crossed, targets, stream, listeners, joined>>
    BY <2>1 DEF GetDocument, client, link, history
  <2>3. \A e \in Docs : g \notin listeners[e]
    BY <2>2, NothingAssumption DEF Types, ListenersCalled
  <2>4. \A e \in Docs : \A h \in listeners'[e] \ joined' :
          h \in listeners[e] \ joined /\ calledAt'[h] = calledAt[h]
    BY <2>2, <2>3 DEF Types, AppTypes
  <2> QED BY <2>2, <2>4, SameWire
<1>2. CASE (\E g \in Gets : OnEvent(g)) \/ OnlineStateTimeout \/ UNCHANGED app
  <2>1. UNCHANGED <<req, resp, watched, outstanding, crossed, targets, stream, listeners, joined,
                    calledAt>>
    BY <1>2 DEF OnEvent, OnlineStateTimeout, app, client, caller, link, history
  <2> QED BY <2>1, SameWire
<1>3. ASSUME OnlyStream, UNCHANGED <<outstanding, req>>, IsOpen(stream) => IsOpen(stream')
      PROVE  Messages'
  <2>1. UNCHANGED <<resp, watched, crossed, targets, listeners, joined, calledAt>>
    BY <1>3 DEF OnlyStream, client, caller, history
  <2> QED BY <1>3, <2>1, SameWire
<1>4. ASSUME NEW s, NEW b, CloseStream(s, b) PROVE Messages'
  <2>1. req' = << >> /\ resp' = << >> /\ watched' = {} /\ \A e \in Docs : outstanding'[e] = 0
    BY <1>4 DEF CloseStream
  <2> QED BY <2>1, EmptyWire
<1>5. CASE \E c \in stream.credentials : ResumeStartWithCredentials(c)
  <2>1. PICK c : ResumeStartWithCredentials(c)
    BY <1>5
  <2>2. \/ /\ OnlyStream /\ UNCHANGED <<outstanding, req>>
           /\ stream'.state = stream.state
        \/ \E s : CloseStream(s, FALSE)
    BY <1>0, <2>1 DEF ResumeStartWithCredentials, Stream
  <2> QED BY <1>3, <1>4, <2>2 DEF IsOpen
<1>6. CASE OnStreamFinish \/ IdleTimeout
  BY <1>4, <1>6 DEF OnStreamFinish, IdleTimeout
<1>7. CASE BackoffElapsed
  BY <1>3, <1>7 DEF BackoffElapsed, IsOpen
<1>8. CASE RestartNetwork
  <2>1. req' = << >> /\ resp' = << >> /\ watched' = {} /\ \A e \in Docs : outstanding'[e] = 0
    BY <1>8 DEF RestartNetwork
  <2> QED BY <2>1, EmptyWire
<1> QED BY <1>1, <1>2, <1>5, <1>6, <1>7, <1>8, AddWire, RemoveWire, StartWire, ChangeWire,
           AnswersWire, MessageWire DEF Step

\* No get is called with a version that the server does not have yet.
LEMMA CalledNext ==
  ASSUME Types, CalledBefore, [Step]_app
  PROVE  CalledBefore'
<1>0. /\ server \in [Docs -> Version] /\ calledAt \in [Gets -> Version]
      /\ doc \in [Gets -> Docs \cup {Nothing}]
  BY DEF Types, AppTypes
<1>1. CASE \E g \in Gets, d \in Docs : GetDocument(g, d)
  <2>1. PICK g \in Gets, d \in Docs : GetDocument(g, d)
    BY <1>1
  <2>2. /\ doc' = [doc EXCEPT ![g] = d] /\ calledAt' = [calledAt EXCEPT ![g] = server[d]]
        /\ server' = server
    BY <2>1 DEF GetDocument
  <2>3. server[d] <= server[d]
    BY <1>0 DEF Version
  <2> QED BY <1>0, <2>2, <2>3 DEF CalledBefore
<1>2. CASE \E d \in Docs : ServerChange(d)
  <2>1. PICK d \in Docs : ServerChange(d)
    BY <1>2
  <2>2. server' = [server EXCEPT ![d] = @ + 1] /\ UNCHANGED <<doc, calledAt>>
    BY <2>1 DEF ServerChange, caller
  <2>3. \A e \in Docs : server'[e] = server[e] \/ server'[e] = server[e] + 1
    BY <1>0, <2>2
  <2>4. \A g \in Gets, e \in Docs : calledAt[g] \in Int /\ server[e] \in Int
    BY <1>0 DEF Version
  <2> QED BY <2>2, <2>3, <2>4 DEF CalledBefore
<1>3. CASE UNCHANGED <<doc, calledAt, server>>
  BY <1>3 DEF CalledBefore
<1>4. ASSUME OnlyStream \/ (\E s, b : CloseStream(s, b)) PROVE UNCHANGED <<doc, calledAt, server>>
  BY <1>4 DEF OnlyStream, CloseStream, caller
<1>5. \/ \E c \in stream.credentials : ResumeStartWithCredentials(c)
      \/ OnStreamStart \/ OnStreamFinish \/ BackoffElapsed \/ IdleTimeout
      => UNCHANGED <<doc, calledAt, server>>
  BY <1>4 DEF ResumeStartWithCredentials, OnStreamStart, OnStreamFinish, BackoffElapsed,
              IdleTimeout
<1>6. \/ \E g \in Gets : OnEvent(g)
      \/ AddQueryListener \/ RemoveQueryListener \/ OnlineStateTimeout \/ RestartNetwork
      \/ ServerAnswers \/ OnWatchStreamChange \/ UNCHANGED app
      => UNCHANGED <<doc, calledAt, server>>
  BY DEF OnEvent, AddQueryListener, RemoveQueryListener, OnlineStateTimeout, RestartNetwork,
         ServerAnswers, OnWatchStreamChange, app, caller
<1> QED BY <1>1, <1>2, <1>3, <1>5, <1>6 DEF Step

\* Only the view of a target is in sync.
LEMMA SyncedNext ==
  ASSUME Types, SyncedIsTarget, [Step]_app
  PROVE  SyncedIsTarget'
<1>1. CASE synced' \subseteq synced /\ targets \subseteq targets'
  BY <1>1 DEF SyncedIsTarget
<1>2. ASSUME NEW old, NEW new, HandleOnlineStateChange(old, new) PROVE synced' \subseteq synced
  BY <1>2 DEF HandleOnlineStateChange
<1>3. ASSUME OnlyStream \/ (\E s, b : CloseStream(s, b)) PROVE SyncedIsTarget'
  <2>1. CASE OnlyStream
    BY <1>1, <2>1 DEF OnlyStream, client
  <2>2. ASSUME NEW s, NEW b, CloseStream(s, b) PROVE SyncedIsTarget'
    <3>1. HandleOnlineStateChange(tracker.online, tracker'.online) /\ targets' = targets
      BY <2>2 DEF CloseStream
    <3>2. PICK new : new = tracker'.online
      OBVIOUS
    <3>3. HandleOnlineStateChange(tracker.online, new)
      BY <3>1, <3>2
    <3> QED BY <1>1, <1>2, <3>1, <3>3
  <2> QED BY <1>3, <2>1, <2>2
<1>4. ASSUME \/ \E c \in stream.credentials : ResumeStartWithCredentials(c)
             \/ OnStreamStart \/ OnStreamFinish \/ BackoffElapsed \/ IdleTimeout
      PROVE  SyncedIsTarget'
  BY <1>3, <1>4 DEF ResumeStartWithCredentials, OnStreamStart, OnStreamFinish, BackoffElapsed,
                    IdleTimeout
<1>5. ASSUME \/ \E g \in Gets, d \in Docs : GetDocument(g, d)
             \/ \E g \in Gets : OnEvent(g)
             \/ RestartNetwork \/ (\E d \in Docs : ServerChange(d)) \/ ServerAnswers
             \/ UNCHANGED app
      PROVE  SyncedIsTarget'
  <2>1. UNCHANGED <<synced, targets>>
    BY <1>5 DEF GetDocument, OnEvent, RestartNetwork, ServerChange, ServerAnswers, app, client, link
  <2> QED BY <1>1, <2>1
<1>6. CASE AddQueryListener
  <2>1. synced' = synced /\ (UNCHANGED link \/ \E d : Listen(d))
    BY <1>6 DEF AddQueryListener
  <2>2. targets \subseteq targets'
    BY <2>1 DEF Listen, link
  <2> QED BY <1>1, <2>1, <2>2
<1>7. CASE RemoveQueryListener
  <2>1. \/ UNCHANGED <<synced, link>>
        \/ \E d : synced' = synced \ {d} /\ StopListening(d)
    BY <1>7 DEF RemoveQueryListener
  <2>2. \/ UNCHANGED <<synced, targets>>
        \/ \E d : synced' = synced \ {d} /\ targets' = targets \ {d}
    BY <2>1 DEF StopListening, link
  <2> QED BY <2>2 DEF SyncedIsTarget
<1>8. CASE OnlineStateTimeout
  <2>1. HandleOnlineStateChange(tracker.online, "Offline") /\ targets' = targets
    BY <1>8 DEF OnlineStateTimeout
  <2> QED BY <1>1, <1>2, <2>1
<1>9. CASE OnWatchStreamChange
  <2>1. \E d, v : ProcessTargetError(d) \/ RecordTargetResponse(d) \/ ApplyRemoteEvent(d, v)
    BY <1>9 DEF OnWatchStreamChange
  <2>2. ASSUME NEW d, ProcessTargetError(d) PROVE SyncedIsTarget'
    BY <2>2 DEF ProcessTargetError, SyncedIsTarget
  <2>3. ASSUME NEW d, RecordTargetResponse(d) PROVE SyncedIsTarget'
    BY <2>3 DEF RecordTargetResponse, SyncedIsTarget, client
  <2>4. ASSUME NEW d, NEW v, ApplyRemoteEvent(d, v) PROVE SyncedIsTarget'
    BY <2>4 DEF ApplyRemoteEvent, SyncedIsTarget, IsActiveTarget
  <2> QED BY <2>1, <2>2, <2>3, <2>4
<1> QED BY <1>4, <1>5, <1>6, <1>7, <1>8, <1>9 DEF Step

\* A step that answers no one and raises only fresh events.
LEMMA FreshKept ==
  ASSUME AppTypes, Freshness, UNCHANGED <<answers, calledAt>>, joined \subseteq joined',
         crossed => crossed',
         ~crossed' => \A g \in Gets \ joined' :
           \/ events'[g] = events[g]
           \/ \E e \in Event : events'[g] = Append(events[g], e) /\ IsFresh(e, g)
  PROVE  Freshness'
<1>1. AnswersFresh'
  BY DEF Freshness, AnswersFresh, IsFresh
<1>2. ASSUME ~crossed', NEW g \in Gets \ joined', NEW n \in 1..Len(events'[g])
      PROVE  IsFresh(events[g][n], g)'
  <2>1. ~crossed /\ g \in Gets \ joined /\ events[g] \in Seq(Event) /\ calledAt'[g] = calledAt[g]
    BY <1>2 DEF AppTypes
  <2>2. \A k \in 1..Len(events[g]) : IsFresh(events[g][k], g)
    BY <2>1 DEF Freshness, EventsFresh
  <2>3. CASE events'[g] = events[g]
    BY <1>2, <2>1, <2>2, <2>3 DEF IsFresh
  <2>4. CASE \E e \in Event : events'[g] = Append(events[g], e) /\ IsFresh(e, g)
    <3>1. PICK e \in Event : events'[g] = Append(events[g], e) /\ IsFresh(e, g)
      BY <2>4
    <3>2. events'[g][n] = e \/ (n \in 1..Len(events[g]) /\ events'[g][n] = events[g][n])
      BY <1>2, <2>1, <3>1
    <3> QED BY <2>1, <2>2, <3>1, <3>2 DEF IsFresh
  <2> QED BY <1>2, <2>3, <2>4
<1>3. EventsFresh'
  BY <1>2 DEF EventsFresh
<1> QED BY <1>1, <1>3 DEF Freshness

\* A snapshot from the cache does not claim to come from the server.
LEMMA CachedIsFresh ==
  ASSUME AppTypes, NEW ls \in SUBSET Gets, NEW v, Raise(ls, v, TRUE),
         \A g \in ls : v[doc[g]] \in Version
  PROVE  \A g \in Gets :
           \/ events'[g] = events[g]
           \/ \E e \in Event : events'[g] = Append(events[g], e) /\ IsFresh(e, g)
<1>1. ASSUME NEW g \in ls
      PROVE  \E e \in Event : events'[g] = Append(events[g], e) /\ IsFresh(e, g)
  <2>1. PICK e : e = Found(v[doc[g]], TRUE)
    OBVIOUS
  <2>2. e \in Event
    <3>1. \A b \in BOOLEAN : Found(v[doc[g]], b) \in Event
      BY EventTypes
    <3> QED BY <2>1, <3>1, Zenon
  <2>3. e.cached = TRUE
    BY <2>1 DEF Found
  <2>4. events'[g] = Append(events[g], e)
    BY <2>1 DEF Raise
  <2> QED BY <2>2, <2>3, <2>4 DEF IsFresh
<1>2. \A g \in Gets \ ls : events'[g] = events[g]
  BY DEF Raise
<1> QED BY <1>1, <1>2

\* A change of the online state tells only what is in the cache.
LEMMA OnlineIsFresh ==
  ASSUME Types, NEW old, NEW new, HandleOnlineStateChange(old, new)
  PROVE  \A g \in Gets :
           \/ events'[g] = events[g]
           \/ \E e \in Event : events'[g] = Append(events[g], e) /\ IsFresh(e, g)
<1>1. CASE new = "Offline" /\ old # "Offline"
  <2> DEFINE ls == {g \in UNION {listeners[d] : d \in Docs} : g \notin raised \/ doc[g] \in synced}
  <2>1. /\ ls \in SUBSET Gets
        /\ \A g \in ls : doc[g] \in Docs /\ cache[doc[g]] \in Version
    BY DEF Types, AppTypes, ListenersCalled
  <2>2. Raise(ls, cache, TRUE)
    BY <1>1 DEF HandleOnlineStateChange
  <2> HIDE DEF ls
  <2> QED BY <2>1, <2>2, CachedIsFresh DEF Types
<1>2. CASE ~(new = "Offline" /\ old # "Offline")
  BY <1>2 DEF HandleOnlineStateChange
<1> QED BY <1>1, <1>2

\* A listener that opens a view hears nothing that claims to come from the server.
LEMMA AddFresh ==
  ASSUME Types, AssertsHold, SyncedIsTarget, Freshness, AddQueryListener
  PROVE  Freshness'
<1>0. AppTypes /\ cache \in [Docs -> Version]
  BY DEF Types, AppTypes
<1>1. /\ tasks # << >> /\ tasks' = Tail(tasks) /\ doc' = doc
      /\ UNCHANGED <<crossed, calledAt, answers>>
  BY DEF AddQueryListener, caller
<1>2. PICK g \in Gets : g = Head(tasks).get
  BY <1>1, TaskTypes
<1>3. PICK d \in Docs : d = doc[g]
  BY <1>1, <1>2, TaskTypes
<1>4. \/ listeners[d] = {} /\ UNCHANGED joined
      \/ joined' = joined \cup {g}
  BY <1>2, <1>3 DEF AddQueryListener
<1>5. PICK ls \in SUBSET {g} : Raise(ls, cache, d \notin synced)
  <2>1. Raise({g}, cache, d \notin synced) \/ Raise({}, cache, d \notin synced)
    BY <1>2, <1>3 DEF AddQueryListener
  <2> QED BY <2>1
<1>6. listeners[d] = {} => Raise(ls, cache, TRUE)
  <2>1. ASSUME listeners[d] = {} PROVE d \notin synced
    BY <2>1 DEF AssertsHold, StreamAsserts, SyncedIsTarget
  <2>2. ASSUME d \notin synced PROVE (d \notin synced) = TRUE
    BY <2>2
  <2> QED BY <1>5, <2>1, <2>2, Zenon
<1>7. \A h \in Gets \ {g} : events'[h] = events[h]
  BY <1>5 DEF Raise
<1>8. listeners[d] = {} =>
        \/ events'[g] = events[g]
        \/ \E e \in Event : events'[g] = Append(events[g], e) /\ IsFresh(e, g)
  <2>1. ls \in SUBSET Gets /\ \A h \in ls : cache[doc[h]] \in Version
    BY <1>0, <1>3
  <2> QED BY <1>0, <1>6, <2>1, CachedIsFresh
<1>9. \A h \in Gets \ joined' :
        \/ events'[h] = events[h]
        \/ \E e \in Event : events'[h] = Append(events[h], e) /\ IsFresh(e, h)
  BY <1>4, <1>7, <1>8
<1> QED BY <1>0, <1>1, <1>4, <1>9, FreshKept

\* A document that is applied is no older than any call that waits for it.
LEMMA ChangeFresh ==
  ASSUME Types, Messages, Freshness, OnWatchStreamChange
  PROVE  Freshness'
<1>0. /\ AppTypes /\ ListenersCalled /\ cache \in [Docs -> Version]
      /\ listeners \in [Docs -> SUBSET Gets] /\ calledAt \in [Gets -> Version]
      /\ resp # << >> /\ UNCHANGED <<answers, calledAt, joined, doc>>
  BY DEF Types, AppTypes, OnWatchStreamChange, caller
<1>1. PICK m \in Change : m = Head(resp)
  BY <1>0, HeadTypes
<1>2. PICK d \in Docs : d = m.doc
  BY DEF Change
<1>3. PICK v \in Version : v = m.version
  BY DEF Change
<1>4. \/ ProcessTargetError(d) \/ RecordTargetResponse(d)
      \/ m.op = "current" /\ ApplyRemoteEvent(d, v)
  BY <1>1, <1>2, <1>3 DEF OnWatchStreamChange
<1>5. CASE ProcessTargetError(d)
  <2>1. /\ crossed => crossed'
        /\ \A g \in Gets : events'[g] = events[g] \/ events'[g] = Append(events[g], Failed)
    BY <1>5 DEF ProcessTargetError
  <2>2. Failed \in Event /\ \A g \in Gets : IsFresh(Failed, g)
    BY EventTypes DEF IsFresh, Failed
  <2> QED BY <1>0, <2>1, <2>2, FreshKept
<1>6. CASE RecordTargetResponse(d)
  <2>1. UNCHANGED <<crossed, events>>
    BY <1>6 DEF RecordTargetResponse, client
  <2> QED BY <1>0, <2>1, FreshKept
<1>7. CASE m.op = "current" /\ ApplyRemoteEvent(d, v)
  <2>1. crossed' = crossed
    BY <1>7 DEF ApplyRemoteEvent
  <2>2. CASE UNCHANGED events
    BY <1>0, <2>1, <2>2, FreshKept
  <2>3. CASE ~UNCHANGED events
    <3>1. /\ IsActiveTarget(d) /\ cache' = [cache EXCEPT ![d] = IF v > @ THEN v ELSE @]
          /\ Raise(listeners[d], cache', FALSE)
      BY <1>7, <2>3 DEF ApplyRemoteEvent
    <3>2. PICK w \in Version : w = cache'[d] /\ w >= v
      <4>1. cache'[d] = IF v > cache[d] THEN v ELSE cache[d]
        BY <1>0, <3>1
      <4>2. cache[d] \in Version /\ v \in Int /\ cache[d] \in Int
        BY <1>0 DEF Version
      <4> QED BY <4>1, <4>2
    <3>3. \A g \in Gets \ listeners[d] : events'[g] = events[g]
      BY <3>1 DEF Raise
    <3>4. \A g \in listeners[d] : events'[g] = Append(events[g], Found(w, FALSE))
      BY <1>0, <3>1, <3>2 DEF Raise, ListenersCalled
    <3>5. Found(w, FALSE) \in Event /\ Found(w, FALSE).version = w
      BY EventTypes DEF Found
    <3>6. ASSUME ~crossed, NEW g \in listeners[d] \ joined PROVE IsFresh(Found(w, FALSE), g)
      <4>1. Head(resp) \notin AcksOf(d) /\ outstanding[d] = 0
        BY <1>1, <1>7, <3>1, MessageSets DEF IsActiveTarget
      <4>2. ~Behind(d, 1)
        BY <1>0, <3>6, <4>1, NothingBehind DEF Messages
      <4>3. m = resp[1] /\ 1 \in 1..Len(resp)
        BY <1>0, <1>1 DEF AppTypes
      <4>4. ~(v < calledAt[g])
        BY <1>2, <1>3, <1>7, <4>2, <4>3 DEF Messages, StaleIsAwaited
      <4>5. v \in Int /\ w \in Int /\ calledAt[g] \in Int
        BY <1>0 DEF Version
      <4>6. w >= calledAt[g]
        BY <3>2, <4>4, <4>5
      <4> QED BY <3>5, <4>6 DEF IsFresh
    <3>7. PICK x \in Event : x = Found(w, FALSE)
      BY <3>5
    <3> QED BY <1>0, <2>1, <3>3, <3>4, <3>6, <3>7, FreshKept
  <2> QED BY <2>2, <2>3
<1> QED BY <1>4, <1>5, <1>6, <1>7

\* Calls and events.
LEMMA CallerFresh ==
  ASSUME Types, Once, Freshness, NEW g \in Gets, OnEvent(g) \/ \E d \in Docs : GetDocument(g, d)
  PROVE  Freshness'
<1>0. /\ events \in [Gets -> Seq(Event)] /\ answers \in [Gets -> Seq(Answer)]
      /\ calledAt \in [Gets -> Version]
  BY DEF Types, AppTypes
<1>1. CASE \E d \in Docs : GetDocument(g, d)
  <2>1. PICK d \in Docs : GetDocument(g, d)
    BY <1>1
  <2>2. /\ doc[g] = Nothing /\ calledAt' = [calledAt EXCEPT ![g] = server[d]]
        /\ UNCHANGED <<events, answers, joined, crossed>>
    BY <2>1 DEF GetDocument, client, history
  <2>3. events[g] = << >> /\ answers[g] = << >>
    BY <2>2 DEF Once, Answering, FreshUntilCalled, Fresh
  <2>4. \A h \in Gets \ {g} : calledAt'[h] = calledAt[h]
    BY <1>0, <2>2
  <2>5. \A n \in 1..Len(events[g]) : FALSE
    BY <2>3
  <2>6. \A n \in 1..Len(answers[g]) : FALSE
    BY <2>3
  <2>7. EventsFresh'
    BY <2>2, <2>4, <2>5 DEF Freshness, EventsFresh, IsFresh
  <2>8. AnswersFresh'
    BY <2>2, <2>4, <2>6 DEF Freshness, AnswersFresh, IsFresh
  <2> QED BY <2>7, <2>8 DEF Freshness
<1>2. CASE OnEvent(g)
  <2>1. events[g] # << >> /\ events' = [events EXCEPT ![g] = Tail(@)]
        /\ UNCHANGED <<calledAt, joined, crossed>>
    BY <1>2 DEF OnEvent, history
  <2>2. PICK q \in Seq(Event) : q = events[g]
    BY <1>0
  <2>3. PICK e \in Event : e = q[1] /\ 1 \in 1..Len(q) /\ e = Head(events[g])
    BY <2>1, <2>2
  <2>4. events'[g] = Tail(q) /\ \A n \in 1..Len(Tail(q)) : n + 1 \in 1..Len(q) /\ Tail(q)[n] = q[n + 1]
    BY <1>0, <2>1, <2>2
  <2>5. \A h \in Gets \ {g} : events'[h] = events[h]
    BY <1>0, <2>1
  <2>6. EventsFresh'
    BY <2>1, <2>2, <2>4, <2>5 DEF Freshness, EventsFresh, IsFresh
  <2>7. PICK x \in Answer : /\ x = IF e.version = 0 /\ e.cached THEN [e EXCEPT !.kind = "offline"] ELSE e
                            /\ x = e \/ x.kind = "offline"
    <3>1. CASE e.version = 0 /\ e.cached
      <4>1. [e EXCEPT !.kind = "offline"].kind = "offline"
        BY DEF Event
      <4> QED BY <3>1, <4>1, OfflineAnswer
    <3>2. CASE ~(e.version = 0 /\ e.cached)
      BY <3>2 DEF Answer
    <3> QED BY <3>1, <3>2
  <2>8. /\ \A h \in Gets \ {g} : answers'[h] = answers[h]
        /\ \/ answers'[g] = answers[g]
           \/ answers'[g] = Append(answers[g], e)
           \/ answers'[g] = Append(answers[g], x)
    BY <1>0, <1>2, <2>3, <2>7 DEF OnEvent
  <2>9. e \in Answer
    BY DEF Answer
  <2>10. ASSUME ~crossed, g \notin joined PROVE IsFresh(e, g) /\ IsFresh(x, g)
    <3>1. IsFresh(e, g)
      BY <2>2, <2>3, <2>10 DEF Freshness, EventsFresh
    <3> QED BY <2>7, <3>1 DEF IsFresh
  <2>11. AnswersFresh'
    <3>1. ASSUME ~crossed', NEW h \in Gets \ joined', NEW n \in 1..Len(answers'[h])
          PROVE  IsFresh(answers[h][n], h)'
      <4>1. ~crossed /\ h \in Gets \ joined /\ answers[h] \in Seq(Answer)
            /\ calledAt'[h] = calledAt[h]
        BY <1>0, <2>1, <3>1
      <4>2. \A k \in 1..Len(answers[h]) : IsFresh(answers[h][k], h)
        BY <4>1 DEF Freshness, AnswersFresh
      <4>3. CASE answers'[h] = answers[h]
        BY <3>1, <4>1, <4>2, <4>3 DEF IsFresh
      <4>4. CASE answers'[h] # answers[h]
        <5>1. h = g
          BY <2>8, <4>4
        <5>2. PICK y \in {e, x} : answers'[h] = Append(answers[h], y)
          BY <2>8, <4>4, <5>1
        <5>3. y \in Answer /\ IsFresh(y, h)
          BY <2>9, <2>10, <4>1, <5>1, <5>2
        <5>4. answers'[h][n] = y \/ (n \in 1..Len(answers[h]) /\ answers'[h][n] = answers[h][n])
          BY <3>1, <4>1, <5>2, <5>3
        <5> QED BY <4>1, <4>2, <5>3, <5>4 DEF IsFresh
      <4> QED BY <4>3, <4>4
    <3> QED BY <3>1 DEF AnswersFresh
  <2> QED BY <2>6, <2>11 DEF Freshness
<1> QED BY <1>1, <1>2

\* Every step keeps the events and the answers fresh.
LEMMA FreshNext ==
  ASSUME Types, AssertsHold, Once, Messages, SyncedIsTarget, Freshness, [Step]_app
  PROVE  Freshness'
<1>0. AppTypes
  BY DEF Types
<1>1. CASE \/ \E c \in stream.credentials : ResumeStartWithCredentials(c)
           \/ OnStreamStart \/ OnStreamFinish \/ BackoffElapsed \/ IdleTimeout
  <2>1. OnlyStream \/ \E s, b : CloseStream(s, b)
    BY <1>1 DEF ResumeStartWithCredentials, OnStreamStart, OnStreamFinish, BackoffElapsed,
                IdleTimeout
  <2>2. CASE OnlyStream
    <3>1. UNCHANGED <<answers, calledAt, joined, crossed, events>>
      BY <2>2 DEF OnlyStream, client, caller, history
    <3> QED BY <1>0, <3>1, FreshKept
  <2>3. ASSUME NEW s, NEW b, CloseStream(s, b) PROVE Freshness'
    <3>1. /\ HandleOnlineStateChange(tracker.online, tracker'.online)
          /\ UNCHANGED <<answers, calledAt, joined, crossed>>
      BY <2>3 DEF CloseStream, caller
    <3>2. PICK new : new = tracker'.online
      OBVIOUS
    <3>3. HandleOnlineStateChange(tracker.online, new)
      BY <3>1, <3>2
    <3>4. \A g \in Gets :
            \/ events'[g] = events[g]
            \/ \E e \in Event : events'[g] = Append(events[g], e) /\ IsFresh(e, g)
      BY <3>3, OnlineIsFresh
    <3> QED BY <1>0, <3>1, <3>4, FreshKept
  <2> QED BY <2>1, <2>2, <2>3
<1>2. CASE OnlineStateTimeout
  <2>1. /\ HandleOnlineStateChange(tracker.online, "Offline")
        /\ UNCHANGED <<answers, calledAt, joined, crossed>>
    BY <1>2 DEF OnlineStateTimeout, caller, history
  <2>2. \A g \in Gets :
          \/ events'[g] = events[g]
          \/ \E e \in Event : events'[g] = Append(events[g], e) /\ IsFresh(e, g)
    BY <2>1, OnlineIsFresh
  <2> QED BY <1>0, <2>1, <2>2, FreshKept
<1>3. CASE \/ RestartNetwork \/ (\E d \in Docs : ServerChange(d)) \/ ServerAnswers
           \/ RemoveQueryListener \/ UNCHANGED app
  <2>1. UNCHANGED <<answers, calledAt, joined, crossed, events>>
    BY <1>3 DEF RestartNetwork, ServerChange, ServerAnswers, RemoveQueryListener, app, client,
                caller, history
  <2> QED BY <1>0, <2>1, FreshKept
<1> QED BY <1>1, <1>2, <1>3, CallerFresh, AddFresh, ChangeFresh DEF Step

\* An answer that claims to come from the server is no older than the call,
\* whatever answers to earlier listens of the same target are still under way:
\* the acknowledgements awaited are exactly the requests and answers on the wire,
\* and a document sent before the call is followed by one of them.  The exceptions
\* are a get that joined the view of another one, and a stream on which a refusal
\* has crossed other requests for its target.
THEOREM FreshAnswers == Spec => []ServerAnswerIsFresh
<1> DEFINE Inv == /\ Types /\ Connection /\ Once
                  /\ Messages /\ CalledBefore /\ SyncedIsTarget /\ Freshness
<1>1. Inv /\ [Next]_vars => Inv'
  <2>1. Connection => AssertsHold
    BY DEF Connection
  <2> QED BY <2>1, StepOf, TypesNext, ConnectionNext, OnceNext, MessagesNext, CalledNext,
             SyncedNext, FreshNext
<1>2. Init => Inv
  <2>1. Init => Once
    BY DEF Init, Once, Answering, AddedOnce, FreshUntilAdded, FreshUntilCalled, Fresh,
           NotListening, ErrorIsLast, AnsweredIsDone, AnsweredOnce
  <2>2. ASSUME Init PROVE WireQuiet /\ Dropped /\ StaleIsAwaited
    BY <2>2 DEF Init, WireQuiet, Dropped, StaleIsAwaited
  <2>3. ASSUME Init PROVE Counted
    BY <2>3, CountEmpty DEF Init, Counted
  <2>4. ASSUME Init PROVE CalledBefore /\ SyncedIsTarget
    BY <2>4, NothingAssumption DEF Init, CalledBefore, SyncedIsTarget
  <2>5. ASSUME Init PROVE Freshness
    BY <2>5 DEF Init, Freshness, EventsFresh, AnswersFresh
  <2> QED BY <2>1, <2>2, <2>3, <2>4, <2>5, InitTypes, InitConnection DEF Messages
<1>3. Inv => ServerAnswerIsFresh
  <2>1. ASSUME Types PROVE \A g \in Gets : DOMAIN answers[g] = 1..Len(answers[g])
    BY <2>1 DEF Types, AppTypes
  <2> QED BY <2>1 DEF ServerAnswerIsFresh, Freshness, AnswersFresh, IsFresh
<1> HIDE DEF Inv
<1> QED BY <1>1, <1>2, <1>3, PTL DEF Spec
=============================================================================
