---------------------------- MODULE SessionProofs ----------------------------
(* Safety of the sign-in and account pages of Session, for any number of taps,
   addresses and routes. *)
EXTENDS Session, FiniteSetTheorems, TLAPS

-----------------------------------------------------------------------------
(* Types *)

Routes == [page : Pages, id : 1..MaxRoutes, text : Texts, suggestons : Seq(Texts),
           loading : BOOLEAN]
Handlers == [form : {"none", "login", "form", "reset", "signout"},
             route : 0..MaxRoutes, text : Texts,
             awaits : {"unused", "overlay", "preferences", "stored", "firebase", "nothing"},
             told : {"nothing", "done", "mismatch", "failed", "not stored", "exception"}]

Runners == {t \in Taps : Running(t)}

\* Each handler that runs has room for a route.
RoomLeft == opened + Cardinality(Runners) <= MaxRoutes

\* What is under everything else is the login page or HomePage.
Bottom == stack # << >> => stack[1].page \in {"login", "home"}

Types == TypeOK /\ RoomLeft /\ Bottom

\* The handlers that run are finitely many.
LEMMA RunnersFinite == IsFiniteSet(Runners) /\ Cardinality(Runners) \in Nat
<1>1. Runners \subseteq Taps
  BY DEF Runners
<1>2. IsFiniteSet(Runners)
  BY <1>1, TapsAssumption, FS_Subset
<1> QED BY <1>2, FS_CardinalityType

\* What Front and Append do to the routes.
LEMMA FrontType ==
  ASSUME NEW T, NEW s \in Seq(T), s # << >>
  PROVE  /\ Front(s) \in Seq(T) /\ Len(Front(s)) = Len(s) - 1 /\ Len(s) \in Nat \ {0}
         /\ \A n \in 1..(Len(s) - 1) : Front(s)[n] = s[n]
         /\ Last(s) = s[Len(s)] /\ Last(s) \in T
<1>1. Len(s) \in Nat \ {0} /\ Last(s) = s[Len(s)] /\ Last(s) \in T
  BY DEF Last
<1>2. PICK k \in Nat : k = Len(s) - 1
  BY <1>1
<1>3. Front(s) = SubSeq(s, 1, k)
  BY <1>2 DEF Front
<1>4. SubSeq(s, 1, k) \in Seq(T) /\ Len(SubSeq(s, 1, k)) = k
  <2>1. \A n \in 1..k : s[n] \in T
    BY <1>1, <1>2
  <2> QED BY <1>1, <1>2, <2>1
<1>5. \A n \in 1..k : SubSeq(s, 1, k)[n] = s[n]
  BY <1>1, <1>2
<1> QED BY <1>1, <1>2, <1>3, <1>4, <1>5

\* A route that is opened.
LEMMA RouteType ==
  ASSUME NEW p \in Pages, NEW i \in 1..MaxRoutes
  PROVE  /\ Route(p, i) \in Routes
         /\ Route(p, i).page = p /\ Route(p, i).id = i /\ Route(p, i).text = NoText
<1>1. << >> \in Seq(Texts) /\ NoText \in Texts /\ (p = "login") \in BOOLEAN
  BY DEF Texts
<1> QED BY <1>1 DEF Route, Routes

\* A page is pushed while there is room.
LEMMA PushTypes ==
  ASSUME NEW s \in Seq(Routes), NEW p \in Pages, opened \in 1..MaxRoutes, opened < MaxRoutes,
         Push(s, p)
  PROVE  stack' \in Seq(Routes) /\ opened' \in 1..MaxRoutes /\ opened' = opened + 1
<1>1. opened + 1 \in 1..MaxRoutes /\ opened' = opened + 1
  BY RoutesAssumption DEF Push
<1>2. Route(p, opened + 1) \in Routes
  BY <1>1, RouteType
<1> QED BY <1>1, <1>2 DEF Push

\* What the steps of the user and the handlers have to keep.
LEMMA Typed ==
  ASSUME stack' \in Seq(Routes), opened' \in 1..MaxRoutes, user' \in {"default", "guest"},
         accounts' \in Seq(Texts), handler' \in [Taps -> Handlers], overlay' \in BOOLEAN,
         saved' \subseteq Texts, entered' \in {"none", "email", "guest"},
         reasons' \subseteq {"signed out", "edited"}, disturbed' \subseteq Taps,
         stray' \subseteq Taps
  PROVE  TypeOK'
BY DEF TypeOK, Routes, Handlers

\* The state has its types at the start.
LEMMA InitTypes == Init => Types
<1> SUFFICES ASSUME Init PROVE Types
  OBVIOUS
<1>1. Route("login", 1) \in Routes
  BY RouteType, RoutesAssumption DEF Pages
<1>2. Unused \in Handlers
  BY RoutesAssumption DEF Unused, Handlers, Texts
<1>3. TypeOK
  <2>1. stack \in Seq(Routes) /\ handler \in [Taps -> Handlers] /\ accounts \in Seq(Texts)
    BY <1>1, <1>2 DEF Init
  <2>2. opened \in 1..MaxRoutes /\ user \in {"default", "guest"}
    BY RoutesAssumption DEF Init
  <2>4. overlay \in BOOLEAN
    BY DEF Init
  <2>3. /\ saved \subseteq Texts /\ entered \in {"none", "email", "guest"}
        /\ reasons \subseteq {"signed out", "edited"} /\ disturbed \subseteq Taps
        /\ stray \subseteq Taps
    BY DEF Init
  <2> QED BY <2>1, <2>2, <2>3, <2>4 DEF TypeOK, Routes, Handlers
<1>4. Runners = {}
  BY DEF Init, Runners, Running, Unused
<1>5. RoomLeft
  BY <1>4, FS_EmptySet, RoutesAssumption DEF Init, RoomLeft
<1>6. Bottom
  BY RouteType, RoutesAssumption DEF Init, Bottom, Pages
<1> QED BY <1>3, <1>5, <1>6 DEF Types

\* What the type invariant says, with the names of the types.
LEMMA TypeFacts ==
  ASSUME TypeOK
  PROVE  /\ stack \in Seq(Routes) /\ handler \in [Taps -> Handlers]
         /\ accounts \in Seq(Texts) /\ opened \in 1..MaxRoutes /\ opened \in Nat
         /\ user \in {"default", "guest"} /\ overlay \in BOOLEAN /\ saved \subseteq Texts
         /\ entered \in {"none", "email", "guest"} /\ reasons \subseteq {"signed out", "edited"}
         /\ disturbed \subseteq Taps /\ stray \subseteq Taps
<1>1. opened \in 1..MaxRoutes
  BY DEF TypeOK
<1>2. opened \in Nat
  BY <1>1, RoutesAssumption
<1> QED BY <1>1, <1>2 DEF TypeOK, Routes, Handlers

\* No handler starts or ends.
LEMMA SameRunners ==
  ASSUME \A t \in Taps : handler'[t].awaits = handler[t].awaits
  PROVE  Runners' = Runners /\ \A t \in Taps : Running(t)' <=> Running(t)
BY DEF Runners, Running

\* The first k routes stay, and nothing or a page p is put on top of them.
Keeps(k) ==
  /\ k \in 0..Len(stack)
  /\ \A n \in 1..k : stack'[n].id = stack[n].id /\ stack'[n].page = stack[n].page
Kept(k) == Keeps(k) /\ Len(stack') = k /\ opened' = opened
Opened(k, p) ==
  /\ Keeps(k) /\ Len(stack') = k + 1 /\ opened' = opened + 1
  /\ stack'[k + 1].id = opened + 1 /\ stack'[k + 1].page = p

\* Nothing is popped or pushed.
LEMMA Unmoved ==
  ASSUME TypeOK, stack' = stack, opened' = opened
  PROVE  stack' \in Seq(Routes) /\ opened' \in 1..MaxRoutes /\ Kept(Len(stack))
<1>1. stack \in Seq(Routes) /\ opened \in 1..MaxRoutes
  BY TypeFacts
<1>2. Len(stack) \in Nat
  BY <1>1
<1>3. Len(stack) \in 0..Len(stack)
  BY <1>2
<1> QED BY <1>1, <1>3 DEF Kept, Keeps

\* The page on top is popped.
LEMMA Popped ==
  ASSUME TypeOK, stack # << >>, stack' = Front(stack), UNCHANGED opened
  PROVE  stack' \in Seq(Routes) /\ opened' \in 1..MaxRoutes /\ Kept(Len(stack) - 1)
<1>1. stack \in Seq(Routes) /\ opened \in 1..MaxRoutes
  BY TypeFacts
<1>2. /\ stack' \in Seq(Routes) /\ Len(stack') = Len(stack) - 1 /\ Len(stack) \in Nat \ {0}
      /\ \A n \in 1..(Len(stack) - 1) : stack'[n] = stack[n]
  BY <1>1, FrontType
<1> QED BY <1>1, <1>2 DEF Kept, Keeps

\* A page is pushed on the first k routes.
LEMMA Pushed ==
  ASSUME TypeOK, NEW s \in Seq(Routes), NEW k \in 0..Len(stack), Len(s) = k,
         \A n \in 1..k : s[n] = stack[n], NEW p \in Pages, opened < MaxRoutes, Push(s, p)
  PROVE  stack' \in Seq(Routes) /\ opened' \in 1..MaxRoutes /\ Opened(k, p)
<1>1. stack \in Seq(Routes) /\ opened \in 1..MaxRoutes /\ opened \in Nat
  BY TypeFacts
<1>2. stack' \in Seq(Routes) /\ opened' \in 1..MaxRoutes /\ opened' = opened + 1
  BY <1>1, PushTypes
<1>3. PICK r \in Routes : r = Route(p, opened + 1) /\ r.id = opened + 1 /\ r.page = p
  BY <1>2, RouteType
<1>4. stack' = Append(s, r)
  BY <1>3 DEF Push
<1>5. /\ Len(stack') = k + 1 /\ stack'[k + 1] = r
      /\ \A n \in 1..k : stack'[n] = stack[n]
  BY <1>4
<1> QED BY <1>2, <1>3, <1>5 DEF Opened, Keeps

\* A page replaces the one on top.
LEMMA Replaced ==
  ASSUME TypeOK, stack # << >>, NEW p \in Pages, opened < MaxRoutes, PushReplacement(stack, p)
  PROVE  /\ stack' \in Seq(Routes) /\ opened' \in 1..MaxRoutes
         /\ Len(stack) \in Nat \ {0} /\ Opened(Len(stack) - 1, p)
<1>1. stack \in Seq(Routes)
  BY TypeFacts
<1>2. PICK s \in Seq(Routes) : s = Front(stack)
  BY <1>1, FrontType
<1>30. Len(stack) \in Nat \ {0}
  BY <1>1, FrontType
<1>3. PICK k \in 0..Len(stack) : k = Len(stack) - 1
  <2>1. Len(stack) - 1 \in 0..Len(stack)
    BY <1>30
  <2> QED BY <2>1
<1>4. Len(s) = k /\ \A n \in 1..k : s[n] = stack[n]
  BY <1>1, <1>2, <1>3, FrontType
<1>5. Push(s, p)
  BY <1>2 DEF PushReplacement
<1>6. stack' \in Seq(Routes) /\ opened' \in 1..MaxRoutes /\ Opened(k, p)
  BY <1>4, <1>5, Pushed
<1> QED BY <1>3, <1>30, <1>6

\* The stack is kept or a page opened on it, with a page left at the bottom.
LEMMA BottomKept ==
  ASSUME Bottom, TypeOK, stack' \in Seq(Routes), NEW k, NEW p,
         Kept(k) \/ (Opened(k, p) /\ (k # 0 \/ p \in {"login", "home"}))
  PROVE  Bottom'
<1>1. stack \in Seq(Routes)
  BY TypeFacts
<1>2. k \in 0..Len(stack) /\ k \in Nat
  BY <1>1 DEF Kept, Opened, Keeps
<1>3. CASE k # 0
  <2>1. 1 \in 1..k /\ stack # << >>
    BY <1>1, <1>2, <1>3
  <2> QED BY <2>1 DEF Kept, Opened, Keeps, Bottom
<1>4. CASE k = 0
  <2>1. CASE Kept(k)
    BY <1>4, <2>1 DEF Kept, Bottom
  <2>2. CASE Opened(k, p)
    BY <1>4, <2>2 DEF Kept, Opened, Bottom
  <2> QED BY <1>4, <2>1, <2>2
<1> QED BY <1>3, <1>4

\* Where there is room, a route may be opened.
LEMMA RoomToOpen ==
  ASSUME TypeOK, Room
  PROVE  opened < MaxRoutes /\ opened + 1 + Cardinality(Runners) <= MaxRoutes
<1>1. opened \in Nat /\ Cardinality(Runners) \in Nat /\ MaxRoutes \in Nat
  BY TypeFacts, RunnersFinite, RoutesAssumption
<1> QED BY <1>1 DEF Room, Runners

\* A tap that opens or leaves a page.
UserStep ==
  \/ \E page \in Pages : OpenPage(page)
  \/ Back \/ EnterAsGuest \/ Register \/ SignOut

\* How a tap that opens or leaves a page changes the routes.
LEMMA UserShape ==
  ASSUME TypeOK, Bottom, UserStep
  PROVE  /\ stack' \in Seq(Routes) /\ opened' \in 1..MaxRoutes
         /\ Len(stack) \in Nat \ {0}
         /\ \/ Back /\ Kept(Len(stack) - 1) /\ Len(stack) > 1
            \/ Room /\ \E p \in Pages : OpenPage(p) /\ Opened(Len(stack), p)
            \/ Room /\ (EnterAsGuest \/ Register) /\ Opened(Len(stack) - 1, "home")
            \/ Room /\ SignOut /\ Len(stack) > 1 /\ Opened(Len(stack) - 2, "login")
<1>0. stack \in Seq(Routes) /\ Len(stack) \in Nat
  <2>1. stack \in Seq(Routes)
    BY TypeFacts
  <2> QED BY <2>1
<1>00. Len(stack) \in Nat
  BY <1>0
<1>1. CASE Back
  <2>1. stack # << >> /\ Len(stack) > 1 /\ stack' = Front(stack) /\ UNCHANGED opened
    BY <1>0, <1>1 DEF Back
  <2> QED BY <1>0, <1>1, <2>1, Popped
<1>2. ASSUME NEW p \in Pages, OpenPage(p)
      PROVE  /\ stack' \in Seq(Routes) /\ opened' \in 1..MaxRoutes
             /\ Len(stack) \in Nat \ {0} /\ Room /\ Opened(Len(stack), p)
  <2>1. Room /\ stack # << >> /\ Push(stack, p)
    BY <1>2 DEF OpenPage
  <2>2. opened < MaxRoutes
    BY <2>1, RoomToOpen
  <2>3. PICK k \in 0..Len(stack) : k = Len(stack)
    BY <1>0
  <2>4. stack' \in Seq(Routes) /\ opened' \in 1..MaxRoutes /\ Opened(k, p)
    BY <1>0, <2>1, <2>2, <2>3, Pushed
  <2> QED BY <1>0, <2>1, <2>3, <2>4
<1>3. CASE EnterAsGuest \/ Register
  <2>1. Room /\ stack # << >> /\ PushReplacement(stack, "home")
    BY <1>3 DEF EnterAsGuest, Register, OnTop
  <2>2. opened < MaxRoutes
    BY <2>1, RoomToOpen
  <2>3. PICK p \in Pages : p = "home"
    BY DEF Pages
  <2>4. PushReplacement(stack, p)
    BY <2>1, <2>3
  <2>5. /\ stack' \in Seq(Routes) /\ opened' \in 1..MaxRoutes
        /\ Len(stack) \in Nat \ {0} /\ Opened(Len(stack) - 1, p)
    BY <2>1, <2>2, <2>4, Replaced
  <2> QED BY <1>3, <2>1, <2>3, <2>5
<1>4. CASE SignOut
  <2>1. Room /\ stack # << >> /\ Last(stack).page = "dialog" /\ PushReplacement(Front(stack), "login")
    BY <1>4 DEF SignOut, OnTop
  <2>2. opened < MaxRoutes
    BY <2>1, RoomToOpen
  <2>3. Len(stack) > 1
    <3>1. Len(stack) \in Nat \ {0} /\ Last(stack) = stack[Len(stack)]
      BY <1>0, <2>1, FrontType
    <3>2. Len(stack) # 1
      BY <2>1, <3>1 DEF Bottom
    <3>3. \A n \in Nat \ {0} : n # 1 => n > 1
      OBVIOUS
    <3> QED BY <3>1, <3>2, <3>3
  <2>4. PICK s \in Seq(Routes) : s = Front(stack)
    BY <1>0, <2>1, FrontType
  <2>5. Len(s) = Len(stack) - 1 /\ \A n \in 1..(Len(stack) - 1) : s[n] = stack[n]
    BY <1>0, <2>1, <2>4, FrontType
  <2>6. s # << >>
    BY <1>0, <2>3, <2>5
  <2>7. PICK q \in Seq(Routes) : q = Front(s)
    BY <2>6, FrontType
  <2>8. PICK k \in 0..Len(stack) : k = Len(stack) - 2
    <3>1. Len(stack) - 2 \in 0..Len(stack)
      BY <1>00, <2>3
    <3> QED BY <3>1
  <2>9. Len(q) = k /\ \A n \in 1..k : q[n] = stack[n]
    <3>1. Len(q) = Len(s) - 1 /\ \A n \in 1..(Len(s) - 1) : q[n] = s[n]
      BY <2>6, <2>7, FrontType
    <3> QED BY <1>0, <2>5, <2>8, <3>1
  <2>10. PICK p \in Pages : p = "login"
    BY DEF Pages
  <2>11. Push(q, p)
    BY <2>1, <2>4, <2>7, <2>10 DEF PushReplacement
  <2>12. stack' \in Seq(Routes) /\ opened' \in 1..MaxRoutes /\ Opened(k, p)
    BY <2>2, <2>9, <2>11, Pushed
  <2> QED BY <1>0, <1>4, <2>1, <2>3, <2>8, <2>10, <2>12
<1> QED BY <1>1, <1>2, <1>3, <1>4 DEF UserStep

\* The user's taps keep the types.
LEMMA UserTypes ==
  ASSUME Types, UserStep
  PROVE  Types'
<1>0. TypeOK /\ Bottom
  BY DEF Types
<1>1. /\ handler \in [Taps -> Handlers] /\ accounts \in Seq(Texts) /\ opened \in Nat
      /\ user \in {"default", "guest"} /\ overlay \in BOOLEAN /\ saved \subseteq Texts
      /\ entered \in {"none", "email", "guest"} /\ reasons \subseteq {"signed out", "edited"}
      /\ disturbed \subseteq Taps /\ stray \subseteq Taps
  BY <1>0, TypeFacts
<1>2. /\ UNCHANGED <<accounts, handler, saved, stray>>
      /\ user' \in {user, "guest"}
      /\ entered' \in {entered, "guest", "email"}
      /\ reasons' \in {reasons, reasons \cup {"signed out"}}
      /\ disturbed' = disturbed \cup {t \in Taps : Running(t)}
  BY DEF UserStep, OpenPage, Back, EnterAsGuest, Register, SignOut, OnlyPages, Meanwhile
<1>3. overlay' \in BOOLEAN
  BY <1>1 DEF UserStep, OpenPage, Back, EnterAsGuest, Register, SignOut, OnlyPages
<1>4. stack' \in Seq(Routes) /\ opened' \in 1..MaxRoutes
  BY <1>0, UserShape
<1>5. TypeOK'
  <2>1. /\ user' \in {"default", "guest"} /\ entered' \in {"none", "email", "guest"}
        /\ reasons' \subseteq {"signed out", "edited"} /\ disturbed' \subseteq Taps
    BY <1>1, <1>2
  <2> QED BY <1>1, <1>2, <1>3, <1>4, <2>1, Typed
<1>6. Bottom'
  <2>1. Len(stack) \in Nat \ {0}
    BY <1>0, UserShape
  <2>2. \E k, p : Kept(k) \/ (Opened(k, p) /\ (k # 0 \/ p \in {"login", "home"}))
    BY <1>0, <2>1, UserShape
  <2> QED BY <1>0, <1>4, <2>2, BottomKept
<1>7. RoomLeft'
  <2>1. Runners' = Runners
    BY <1>2, SameRunners
  <2>2. opened' = opened \/ (opened' = opened + 1 /\ Room)
    BY <1>0, UserShape DEF Kept, Opened
  <2>3. CASE opened' = opened
    BY <2>1, <2>3 DEF Types, RoomLeft
  <2>4. CASE opened' = opened + 1 /\ Room
    BY <1>0, <2>1, <2>4, RoomToOpen DEF RoomLeft
  <2> QED BY <2>2, <2>3, <2>4
<1> QED BY <1>5, <1>6, <1>7 DEF Types

\* What a handler's own steps leave as it is.
SameTap(t) ==
  /\ handler'[t].form = handler[t].form /\ handler'[t].route = handler[t].route
  /\ handler'[t].text = handler[t].text

\* Only the handler t changes, in what it awaits and in what it told.
LEMMA HandlerMoves ==
  ASSUME TypeOK, NEW t \in Taps,
         NEW a \in {"preferences", "stored", "nothing"},
         NEW m \in {"nothing", "done", "mismatch", "failed", "not stored", "exception"},
         \/ handler' = [handler EXCEPT ![t].awaits = a, ![t].told = m]
         \/ handler' = [handler EXCEPT ![t].awaits = a] /\ m = handler[t].told
  PROVE  /\ handler' \in [Taps -> Handlers] /\ SameTap(t)
         /\ handler'[t].awaits = a /\ handler'[t].told = m
         /\ \A u \in Taps \ {t} : handler'[u] = handler[u]
<1>1. handler \in [Taps -> Handlers]
  BY TypeFacts
<1>2. PICK h \in Handlers : h = handler[t]
  BY <1>1
<1>3. PICK q : q = [h EXCEPT !.awaits = a, !.told = m]
  OBVIOUS
<1>4. q \in Handlers /\ q.awaits = a /\ q.told = m
      /\ q.form = h.form /\ q.route = h.route /\ q.text = h.text
  BY <1>3 DEF Handlers
<1>5. [h EXCEPT !.awaits = a] = [h EXCEPT !.awaits = a, !.told = h.told]
  BY DEF Handlers
<1>6. handler' = [handler EXCEPT ![t] = q]
  BY <1>1, <1>2, <1>3, <1>5
<1> QED BY <1>1, <1>2, <1>4, <1>6 DEF SameTap

\* A handler goes on.
LEMMA Awaits ==
  ASSUME TypeOK, NEW t \in Taps, NEW a \in {"preferences", "stored"}, Await(t, a)
  PROVE  /\ handler' \in [Taps -> Handlers] /\ SameTap(t)
         /\ handler'[t].awaits = a /\ handler'[t].told = handler[t].told
         /\ \A u \in Taps \ {t} : handler'[u] = handler[u]
         /\ UNCHANGED <<opened, user, overlay, entered, disturbed>>
<1>1. PICK m \in {"nothing", "done", "mismatch", "failed", "not stored", "exception"} :
        m = handler[t].told
  BY TypeFacts DEF Handlers
<1>2. handler' = [handler EXCEPT ![t].awaits = a]
      /\ UNCHANGED <<opened, user, overlay, entered, disturbed>>
  BY DEF Await
<1> QED BY <1>1, <1>2, HandlerMoves

\* A handler ends.
LEMMA Ends ==
  ASSUME TypeOK, NEW t \in Taps, NEW o,
         NEW m \in {"nothing", "done", "mismatch", "failed", "not stored", "exception"},
         End(t, m, o)
  PROVE  /\ handler' \in [Taps -> Handlers] /\ SameTap(t)
         /\ handler'[t].awaits = "nothing" /\ handler'[t].told = m
         /\ \A u \in Taps \ {t} : handler'[u] = handler[u]
         /\ UNCHANGED <<user, accounts, saved, disturbed>>
<1>1. handler' = [handler EXCEPT ![t].awaits = "nothing", ![t].told = m]
      /\ UNCHANGED <<user, accounts, saved, disturbed>>
  BY DEF End
<1>2. PICK a \in {"preferences", "stored", "nothing"} : a = "nothing"
  OBVIOUS
<1>3. handler' = [handler EXCEPT ![t].awaits = a, ![t].told = m]
  BY <1>1, <1>2
<1> QED BY <1>1, <1>2, <1>3, HandlerMoves

\* How the handler t ends: what the user was told, and whether a page is popped
\* or replaced.
EndsSo(t) ==
  /\ handler'[t].awaits = "nothing" /\ UNCHANGED <<accounts, saved>>
  /\ \/ /\ UNCHANGED <<stack, opened, stray, entered, reasons>>
        /\ handler[t].form \in {"login", "form"} /\ handler'[t].told = "failed"
             => ~OnStack(handler[t].route)
     \/ /\ ActOnTop(t) /\ Kept(Len(stack) - 1) /\ UNCHANGED <<entered, reasons>>
        /\ handler[t].form \in {"form", "reset"} /\ handler'[t].told = "done"
     \/ /\ ActOnTop(t) /\ Opened(Len(stack) - 1, "home") /\ UNCHANGED reasons
        /\ handler[t].awaits = "stored" /\ entered' = "email" /\ handler'[t].told = "done"
     \/ /\ ActOnTop(t) /\ Opened(Len(stack) - 1, "login") /\ UNCHANGED entered
        /\ reasons' = reasons \cup {"signed out"}
        /\ handler[t].form = "signout" /\ handler'[t].told = "done"

\* How the handler t of the login page goes on.
GoesOn(t) ==
  /\ stack' \in Seq(Routes) /\ Kept(Len(stack)) /\ UNCHANGED <<stray, entered, reasons>>
  /\ handler'[t].told = handler[t].told
  /\ \/ /\ handler[t].form = "login" /\ handler[t].awaits = "overlay"
        /\ handler'[t].awaits = "preferences" /\ UNCHANGED <<accounts, saved>>
     \/ /\ handler[t].awaits = "preferences" /\ handler'[t].awaits = "stored"
        /\ accounts' = IF Contains(accounts, handler[t].text) THEN accounts
                       ELSE Append(accounts, handler[t].text)
        /\ saved' = saved \cup {handler[t].text}

\* A handler that runs may open a route.
LEMMA RunnerHasRoom ==
  ASSUME TypeOK, RoomLeft, NEW t \in Taps, Running(t)
  PROVE  opened < MaxRoutes
<1>1. IsFiniteSet(Runners) /\ t \in Runners
  BY RunnersFinite DEF Runners
<1>2. Cardinality(Runners) \in Nat /\ Cardinality(Runners) # 0
  BY <1>1, FS_CardinalityType, FS_EmptySet
<1>3. opened \in Nat /\ MaxRoutes \in Nat
  BY TypeFacts, RoutesAssumption
<1> QED BY <1>2, <1>3 DEF RoomLeft

\* The stack and its length.
LEMMA StackType ==
  ASSUME TypeOK
  PROVE  stack \in Seq(Routes) /\ Len(stack) \in Nat /\ DOMAIN stack = 1..Len(stack)
         /\ (stack # << >> <=> Len(stack) # 0)
<1>1. stack \in Seq(Routes)
  BY TypeFacts
<1> QED BY <1>1

\* The address is saved.
LEMMA SaveShape ==
  ASSUME TypeOK, NEW t \in Taps, SaveEmail(t)
  PROVE  /\ GoesOn(t) /\ accounts' \in Seq(Texts) /\ saved' \subseteq Texts
         /\ handler' \in [Taps -> Handlers] /\ SameTap(t)
         /\ \A u \in Taps \ {t} : handler'[u] = handler[u]
         /\ UNCHANGED <<opened, user, overlay, disturbed>>
<1>0. /\ accounts \in Seq(Texts) /\ saved \subseteq Texts /\ handler \in [Taps -> Handlers]
      /\ opened \in Nat
  BY TypeFacts
<1>1. stack \in Seq(Routes) /\ Len(stack) \in Nat /\ DOMAIN stack = 1..Len(stack)
  BY StackType
<1>2. PICK e \in Texts : e = handler[t].text
  BY <1>0 DEF Handlers
<1>3. /\ handler[t].awaits = "preferences"
      /\ accounts' = IF Contains(accounts, e) THEN accounts ELSE Append(accounts, e)
      /\ saved' = saved \cup {e} /\ Await(t, "stored") /\ UNCHANGED <<reasons, stray>>
      /\ stack' = [n \in DOMAIN stack |->
           IF stack[n].id = handler[t].route THEN [stack[n] EXCEPT !.suggestons = accounts']
           ELSE stack[n]]
  BY <1>2 DEF SaveEmail
<1>4. accounts' \in Seq(Texts) /\ saved' \subseteq Texts
  BY <1>0, <1>3
<1>5. \A n \in 1..Len(stack) : /\ stack'[n] \in Routes
                               /\ stack'[n].id = stack[n].id /\ stack'[n].page = stack[n].page
  <2> TAKE n \in 1..Len(stack)
  <2>1. PICK r \in Routes : r = stack[n]
    BY <1>1
  <2>2. PICK q : q = [r EXCEPT !.suggestons = accounts']
    OBVIOUS
  <2>3. q \in Routes /\ q.id = r.id /\ q.page = r.page
    BY <1>4, <2>2 DEF Routes
  <2>4. stack'[n] = q \/ stack'[n] = r
    BY <1>1, <1>3, <2>1, <2>2
  <2> QED BY <2>1, <2>3, <2>4
<1>6. stack' \in Seq(Routes) /\ Len(stack') = Len(stack)
  BY <1>1, <1>3, <1>5
<1>7. PICK a \in {"preferences", "stored"} : a = "stored" /\ Await(t, a)
  BY <1>3
<1>8. /\ handler' \in [Taps -> Handlers] /\ SameTap(t)
      /\ handler'[t].awaits = "stored" /\ handler'[t].told = handler[t].told
      /\ \A u \in Taps \ {t} : handler'[u] = handler[u]
      /\ UNCHANGED <<opened, user, overlay, entered, disturbed>>
  BY <1>7, Awaits
<1>9. Kept(Len(stack))
  BY <1>1, <1>5, <1>6, <1>8 DEF Kept, Keeps
<1> QED BY <1>2, <1>3, <1>4, <1>6, <1>8, <1>9 DEF GoesOn

\* What a step of a handler does.
LEMMA HandlerShape ==
  ASSUME TypeOK, RoomLeft, NEW t \in Taps, HandlerStep(t)
  PROVE  /\ Running(t) /\ stack' \in Seq(Routes) /\ opened' \in 1..MaxRoutes
         /\ handler' \in [Taps -> Handlers] /\ SameTap(t)
         /\ \A u \in Taps \ {t} : handler'[u] = handler[u]
         /\ UNCHANGED <<user, disturbed>>
         /\ accounts' \in Seq(Texts) /\ saved' \subseteq Texts
         /\ GoesOn(t) \/ EndsSo(t)
<1> DEFINE Goal == /\ Running(t) /\ stack' \in Seq(Routes) /\ opened' \in 1..MaxRoutes
                   /\ handler' \in [Taps -> Handlers] /\ SameTap(t)
                   /\ \A u \in Taps \ {t} : handler'[u] = handler[u]
                   /\ UNCHANGED <<user, disturbed>>
                   /\ accounts' \in Seq(Texts) /\ saved' \subseteq Texts
                   /\ GoesOn(t) \/ EndsSo(t)
<1>0. /\ stack \in Seq(Routes) /\ Len(stack) \in Nat /\ opened \in 1..MaxRoutes
      /\ accounts \in Seq(Texts) /\ saved \subseteq Texts /\ opened \in Nat
  BY StackType, TypeFacts
<1>1. CASE LoginShown(t)
  <2>1. /\ handler[t].form = "login" /\ handler[t].awaits = "overlay" /\ Await(t, "preferences")
        /\ UNCHANGED <<stack, accounts, saved, reasons, stray>>
    BY <1>1 DEF LoginShown
  <2>2. PICK a \in {"preferences", "stored"} : a = "preferences" /\ Await(t, a)
    BY <2>1
  <2>3. /\ handler' \in [Taps -> Handlers] /\ SameTap(t)
        /\ handler'[t].awaits = "preferences" /\ handler'[t].told = handler[t].told
        /\ \A u \in Taps \ {t} : handler'[u] = handler[u]
        /\ UNCHANGED <<opened, user, overlay, entered, disturbed>>
    BY <2>2, Awaits
  <2>4. Kept(Len(stack))
    BY <1>0, <2>1, <2>3 DEF Kept, Keeps
  <2> QED BY <1>0, <2>1, <2>3, <2>4 DEF GoesOn, Running
<1>2. CASE SaveEmail(t)
  <2>1. handler[t].awaits = "preferences"
    BY <1>2 DEF SaveEmail
  <2> QED BY <1>0, <1>2, <2>1, SaveShape DEF GoesOn, Running
<1>3. ASSUME NEW m \in {"nothing", "done", "mismatch", "failed", "not stored", "exception"}, NEW o,
             End(t, m, o), UNCHANGED <<stack, opened, entered, reasons, stray>>, Running(t),
             handler[t].form \in {"login", "form"} /\ m = "failed" => ~OnStack(handler[t].route)
      PROVE  Goal
  <2>1. /\ handler' \in [Taps -> Handlers] /\ SameTap(t)
        /\ handler'[t].awaits = "nothing" /\ handler'[t].told = m
        /\ \A u \in Taps \ {t} : handler'[u] = handler[u]
        /\ UNCHANGED <<user, accounts, saved, disturbed>>
    BY <1>3, Ends
  <2> QED BY <1>0, <1>3, <2>1 DEF EndsSo
<1>4. ASSUME NEW o, End(t, "done", o), Running(t), ActOnTop(t), stack' = Front(stack),
             UNCHANGED <<opened, entered, reasons>>, handler[t].form \in {"form", "reset"}
      PROVE  Goal
  <2>1. PICK m \in {"nothing", "done", "mismatch", "failed", "not stored", "exception"} : m = "done"
    OBVIOUS
  <2>2. /\ handler' \in [Taps -> Handlers] /\ SameTap(t)
        /\ handler'[t].awaits = "nothing" /\ handler'[t].told = "done"
        /\ \A u \in Taps \ {t} : handler'[u] = handler[u]
        /\ UNCHANGED <<user, accounts, saved, disturbed>>
    BY <1>4, <2>1, Ends
  <2>3. stack # << >>
    BY <1>4 DEF ActOnTop
  <2>4. stack' \in Seq(Routes) /\ opened' \in 1..MaxRoutes /\ Kept(Len(stack) - 1)
    BY <1>4, <2>3, Popped
  <2> QED BY <1>0, <1>4, <2>2, <2>4 DEF EndsSo
<1>5. ASSUME NEW o, End(t, "done", o), Running(t), ActOnTop(t), NEW p \in {"home", "login"},
             PushReplacement(stack, p)
      PROVE  /\ stack' \in Seq(Routes) /\ opened' \in 1..MaxRoutes
             /\ handler' \in [Taps -> Handlers] /\ SameTap(t)
             /\ handler'[t].awaits = "nothing" /\ handler'[t].told = "done"
             /\ \A u \in Taps \ {t} : handler'[u] = handler[u]
             /\ UNCHANGED <<user, accounts, saved, disturbed>>
             /\ Opened(Len(stack) - 1, p)
  <2>1. PICK m \in {"nothing", "done", "mismatch", "failed", "not stored", "exception"} : m = "done"
    OBVIOUS
  <2>2. /\ handler' \in [Taps -> Handlers] /\ SameTap(t)
        /\ handler'[t].awaits = "nothing" /\ handler'[t].told = "done"
        /\ \A u \in Taps \ {t} : handler'[u] = handler[u]
        /\ UNCHANGED <<user, accounts, saved, disturbed>>
    BY <1>5, <2>1, Ends
  <2>3. stack # << >> /\ p \in Pages
    BY <1>5 DEF ActOnTop, Pages
  <2>4. opened < MaxRoutes
    BY <1>5, RunnerHasRoom
  <2>5. stack' \in Seq(Routes) /\ opened' \in 1..MaxRoutes /\ Opened(Len(stack) - 1, p)
    BY <1>5, <2>3, <2>4, Replaced
  <2> QED BY <2>2, <2>5
<1>6. CASE LoginEnds(t)
  <2>1. /\ handler[t].awaits = "stored" /\ ActOnTop(t) /\ PushReplacement(stack, "home")
        /\ entered' = "email" /\ UNCHANGED reasons /\ \E o : End(t, "done", o)
    BY <1>6 DEF LoginEnds
  <2>2. Running(t)
    BY <2>1 DEF Running
  <2>3. PICK p \in {"home", "login"} : p = "home"
    OBVIOUS
  <2>4. PushReplacement(stack, p)
    BY <2>1, <2>3
  <2> QED BY <1>0, <1>5, <2>1, <2>2, <2>3, <2>4 DEF EndsSo
<1>7. CASE SignOutEnds(t)
  <2>1. Running(t) /\ handler[t].form = "signout" /\ UNCHANGED entered
    BY <1>7 DEF SignOutEnds, Running
  <2>2. CASE /\ ActOnTop(t) /\ PushReplacement(stack, "login")
             /\ reasons' = reasons \cup {"signed out"} /\ \E o : End(t, "done", o)
    <3>1. PICK p \in {"home", "login"} : p = "login"
      OBVIOUS
    <3>2. PushReplacement(stack, p)
      BY <2>2, <3>1
    <3> QED BY <1>0, <1>5, <2>1, <2>2, <3>1, <3>2 DEF EndsSo
  <2>3. CASE (\E o : End(t, "exception", o)) /\ UNCHANGED <<stack, opened, reasons, stray>>
    BY <1>3, <2>1, <2>3
  <2> QED BY <1>7, <2>2, <2>3 DEF SignOutEnds
<1>8. CASE FormEnds(t)
  <2>1. /\ Running(t) /\ handler[t].form = "form" /\ ActOnTop(t) /\ stack' = Front(stack)
        /\ UNCHANGED <<opened, entered, reasons>> /\ \E o : End(t, "done", o)
    BY <1>8 DEF FormEnds, Running
  <2> QED BY <1>4, <2>1
<1>9. CASE FormMismatch(t)
  <2>1. /\ Running(t) /\ UNCHANGED <<stack, opened, entered, reasons, stray>>
        /\ \E o : End(t, "mismatch", o)
    BY <1>9 DEF FormMismatch, Running
  <2> QED BY <1>3, <2>1
<1>10. CASE FailsWhenLeft(t)
  <2>1. /\ Running(t) /\ UNCHANGED <<stack, opened, entered, reasons, stray>>
        /\ \E o : End(t, "failed", o)
        /\ ~OnStack(handler[t].route)
    BY <1>10 DEF FailsWhenLeft, Running, ContextMayBeGone
  <2> QED BY <1>3, <2>1
<1>11. CASE StoreFails(t)
  <2>1. /\ Running(t) /\ UNCHANGED <<stack, opened, entered, reasons, stray>>
        /\ \E o : End(t, "not stored", o)
    BY <1>11 DEF StoreFails, Running
  <2> QED BY <1>3, <2>1
<1>12. CASE ResetEnds(t)
  <2>1. Running(t) /\ handler[t].form = "reset" /\ UNCHANGED <<opened, entered, reasons>>
    BY <1>12 DEF ResetEnds, Running
  <2>2. CASE ActOnTop(t) /\ stack' = Front(stack) /\ \E o : End(t, "done", o)
    BY <1>4, <2>1, <2>2
  <2>3. CASE UNCHANGED <<stack, stray>> /\ \E o : End(t, "nothing", o)
    BY <1>3, <2>1, <2>3
  <2> QED BY <1>12, <2>2, <2>3 DEF ResetEnds
<1>13. CASE ResetFails(t)
  <2>1. /\ Running(t) /\ handler[t].form = "reset"
        /\ UNCHANGED <<stack, opened, entered, reasons, stray>>
        /\ \E m \in {"nothing", "done", "mismatch", "failed", "not stored", "exception"} :
             \E o : End(t, m, o)
    BY <1>13 DEF ResetFails, Running
  <2> QED BY <1>3, <2>1
<1> QED BY <1>1, <1>2, <1>6, <1>7, <1>8, <1>9, <1>10, <1>11, <1>12, <1>13 DEF HandlerStep

\* The steps of handlers keep the types.
LEMMA HandlerTypes ==
  ASSUME Types, NEW t \in Taps, HandlerStep(t)
  PROVE  Types'
<1>0. TypeOK /\ RoomLeft /\ Bottom
  BY DEF Types
<1>1. /\ Running(t) /\ stack' \in Seq(Routes) /\ opened' \in 1..MaxRoutes
      /\ handler' \in [Taps -> Handlers] /\ SameTap(t)
      /\ \A u \in Taps \ {t} : handler'[u] = handler[u]
      /\ UNCHANGED <<user, disturbed>>
      /\ accounts' \in Seq(Texts) /\ saved' \subseteq Texts
      /\ GoesOn(t) \/ EndsSo(t)
  BY <1>0, HandlerShape
<1>2. /\ user \in {"default", "guest"} /\ overlay \in BOOLEAN /\ opened \in Nat
      /\ entered \in {"none", "email", "guest"} /\ reasons \subseteq {"signed out", "edited"}
      /\ disturbed \subseteq Taps /\ stray \subseteq Taps /\ Len(stack) \in Nat
  BY <1>0, TypeFacts, StackType
<1>3. overlay' \in BOOLEAN
  BY <1>2 DEF HandlerStep, LoginShown, SaveEmail, Await, LoginEnds, FormEnds, FormMismatch,
              FailsWhenLeft, StoreFails, ResetEnds, ResetFails, SignOutEnds, End
<1>4. /\ entered' \in {"none", "email", "guest"} /\ reasons' \subseteq {"signed out", "edited"}
      /\ stray' \subseteq Taps
  BY <1>1, <1>2 DEF GoesOn, EndsSo, ActOnTop
<1>5. TypeOK'
  BY <1>1, <1>2, <1>3, <1>4, Typed
<1>6. \E k, p : Kept(k) \/ (Opened(k, p) /\ (k # 0 \/ p \in {"login", "home"}))
  <2>1. CASE EndsSo(t) /\ UNCHANGED <<stack, opened>>
    <3>0. stack' = stack /\ opened' = opened
      BY <2>1
    <3>1. Kept(Len(stack))
      BY <1>0, <3>0, Unmoved
    <3> QED BY <3>1
  <2> QED BY <1>1, <2>1 DEF GoesOn, EndsSo
<1>7. Bottom'
  BY <1>0, <1>1, <1>6, BottomKept
<1>8. RoomLeft'
  <2>1. IsFiniteSet(Runners) /\ Cardinality(Runners) \in Nat /\ t \in Runners
    BY <1>1, RunnersFinite DEF Runners
  <2>2. CASE GoesOn(t)
    <3>1. handler[t].awaits \in {"overlay", "preferences"} /\ handler'[t].awaits \in {"preferences", "stored"}
      BY <2>2 DEF GoesOn
    <3>2. \A u \in Taps : Running(u)' <=> Running(u)
      BY <1>1, <3>1 DEF Running
    <3>3. Runners' = Runners
      BY <3>2 DEF Runners
    <3> QED BY <1>0, <2>2, <3>3 DEF RoomLeft, GoesOn, Kept
  <2>3. CASE EndsSo(t)
    <3>1. Runners' = Runners \ {t}
      BY <1>1, <2>3 DEF Runners, Running, EndsSo
    <3>2. Cardinality(Runners') = Cardinality(Runners) - 1
      BY <2>1, <3>1, FS_RemoveElement
    <3>3. opened' = opened \/ opened' = opened + 1
      BY <2>3 DEF EndsSo, Kept, Opened
    <3>4. MaxRoutes \in Nat
      BY RoutesAssumption
    <3>5. PICK c \in Nat, d \in Nat : c = Cardinality(Runners) /\ d = opened /\ d + c <= MaxRoutes
      BY <1>0, <1>2, <2>1 DEF RoomLeft
    <3>6. opened' + (c - 1) <= MaxRoutes
      BY <3>3, <3>4, <3>5
    <3>7. Cardinality(Runners') = c - 1
      BY <3>2, <3>5
    <3> QED BY <3>6, <3>7 DEF RoomLeft
  <2> QED BY <1>1, <2>2, <2>3
<1> QED BY <1>5, <1>7, <1>8 DEF Types

\* A handler begins for the route r; s are the routes under it.
LEMMA Begins ==
  ASSUME TypeOK, NEW t \in Taps, NEW f \in {"login", "form", "reset", "signout"},
         NEW r \in Routes, NEW a \in {"overlay", "firebase"}, Begin(t, f, r, a)
  PROVE  /\ Room /\ handler[t] = Unused /\ handler' \in [Taps -> Handlers]
         /\ handler'[t].form = f /\ handler'[t].route = r.id /\ handler'[t].text = r.text
         /\ handler'[t].awaits = a /\ handler'[t].told = "nothing"
         /\ \A u \in Taps \ {t} : handler'[u] = handler[u]
         /\ disturbed' = disturbed \cup Runners \cup (IF Runners = {} THEN {} ELSE {t})
         /\ UNCHANGED <<opened, user, accounts, saved, entered, reasons, stray>>
         /\ overlay' \in BOOLEAN
<1>0. handler \in [Taps -> Handlers] /\ overlay \in BOOLEAN
  BY TypeFacts
<1>1. PICK q : q = [Unused EXCEPT !.form = f, !.route = r.id, !.text = r.text, !.awaits = a]
  OBVIOUS
<1>2. r.id \in 0..MaxRoutes /\ r.text \in Texts
  BY RoutesAssumption DEF Routes
<1>3. /\ q \in Handlers /\ q.form = f /\ q.route = r.id /\ q.text = r.text /\ q.awaits = a
      /\ q.told = "nothing"
  BY <1>1, <1>2 DEF Unused, Handlers
<1>4. /\ Room /\ handler[t] = Unused /\ handler' = [handler EXCEPT ![t] = q]
      /\ disturbed' = disturbed \cup Runners \cup (IF Runners = {} THEN {} ELSE {t})
      /\ UNCHANGED <<opened, user, accounts, saved, entered, reasons, stray>>
  BY <1>1 DEF Begin, Runners
<1>5. overlay' \in BOOLEAN
  BY <1>0 DEF Begin
<1> QED BY <1>0, <1>3, <1>4, <1>5

\* A tap that begins a handler: for the form or login page on top, or for the
\* page under the dialog.
LEMMA TapShape ==
  ASSUME TypeOK, Bottom, NEW t \in Taps, TapForm(t) \/ TapSignOut(t)
  PROVE  /\ stack' \in Seq(Routes) /\ stack' # << >> /\ UNCHANGED opened
         /\ \E k \in Nat : Kept(k) /\ (k = Len(stack) \/ TapSignOut(t))
         /\ \E f \in {"login", "form", "reset", "signout"}, a \in {"overlay", "firebase"}, r \in Routes :
              /\ Begin(t, f, r, a) /\ r = stack'[Len(stack')]
              /\ f # "signout" => r.page = f
              /\ f = "login" => r.text \in Emails /\ a = "overlay"
<1>0. stack \in Seq(Routes) /\ Len(stack) \in Nat
  BY StackType
<1>1. CASE TapForm(t)
  <2>1. stack # << >> /\ UNCHANGED <<stack, opened>>
    BY <1>1 DEF TapForm, OnTop, Begin
  <2>2. PICK r \in Routes : r = Last(stack) /\ r = stack[Len(stack)]
    BY <1>0, <2>1, FrontType
  <2>3. Kept(Len(stack))
    BY <1>0, <2>1 DEF Kept, Keeps
  <2>4. \E f \in {"login", "form", "reset", "signout"}, a \in {"overlay", "firebase"} :
              /\ Begin(t, f, r, a) /\ (f # "signout" => r.page = f)
              /\ f = "login" => r.text \in Emails /\ a = "overlay"
    <3>1. CASE OnTop("login") /\ Last(stack).text \in Emails /\ Begin(t, "login", Last(stack), "overlay")
      BY <2>2, <3>1 DEF OnTop
    <3>2. CASE OnTop("form") /\ Begin(t, "form", Last(stack), "overlay")
      BY <2>2, <3>2 DEF OnTop
    <3>3. CASE OnTop("reset") /\ Begin(t, "reset", Last(stack), "firebase")
      BY <2>2, <3>3 DEF OnTop
    <3> QED BY <1>1, <3>1, <3>2, <3>3 DEF TapForm
  <2>5. PICK f \in {"login", "form", "reset", "signout"}, a \in {"overlay", "firebase"} :
              /\ Begin(t, f, r, a) /\ (f # "signout" => r.page = f)
              /\ f = "login" => r.text \in Emails /\ a = "overlay"
    BY <2>4
  <2>6. stack' \in Seq(Routes) /\ stack' # << >> /\ r = stack'[Len(stack')] /\ UNCHANGED opened
    BY <1>0, <2>1, <2>2
  <2>7. \E k \in Nat : Kept(k) /\ (k = Len(stack) \/ TapSignOut(t))
    BY <1>0, <2>3
  <2> QED BY <2>5, <2>6, <2>7
<1>2. CASE TapSignOut(t)
  <2>1. /\ stack # << >> /\ Last(stack).page = "dialog" /\ stack' = Front(stack)
        /\ Begin(t, "signout", Last(stack'), "firebase")
    BY <1>2 DEF TapSignOut, OnTop
  <2>2. UNCHANGED opened
    BY <2>1 DEF Begin
  <2>3. /\ stack' \in Seq(Routes) /\ Kept(Len(stack) - 1)
    BY <2>1, <2>2, Popped
  <2>4. Len(stack) \in Nat \ {0} /\ Last(stack) = stack[Len(stack)]
    BY <1>0, <2>1, FrontType
  <2>5. Len(stack) # 1
    BY <2>1, <2>4 DEF Bottom
  <2>6. Len(stack') \in Nat \ {0}
    BY <2>3, <2>4, <2>5 DEF Kept
  <2>7. stack' # << >>
    BY <2>6
  <2>8. PICK s \in Seq(Routes) : s = stack'
    BY <2>3
  <2>9. PICK r \in Routes : r = Last(s) /\ r = s[Len(s)]
    BY <2>7, <2>8, FrontType
  <2>10. Begin(t, "signout", r, "firebase")
    BY <2>1, <2>8, <2>9
  <2>11. \E k \in Nat : Kept(k)
    BY <2>3, <2>4
  <2> QED BY <1>2, <2>2, <2>3, <2>7, <2>8, <2>9, <2>10, <2>11
<1> QED BY <1>1, <1>2

\* A tap that begins a handler keeps the types.
LEMMA TapTypes ==
  ASSUME Types, NEW t \in Taps, TapForm(t) \/ TapSignOut(t)
  PROVE  Types'
<1>0. TypeOK /\ RoomLeft /\ Bottom
  BY DEF Types
<1>1. /\ stack' \in Seq(Routes) /\ UNCHANGED opened /\ \E k : Kept(k)
      /\ \E f \in {"login", "form", "reset", "signout"}, a \in {"overlay", "firebase"}, r \in Routes :
           Begin(t, f, r, a)
  BY <1>0, TapShape
<1>2. PICK f \in {"login", "form", "reset", "signout"}, a \in {"overlay", "firebase"}, r \in Routes :
        Begin(t, f, r, a)
  BY <1>1
<1>3. /\ Room /\ handler[t] = Unused /\ handler' \in [Taps -> Handlers]
      /\ handler'[t].awaits = a
      /\ \A u \in Taps \ {t} : handler'[u] = handler[u]
      /\ disturbed' = disturbed \cup Runners \cup (IF Runners = {} THEN {} ELSE {t})
      /\ UNCHANGED <<opened, user, accounts, saved, entered, reasons, stray>>
      /\ overlay' \in BOOLEAN
  BY <1>0, <1>2, Begins
<1>4. /\ user \in {"default", "guest"} /\ opened \in 1..MaxRoutes /\ opened \in Nat
      /\ entered \in {"none", "email", "guest"} /\ reasons \subseteq {"signed out", "edited"}
      /\ disturbed \subseteq Taps /\ stray \subseteq Taps
      /\ accounts \in Seq(Texts) /\ saved \subseteq Texts
  BY <1>0, TypeFacts
<1>5. disturbed' \subseteq Taps
  BY <1>3, <1>4 DEF Runners
<1>6. TypeOK'
  BY <1>1, <1>3, <1>4, <1>5, Typed
<1>7. Bottom'
  BY <1>0, <1>1, BottomKept
<1>8. RoomLeft'
  <2>1. t \notin Runners /\ Runners' = Runners \cup {t}
    BY <1>3 DEF Runners, Running, Unused
  <2>2. IsFiniteSet(Runners) /\ Cardinality(Runners) \in Nat
    BY RunnersFinite
  <2>3. Cardinality(Runners') = Cardinality(Runners) + 1
    BY <2>1, <2>2, FS_AddElement
  <2>4. opened + 1 + Cardinality(Runners) <= MaxRoutes
    BY <1>0, <1>3, RoomToOpen
  <2>5. PICK c \in Nat, d \in Nat : c = Cardinality(Runners) /\ d = opened /\ d + 1 + c <= MaxRoutes
    BY <1>4, <2>2, <2>4
  <2>6. Cardinality(Runners') = c + 1 /\ opened' = d /\ MaxRoutes \in Nat
    BY <1>3, <2>3, <2>5, RoutesAssumption
  <2>7. d + (c + 1) <= MaxRoutes
    BY <2>5, <2>6
  <2> QED BY <2>6, <2>7 DEF RoomLeft
<1> QED BY <1>6, <1>7, <1>8 DEF Types

\* One route changes, but not which one it is and what page it shows.
LEMMA RouteChanges ==
  ASSUME TypeOK, NEW n \in 1..Len(stack), NEW q \in Routes, q.id = stack[n].id,
         q.page = stack[n].page, stack' = [stack EXCEPT ![n] = q], opened' = opened
  PROVE  stack' \in Seq(Routes) /\ Kept(Len(stack))
<1>1. stack \in Seq(Routes) /\ Len(stack) \in Nat
  BY StackType
<1>2. stack' \in Seq(Routes) /\ Len(stack') = Len(stack)
  BY <1>1
<1>3. \A m \in 1..Len(stack) : stack'[m].id = stack[m].id /\ stack'[m].page = stack[m].page
  BY <1>1
<1>4. Len(stack) \in 0..Len(stack)
  BY <1>1
<1> QED BY <1>2, <1>3, <1>4 DEF Kept, Keeps

\* The suggestions of a login page are loaded.
LEMMA LoadShape ==
  ASSUME TypeOK, LoadSuggestons
  PROVE  /\ stack' \in Seq(Routes) /\ Kept(Len(stack))
         /\ UNCHANGED <<opened, user, accounts, handler, overlay, saved, entered, reasons,
                        disturbed, stray>>
<1>1. /\ stack \in Seq(Routes) /\ Len(stack) \in Nat /\ DOMAIN stack = 1..Len(stack)
      /\ accounts \in Seq(Texts)
  BY StackType, TypeFacts
<1>2. UNCHANGED <<opened, user, accounts, handler, overlay, saved, entered, reasons, disturbed,
                  stray>>
  BY DEF LoadSuggestons
<1>3. PICK n \in 1..Len(stack) :
        stack' = [stack EXCEPT ![n].loading = FALSE, ![n].suggestons = accounts]
  BY <1>1 DEF LoadSuggestons
<1>4. PICK r \in Routes : r = stack[n]
  BY <1>1
<1>5. PICK q : q = [r EXCEPT !.loading = FALSE, !.suggestons = accounts]
  OBVIOUS
<1>6. q \in Routes /\ q.id = r.id /\ q.page = r.page
  BY <1>1, <1>5 DEF Routes
<1>7. stack' = [stack EXCEPT ![n] = q]
  BY <1>1, <1>3, <1>4, <1>5
<1> QED BY <1>2, <1>4, <1>6, <1>7, RouteChanges

\* The address on the login page on top is edited: a handler that has yet to
\* read it takes the new text, and this is remembered.
LEMMA EditShape ==
  ASSUME TypeOK, NEW e \in Texts, Edit(e)
  PROVE  /\ stack' \in Seq(Routes) /\ Kept(Len(stack)) /\ handler' \in [Taps -> Handlers]
         /\ \A t \in Taps : /\ handler'[t].form = handler[t].form
                            /\ handler'[t].route = handler[t].route
                            /\ handler'[t].awaits = handler[t].awaits
                            /\ handler'[t].told = handler[t].told
                            /\ handler'[t].text = handler[t].text \/ "edited" \in reasons'
         /\ reasons \subseteq reasons' /\ reasons' \subseteq reasons \cup {"edited"}
         /\ UNCHANGED <<opened, user, accounts, overlay, saved, entered, disturbed, stray>>
<1>1. /\ stack \in Seq(Routes) /\ Len(stack) \in Nat /\ handler \in [Taps -> Handlers]
      /\ (stack # << >> <=> Len(stack) # 0)
  BY StackType, TypeFacts
<1> DEFINE mine == {t \in Taps : handler[t].awaits = "overlay" /\ handler[t].route = Last(stack).id}
<1>2. /\ stack # << >> /\ stack' = [stack EXCEPT ![Len(stack)].text = e]
      /\ handler' = [t \in Taps |-> IF t \in mine THEN [handler[t] EXCEPT !.text = e]
                                    ELSE handler[t]]
      /\ reasons' = IF mine = {} THEN reasons ELSE reasons \cup {"edited"}
      /\ UNCHANGED <<opened, user, accounts, overlay, saved, entered, disturbed, stray>>
  BY DEF Edit, OnTop
<1> HIDE DEF mine
<1>3. PICK n \in 1..Len(stack) : n = Len(stack)
  <2>1. Len(stack) \in 1..Len(stack)
    BY <1>1, <1>2
  <2> QED BY <2>1
<1>4. PICK r \in Routes : r = stack[n]
  BY <1>1
<1>5. PICK q : q = [r EXCEPT !.text = e]
  OBVIOUS
<1>6. q \in Routes /\ q.id = r.id /\ q.page = r.page
  BY <1>5 DEF Routes
<1>7. stack' = [stack EXCEPT ![n] = q]
  BY <1>1, <1>2, <1>3, <1>4, <1>5
<1>8. stack' \in Seq(Routes) /\ Kept(Len(stack))
  BY <1>2, <1>4, <1>6, <1>7, RouteChanges
<1>9. \A t \in Taps : /\ handler'[t] \in Handlers
                      /\ handler'[t].form = handler[t].form
                      /\ handler'[t].route = handler[t].route
                      /\ handler'[t].awaits = handler[t].awaits
                      /\ handler'[t].told = handler[t].told
                      /\ handler'[t].text = handler[t].text \/ t \in mine
  <2> TAKE t \in Taps
  <2>1. PICK h \in Handlers : h = handler[t]
    BY <1>1
  <2>2. PICK g : g = [h EXCEPT !.text = e]
    OBVIOUS
  <2>3. /\ g \in Handlers /\ g.form = h.form /\ g.route = h.route /\ g.awaits = h.awaits
        /\ g.told = h.told
    BY <2>2 DEF Handlers
  <2>4. handler'[t] = h \/ (handler'[t] = g /\ t \in mine)
    BY <1>2, <2>1, <2>2
  <2> QED BY <2>1, <2>3, <2>4
<1>10. handler' \in [Taps -> Handlers]
  BY <1>2, <1>9
<1>11. \A t \in mine : "edited" \in reasons'
  BY <1>2
<1> QED BY <1>2, <1>8, <1>9, <1>10, <1>11

\* The steps of the login page keep the types.
LEMMA LoginPageTypes ==
  ASSUME Types, LoadSuggestons \/ \E e \in Texts : Edit(e)
  PROVE  Types'
<1>0. TypeOK /\ RoomLeft /\ Bottom
  BY DEF Types
<1>1. /\ stack' \in Seq(Routes) /\ Kept(Len(stack)) /\ handler' \in [Taps -> Handlers]
      /\ \A t \in Taps : handler'[t].awaits = handler[t].awaits
      /\ reasons' \subseteq reasons \cup {"edited"}
      /\ UNCHANGED <<opened, user, accounts, overlay, saved, entered, disturbed, stray>>
  <2>1. CASE LoadSuggestons
    BY <1>0, <2>1, LoadShape, TypeFacts
  <2>2. ASSUME NEW e \in Texts, Edit(e)
        PROVE  /\ stack' \in Seq(Routes) /\ Kept(Len(stack)) /\ handler' \in [Taps -> Handlers]
               /\ \A t \in Taps : handler'[t].awaits = handler[t].awaits
               /\ reasons' \subseteq reasons \cup {"edited"}
               /\ UNCHANGED <<opened, user, accounts, overlay, saved, entered, disturbed, stray>>
    BY <1>0, <2>2, EditShape
  <2> QED BY <2>1, <2>2
<1>2. TypeOK'
  <2>1. reasons' \subseteq {"signed out", "edited"} /\ opened \in 1..MaxRoutes
    BY <1>0, <1>1, TypeFacts
  <2> QED BY <1>0, <1>1, <2>1, TypeFacts, Typed
<1>3. Bottom'
  BY <1>0, <1>1, BottomKept
<1>4. RoomLeft'
  <2>1. Runners' = Runners
    BY <1>1, SameRunners
  <2> QED BY <1>0, <1>1, <2>1 DEF RoomLeft
<1> QED BY <1>2, <1>3, <1>4 DEF Types

\* Every step keeps the types.
LEMMA TypesNext == Types /\ [Next]_vars => Types'
<1> SUFFICES ASSUME Types, [Next]_vars PROVE Types'
  OBVIOUS
<1>1. CASE UNCHANGED vars
  BY <1>1 DEF Types, TypeOK, RoomLeft, Runners, Running, Bottom, vars
<1>2. CASE UserStep
  BY <1>2, UserTypes
<1>3. CASE LoadSuggestons \/ \E e \in Texts : Edit(e)
  BY <1>3, LoginPageTypes
<1>4. ASSUME NEW t \in Taps, TapForm(t) \/ TapSignOut(t)
      PROVE  Types'
  BY <1>4, TapTypes
<1>5. ASSUME NEW t \in Taps, HandlerStep(t)
      PROVE  Types'
  BY <1>5, HandlerTypes
<1> QED BY <1>1, <1>2, <1>3, <1>4, <1>5 DEF Next, UserStep

\* The pages, the handlers and the saved addresses always have their types: in
\* particular a handler that opens a page finds room for it, so the bound on the
\* routes cuts off no handler.
THEOREM TypeCorrect == Spec => []TypeOK
<1>1. Types => TypeOK
  BY DEF Types
<1> QED BY <1>1, InitTypes, TypesNext, PTL DEF Spec

-----------------------------------------------------------------------------
(* Which route is whose *)

\* Routes are numbered in the order they are opened, and each is on the stack once.
Shape ==
  /\ \A n \in DOMAIN stack : stack[n].id <= opened
  /\ \A m, n \in DOMAIN stack : stack[m].id = stack[n].id => m = n

\* The route of handler t, if it is still there, shows the form of the handler.
OwnedBy(t) ==
  /\ handler[t].route <= opened
  /\ \A n \in DOMAIN stack :
       stack[n].id = handler[t].route /\ handler[t].form \in {"login", "form", "reset"}
         => stack[n].page = handler[t].form

Owned == Shape /\ \A t \in Taps : OwnedBy(t)

\* Where a route on the stack after a step comes from.
LEMMA Origin ==
  ASSUME TypeOK, stack' \in Seq(Routes), NEW k, NEW p, Kept(k) \/ Opened(k, p),
         NEW n \in DOMAIN stack'
  PROVE  \/ /\ n \in DOMAIN stack /\ n <= k
            /\ stack'[n].id = stack[n].id /\ stack'[n].page = stack[n].page
         \/ n = k + 1 /\ stack'[n].id = opened + 1 /\ stack'[n].page = p /\ opened' = opened + 1
<1>1. Len(stack) \in Nat /\ DOMAIN stack = 1..Len(stack)
  BY StackType
<1>2. k \in 0..Len(stack)
  BY DEF Kept, Opened, Keeps
<1>3. DOMAIN stack' = 1..Len(stack') /\ Len(stack') \in Nat
  OBVIOUS
<1>4. CASE n \in 1..k
  <2>1. n \in DOMAIN stack /\ n <= k
    BY <1>1, <1>2, <1>4
  <2> QED BY <1>4, <2>1 DEF Kept, Opened, Keeps
<1>5. CASE n \notin 1..k
  <2>1. n = k + 1 /\ Opened(k, p)
    <3>1. k \in Nat
      BY <1>1, <1>2
    <3>2. Len(stack') = k \/ (Len(stack') = k + 1 /\ Opened(k, p))
      BY DEF Kept, Opened
    <3>30. n \in 1..Len(stack')
      BY <1>3
    <3>3. PICK l \in Nat : l = Len(stack') /\ n \in 1..l
      BY <1>3, <3>30
    <3>4. l = k \/ (l = k + 1 /\ Opened(k, p))
      BY <3>2, <3>3
    <3>5. l # k
      BY <1>5, <3>3
    <3>6. n \in 1..(k + 1)
      BY <3>3, <3>4, <3>5
    <3>7. n = k + 1
      BY <1>5, <3>1, <3>6
    <3> QED BY <3>4, <3>5, <3>7
  <2> QED BY <2>1 DEF Opened
<1> QED BY <1>4, <1>5

\* Numbers stay in order.
LEMMA ShapeKept ==
  ASSUME TypeOK, Shape, stack' \in Seq(Routes), NEW k, NEW p, Kept(k) \/ Opened(k, p)
  PROVE  Shape' /\ opened <= opened'
<1>1. opened \in Nat /\ stack \in Seq(Routes) /\ \A n \in DOMAIN stack : stack[n].id \in Nat
  <2>1. opened \in Nat /\ stack \in Seq(Routes)
    BY TypeFacts
  <2>2. ASSUME NEW n \in DOMAIN stack PROVE stack[n].id \in 1..MaxRoutes
    <3>1. stack[n] \in Routes
      BY <2>1
    <3> QED BY <3>1 DEF Routes
  <2> QED BY <2>1, <2>2
<1>2. opened' = opened \/ opened' = opened + 1
  BY DEF Kept, Opened
<1>3. ASSUME NEW n \in DOMAIN stack'
      PROVE  stack'[n].id <= opened'
  <2>1. CASE n \in DOMAIN stack /\ stack'[n].id = stack[n].id
    BY <1>1, <1>2, <2>1 DEF Shape
  <2>2. CASE stack'[n].id = opened + 1 /\ opened' = opened + 1
    BY <1>1, <2>2
  <2> QED BY <2>1, <2>2, Origin
<1>4. ASSUME NEW m \in DOMAIN stack', NEW n \in DOMAIN stack', stack'[m].id = stack'[n].id
      PROVE  m = n
  <2>1. \/ m \in DOMAIN stack /\ stack'[m].id = stack[m].id
        \/ m = k + 1 /\ stack'[m].id = opened + 1
    BY Origin
  <2>2. \/ n \in DOMAIN stack /\ stack'[n].id = stack[n].id
        \/ n = k + 1 /\ stack'[n].id = opened + 1
    BY Origin
  <2>3. \A j \in DOMAIN stack : stack[j].id # opened + 1
    BY <1>1 DEF Shape
  <2> QED BY <1>4, <2>1, <2>2, <2>3 DEF Shape
<1> QED BY <1>1, <1>2, <1>3, <1>4 DEF Shape

\* A handler keeps its route when the routes move.
LEMMA OwnedKept ==
  ASSUME TypeOK, Owned, stack' \in Seq(Routes), NEW k, NEW p, Kept(k) \/ Opened(k, p),
         NEW t \in Taps, handler'[t].route = handler[t].route, handler'[t].form = handler[t].form
  PROVE  OwnedBy(t)'
<1>1. opened \in Nat /\ opened' \in Nat /\ opened <= opened'
  <2>1. opened \in Nat
    BY TypeFacts
  <2> QED BY <2>1 DEF Kept, Opened
<1>2. handler[t].route \in Nat /\ handler[t].route <= opened
  <2>1. handler \in [Taps -> Handlers]
    BY TypeFacts
  <2>2. handler[t].route \in 0..MaxRoutes
    BY <2>1 DEF Handlers
  <2> QED BY <2>2 DEF Owned, OwnedBy
<1>3. handler'[t].route <= opened'
  BY <1>1, <1>2
<1>4. ASSUME NEW n \in DOMAIN stack', stack'[n].id = handler'[t].route,
             handler'[t].form \in {"login", "form", "reset"}
      PROVE  stack'[n].page = handler'[t].form
  <2>1. stack'[n].id # opened + 1
    BY <1>1, <1>2, <1>4
  <2>2. n \in DOMAIN stack /\ stack'[n].id = stack[n].id /\ stack'[n].page = stack[n].page
    BY <2>1, Origin
  <2> QED BY <1>4, <2>2 DEF Owned, OwnedBy
<1> QED BY <1>3, <1>4 DEF OwnedBy

\* In every step routes are popped, or one is pushed; and every handler but one
\* that begins keeps its form and its route.
LEMMA Moves ==
  ASSUME Types, Next
  PROVE  /\ stack' \in Seq(Routes)
         /\ \E k, p : Kept(k) \/ Opened(k, p)
         /\ \A u \in Taps : \/ /\ handler'[u].route = handler[u].route
                               /\ handler'[u].form = handler[u].form
                            \/ TapForm(u) \/ TapSignOut(u)
<1>0. TypeOK /\ RoomLeft /\ Bottom
  BY DEF Types
<1>1. CASE UserStep
  <2>1. UNCHANGED handler
    BY <1>1 DEF UserStep, OpenPage, Back, EnterAsGuest, Register, SignOut, OnlyPages
  <2>2. stack' \in Seq(Routes) /\ \E k, p : Kept(k) \/ Opened(k, p)
    BY <1>0, <1>1, UserShape
  <2> QED BY <2>1, <2>2
<1>2. CASE LoadSuggestons
  BY <1>0, <1>2, LoadShape
<1>3. ASSUME NEW e \in Texts, Edit(e)
      PROVE  /\ stack' \in Seq(Routes) /\ Kept(Len(stack))
             /\ \A u \in Taps : /\ handler'[u].route = handler[u].route
                                /\ handler'[u].form = handler[u].form
  BY <1>0, <1>3, EditShape
<1>4. ASSUME NEW t \in Taps, TapForm(t) \/ TapSignOut(t)
      PROVE  /\ stack' \in Seq(Routes) /\ \E k : Kept(k)
             /\ \A u \in Taps \ {t} : handler'[u] = handler[u]
  <2>1. PICK f \in {"login", "form", "reset", "signout"}, a \in {"overlay", "firebase"}, r \in Routes :
          Begin(t, f, r, a)
    BY <1>0, <1>4, TapShape
  <2>2. \A u \in Taps \ {t} : handler'[u] = handler[u]
    BY <1>0, <2>1, Begins
  <2> QED BY <1>0, <1>4, <2>2, TapShape
<1>5. ASSUME NEW t \in Taps, HandlerStep(t)
      PROVE  /\ stack' \in Seq(Routes) /\ \E k, p : Kept(k) \/ Opened(k, p)
             /\ \A u \in Taps : /\ handler'[u].route = handler[u].route
                                /\ handler'[u].form = handler[u].form
  <2>1. /\ stack' \in Seq(Routes) /\ SameTap(t) /\ (GoesOn(t) \/ EndsSo(t))
        /\ \A u \in Taps \ {t} : handler'[u] = handler[u]
    BY <1>0, <1>5, HandlerShape
  <2>2. \E k, p : Kept(k) \/ Opened(k, p)
    <3>1. CASE UNCHANGED <<stack, opened>>
      <4>1. stack' = stack /\ opened' = opened
        BY <3>1
      <4> QED BY <1>0, <4>1, Unmoved
    <3> QED BY <2>1, <3>1 DEF GoesOn, EndsSo
  <2> QED BY <2>1, <2>2 DEF SameTap
<1> QED BY <1>1, <1>2, <1>3, <1>4, <1>5 DEF Next, UserStep

\* At the start no handler has a route.
LEMMA InitOwned == Init => Owned
<1> SUFFICES ASSUME Init PROVE Owned
  OBVIOUS
<1>1. PICK r : r = Route("login", 1)
  OBVIOUS
<1>2. r.id = 1
  BY <1>1 DEF Route
<1>3. stack = <<r>> /\ opened = 1 /\ DOMAIN stack = {1}
  BY <1>1 DEF Init
<1>4. \A t \in Taps : handler[t].route = 0 /\ handler[t].form = "none"
  BY DEF Init, Unused
<1> QED BY <1>2, <1>3, <1>4 DEF Owned, Shape, OwnedBy

\* Every step keeps whose route is which.
LEMMA OwnedNext ==
  ASSUME Types, Owned, Next
  PROVE  Owned'
<1>0. TypeOK /\ Bottom
  BY DEF Types
<1>1. PICK k, p : Kept(k) \/ Opened(k, p)
  BY Moves
<1>2. stack' \in Seq(Routes)
  BY Moves
<1>3. Shape'
  BY <1>0, <1>1, <1>2, ShapeKept DEF Owned
<1>4. ASSUME NEW t \in Taps PROVE OwnedBy(t)'
  <2>1. CASE handler'[t].route = handler[t].route /\ handler'[t].form = handler[t].form
    BY <1>0, <1>1, <1>2, <2>1, OwnedKept
  <2>2. CASE TapForm(t) \/ TapSignOut(t)
    <3>1. PICK f \in {"login", "form", "reset", "signout"}, a \in {"overlay", "firebase"}, r \in Routes :
            /\ Begin(t, f, r, a) /\ r = stack'[Len(stack')]
            /\ f # "signout" => r.page = f
      BY <1>0, <2>2, TapShape
    <3>2. handler'[t].form = f /\ handler'[t].route = r.id
      BY <1>0, <3>1, Begins
    <3>3. Len(stack') \in DOMAIN stack'
      <4>1. stack' # << >>
        BY <1>0, <2>2, TapShape
      <4> QED BY <1>2, <4>1
    <3>4. r.id <= opened'
      BY <1>3, <3>1, <3>3 DEF Shape
    <3>5. ASSUME NEW n \in DOMAIN stack', stack'[n].id = r.id PROVE stack'[n] = r
      BY <1>3, <3>1, <3>3, <3>5 DEF Shape
    <3> QED BY <3>1, <3>2, <3>4, <3>5 DEF OwnedBy
  <2> QED BY <2>1, <2>2, Moves
<1> QED BY <1>3, <1>4 DEF Owned

-----------------------------------------------------------------------------
(* A handler and the page on top *)

\* A handler during which nothing else happened is the only one that runs, and
\* its page is on top.
Alone ==
  /\ \A t, u \in Taps : Running(t) /\ Running(u) /\ t # u => t \in disturbed
  /\ \A t \in Taps : Running(t) /\ t \notin disturbed
       => Len(stack) # 0 /\ stack[Len(stack)].id = handler[t].route

\* The user's taps disturb every handler and leave a page.
LEMMA UserAlone ==
  ASSUME TypeOK, Bottom, Alone, WrongPageHasReason, UserStep
  PROVE  Alone' /\ WrongPageHasReason'
<1>1. UNCHANGED <<handler, stray>> /\ disturbed' = disturbed \cup Runners
  BY DEF UserStep, OpenPage, Back, EnterAsGuest, Register, SignOut, OnlyPages, Meanwhile, Runners
<1>2. \A t \in Taps : Running(t)' => t \in disturbed'
  BY <1>1 DEF Running, Runners
<1>3. Len(stack') # 0
  <2>1. Len(stack) \in Nat \ {0}
    BY UserShape
  <2>2. \/ Len(stack) > 1 /\ Len(stack') = Len(stack) - 1
        \/ Len(stack') = Len(stack) + 1
        \/ Len(stack') = Len(stack) - 1 + 1
        \/ Len(stack) > 1 /\ Len(stack') = Len(stack) - 2 + 1
    BY UserShape DEF Kept, Opened
  <2> QED BY <2>1, <2>2
<1>4. stack' # << >>
  BY <1>3
<1>5. Alone'
  BY <1>2 DEF Alone
<1> QED BY <1>1, <1>4, <1>5 DEF WrongPageHasReason

\* What the login page loads or the user writes there disturbs nothing.
LEMMA LoginPageAlone ==
  ASSUME TypeOK, Alone, WrongPageHasReason, LoadSuggestons \/ \E e \in Texts : Edit(e)
  PROVE  Alone' /\ WrongPageHasReason'
<1>1. /\ Kept(Len(stack)) /\ UNCHANGED <<disturbed, stray>> /\ stack' \in Seq(Routes)
      /\ \A t \in Taps : handler'[t].awaits = handler[t].awaits /\ handler'[t].route = handler[t].route
  BY LoadShape, EditShape
<1>2. \A t \in Taps : Running(t)' <=> Running(t)
  BY <1>1, SameRunners
<1>3. Len(stack) \in Nat /\ (stack # << >> <=> Len(stack) # 0)
  BY StackType
<1>4. Len(stack') = Len(stack) /\ (Len(stack) # 0 => stack'[Len(stack)].id = stack[Len(stack)].id)
  BY <1>1, <1>3 DEF Kept, Keeps
<1>5. Alone'
  BY <1>1, <1>2, <1>4 DEF Alone
<1>6. stack' = << >> => stack = << >>
  BY <1>1, <1>3, <1>4
<1> QED BY <1>1, <1>5, <1>6 DEF WrongPageHasReason

\* A tap that begins a handler disturbs those that run.
LEMMA TapAlone ==
  ASSUME TypeOK, Bottom, Alone, WrongPageHasReason, NEW t \in Taps, TapForm(t) \/ TapSignOut(t)
  PROVE  Alone' /\ WrongPageHasReason'
<1>1. PICK f \in {"login", "form", "reset", "signout"}, a \in {"overlay", "firebase"}, r \in Routes :
        Begin(t, f, r, a) /\ r = stack'[Len(stack')]
  BY TapShape
<1>2. /\ handler[t] = Unused /\ handler'[t].route = r.id
      /\ \A u \in Taps \ {t} : handler'[u] = handler[u]
      /\ disturbed' = disturbed \cup Runners \cup (IF Runners = {} THEN {} ELSE {t})
      /\ UNCHANGED stray
  BY <1>1, Begins
<1>3. \A u \in Taps \ {t} : Running(u)' => u \in Runners /\ u \in disturbed' /\ t \in disturbed'
  BY <1>2 DEF Running, Runners
<1>4. stack' # << >> /\ stack' \in Seq(Routes)
  BY TapShape
<1>5. Len(stack') # 0
  BY <1>4
<1>6. Alone'
  BY <1>1, <1>2, <1>3, <1>5 DEF Alone
<1>7. stray \subseteq disturbed'
  BY <1>2 DEF WrongPageHasReason
<1> QED BY <1>2, <1>4, <1>6, <1>7 DEF WrongPageHasReason

\* A handler that acts on a page other than its own was disturbed.
LEMMA HandlerAlone ==
  ASSUME Types, Owned, Alone, WrongPageHasReason, NEW t \in Taps, HandlerStep(t)
  PROVE  Alone' /\ WrongPageHasReason'
<1>0. TypeOK /\ RoomLeft /\ Bottom
  BY DEF Types
<1>1. /\ Running(t) /\ stack' \in Seq(Routes) /\ SameTap(t) /\ UNCHANGED disturbed
      /\ \A u \in Taps \ {t} : handler'[u] = handler[u]
      /\ GoesOn(t) \/ EndsSo(t)
  BY <1>0, HandlerShape
<1>2. /\ stack \in Seq(Routes) /\ Len(stack) \in Nat /\ (stack # << >> <=> Len(stack) # 0)
      /\ DOMAIN stack = 1..Len(stack)
  BY <1>0, StackType
<1>3. CASE GoesOn(t)
  <2>1. Kept(Len(stack)) /\ UNCHANGED stray
    BY <1>3 DEF GoesOn
  <2>2. \A u \in Taps : (Running(u)' <=> Running(u)) /\ handler'[u].route = handler[u].route
    BY <1>1, <1>3 DEF GoesOn, Running, SameTap
  <2>3. Len(stack') = Len(stack) /\ (Len(stack) # 0 => stack'[Len(stack)].id = stack[Len(stack)].id)
    BY <1>2, <2>1 DEF Kept, Keeps
  <2>4. Alone'
    BY <1>1, <2>2, <2>3 DEF Alone
  <2>5. stack' = << >> => stack = << >>
    BY <1>1, <1>2, <2>3
  <2> QED BY <1>1, <2>1, <2>4, <2>5 DEF WrongPageHasReason
<1>4. CASE EndsSo(t)
  <2>1. \A u \in Taps : Running(u)' => u # t /\ Running(u) /\ u \in disturbed
    <3>1. ~Running(t)'
      BY <1>4 DEF EndsSo, Running
    <3>2. \A u \in Taps \ {t} : Running(u)' => Running(u)
      BY <1>1 DEF Running
    <3> QED BY <1>1, <3>1, <3>2 DEF Alone
  <2>2. Alone'
    BY <1>1, <2>1 DEF Alone
  <2>3. CASE UNCHANGED <<stack, stray>>
    BY <1>1, <2>2, <2>3 DEF WrongPageHasReason
  <2>4. CASE ActOnTop(t)
    <3>1. stack # << >> /\ stray' = IF Last(stack).id = handler[t].route THEN stray ELSE stray \cup {t}
      BY <2>4 DEF ActOnTop
    <3>2. PICK l \in Routes : l = Last(stack) /\ l = stack[Len(stack)]
      BY <1>2, <3>1, FrontType
    <3>3. l.id # handler[t].route => t \in disturbed
      BY <1>1, <3>2 DEF Alone
    <3>4. stray' \subseteq disturbed'
      BY <1>1, <3>1, <3>2, <3>3 DEF WrongPageHasReason
    <3>5. ASSUME stack' = << >> PROVE stray' # {}
      <4>1. Len(stack') = 0 /\ Len(stack) \in Nat \ {0}
        BY <1>2, <3>1, <3>5
      <4>2. CASE stray # {}
        BY <3>1, <4>2
      <4>3. CASE stray = {}
        <5>1. Kept(Len(stack) - 1) /\ handler[t].form \in {"form", "reset"}
          <6>1. ~(UNCHANGED stack)
            BY <3>1, <3>5
          <6>2. ASSUME NEW p PROVE ~Opened(Len(stack) - 1, p)
            BY <4>1 DEF Opened
          <6> QED BY <1>4, <6>1, <6>2 DEF EndsSo
        <5>2. Len(stack) = 1
          BY <4>1, <5>1 DEF Kept
        <5>3. l.page \in {"login", "home"}
          BY <3>1, <3>2, <5>2, <1>0 DEF Bottom
        <5>4. l.id # handler[t].route
          BY <1>2, <3>2, <5>1, <5>2, <5>3 DEF Owned, OwnedBy
        <5> QED BY <3>1, <3>2, <5>4
      <4> QED BY <4>2, <4>3
    <3> QED BY <2>2, <3>4, <3>5 DEF WrongPageHasReason
  <2> QED BY <1>4, <2>3, <2>4 DEF EndsSo
<1> QED BY <1>1, <1>3, <1>4

\* A handler during which nothing else happened has its page on top, always.
THEOREM AloneAlways == Spec => [](Types /\ Alone /\ WrongPageHasReason)
<1> DEFINE Inv == Types /\ Owned /\ Alone /\ WrongPageHasReason
<1>1. Init => Inv
  <2> SUFFICES ASSUME Init PROVE Alone /\ WrongPageHasReason
    BY InitTypes, InitOwned
  <2>1. \A t \in Taps : ~Running(t)
    BY DEF Init, Running, Unused
  <2>2. stack # << >> /\ stray = {}
    BY DEF Init
  <2> QED BY <2>1, <2>2 DEF Alone, WrongPageHasReason
<1>2. Inv /\ [Next]_vars => Inv'
  <2> SUFFICES ASSUME Inv, [Next]_vars PROVE Inv'
    OBVIOUS
  <2>0. TypeOK /\ Bottom /\ Types'
    BY TypesNext DEF Types
  <2>1. CASE UNCHANGED vars
    BY <2>0, <2>1 DEF Owned, Shape, OwnedBy, Alone, Running, WrongPageHasReason, vars
  <2>2. CASE Next
    <3>1. Owned'
      BY <2>2, OwnedNext
    <3>2. Alone' /\ WrongPageHasReason'
      BY <2>0, <2>2, UserAlone, LoginPageAlone, TapAlone, HandlerAlone DEF Next, UserStep
    <3> QED BY <2>0, <3>1, <3>2
  <2> QED BY <2>1, <2>2
<1>3. Inv => Types /\ Alone /\ WrongPageHasReason
  OBVIOUS
<1> QED BY <1>1, <1>2, <1>3, PTL DEF Spec

\* A handler removes a page that is not its own only when the user did something
\* else meanwhile, and the screen is empty only after that.
THEOREM WrongPagesExplained == Spec => []WrongPageHasReason
BY AloneAlways, PTL

\* Every step reports a failure only for a handler that lost its page, which one
\* that nothing disturbed does not.
LEMMA FailureNext ==
  ASSUME Types, Alone, FailureHasReason, Next
  PROVE  FailureHasReason'
<1>0. TypeOK /\ RoomLeft /\ Bottom
  BY DEF Types
<1> SUFFICES ASSUME NEW t \in Taps, handler'[t].form \in {"login", "form"},
                    handler'[t].told = "failed"
             PROVE  t \in disturbed'
    BY DEF FailureHasReason
<1>1. ASSUME handler'[t].form = handler[t].form, handler'[t].told = handler[t].told,
             disturbed \subseteq disturbed'
      PROVE  t \in disturbed'
  BY <1>1 DEF FailureHasReason
<1>2. CASE UserStep \/ LoadSuggestons
  <2>1. UNCHANGED handler /\ disturbed \subseteq disturbed'
    BY <1>2 DEF UserStep, OpenPage, Back, EnterAsGuest, Register, SignOut, OnlyPages,
                Meanwhile, LoadSuggestons
  <2> QED BY <1>1, <2>1
<1>3. ASSUME NEW e \in Texts, Edit(e) PROVE t \in disturbed'
  <2>1. /\ handler'[t].form = handler[t].form /\ handler'[t].told = handler[t].told
        /\ UNCHANGED disturbed
    BY <1>0, <1>3, EditShape
  <2> QED BY <1>1, <2>1
<1>4. ASSUME NEW u \in Taps, TapForm(u) \/ TapSignOut(u) PROVE t \in disturbed'
  <2>1. PICK f \in {"login", "form", "reset", "signout"}, a \in {"overlay", "firebase"}, q \in Routes :
          Begin(u, f, q, a)
    BY <1>0, <1>4, TapShape
  <2>2. /\ handler'[u].told = "nothing" /\ \A v \in Taps \ {u} : handler'[v] = handler[v]
        /\ disturbed \subseteq disturbed'
    BY <1>0, <2>1, Begins
  <2> QED BY <1>1, <2>2
<1>5. ASSUME NEW u \in Taps, HandlerStep(u) PROVE t \in disturbed'
  <2>1. /\ Running(u) /\ SameTap(u) /\ (GoesOn(u) \/ EndsSo(u)) /\ UNCHANGED disturbed
        /\ \A v \in Taps \ {u} : handler'[v] = handler[v]
    BY <1>0, <1>5, HandlerShape
  <2>2. CASE u # t \/ handler'[t].told = handler[t].told
    BY <1>1, <2>1, <2>2 DEF SameTap
  <2>3. CASE u = t /\ handler'[t].told # handler[t].told
    <3>1. ~OnStack(handler[t].route)
      BY <2>1, <2>3 DEF GoesOn, EndsSo, SameTap
    <3>2. Len(stack) \in Nat /\ DOMAIN stack = 1..Len(stack)
      BY <1>0, StackType
    <3>3. ~(Len(stack) # 0 /\ stack[Len(stack)].id = handler[t].route)
      BY <3>1, <3>2 DEF OnStack
    <3> QED BY <2>1, <2>3, <3>3 DEF Alone
  <2> QED BY <2>2, <2>3
<1> QED BY <1>2, <1>3, <1>4, <1>5 DEF Next, UserStep

\* However the handlers, the taps and the pages interleave, a sign-in or a form
\* that nothing disturbed reports no failure but that of the preferences
\* (login_email_page.dart:169-194, member_create_page.dart:277-294).
THEOREM FailuresExplained == Spec => []FailureHasReason
<1>1. Init => FailureHasReason
  BY DEF Init, FailureHasReason, Unused
<1>2. Types /\ Alone /\ FailureHasReason /\ [Next]_vars => FailureHasReason'
  <2> SUFFICES ASSUME Types, Alone, FailureHasReason, [Next]_vars PROVE FailureHasReason'
    OBVIOUS
  <2>1. CASE UNCHANGED vars
    BY <2>1 DEF FailureHasReason, vars
  <2> QED BY <2>1, FailureNext
<1> QED BY <1>1, <1>2, AloneAlways, PTL DEF Spec

-----------------------------------------------------------------------------
(* The saved addresses *)

\* Only the login page saves, and what it will save was validated or edited since.
Validated(t) ==
  /\ handler[t].awaits \in {"preferences", "stored"} => handler[t].form = "login"
  /\ handler[t].form = "login" /\ handler[t].awaits \in {"overlay", "preferences"} /\ handler[t].text = NoText
       => "edited" \in reasons

Saving == IsFiniteSet(saved) /\ SuggestionsKept /\ \A t \in Taps : Validated(t)

\* What Append adds to the members of a list.
LEMMA Appended ==
  ASSUME NEW T, NEW s \in Seq(T), NEW e \in T
  PROVE  ToSet(Append(s, e)) = ToSet(s) \cup {e} /\ Len(Append(s, e)) = Len(s) + 1
<1>0. Len(s) \in Nat /\ DOMAIN s = 1..Len(s)
  OBVIOUS
<1>1. PICK l \in Nat : l = Len(s) /\ DOMAIN s = 1..l
  BY <1>0
<1>20. Append(s, e) \in Seq(T)
  OBVIOUS
<1>2. PICK q \in Seq(T) : q = Append(s, e)
  BY <1>20
<1>3. Len(q) = l + 1 /\ DOMAIN q = 1..(l + 1)
  BY <1>1, <1>2
<1>4. q[l + 1] = e /\ \A n \in 1..l : q[n] = s[n]
  BY <1>1, <1>2
<1>5. ASSUME NEW n \in 1..(l + 1) PROVE q[n] \in ToSet(s) \cup {e}
  <2>1. n \in 1..l \/ n = l + 1
    BY <1>1
  <2> QED BY <1>1, <1>4, <2>1 DEF ToSet
<1>6. ASSUME NEW x \in ToSet(s) \cup {e} PROVE \E n \in 1..(l + 1) : q[n] = x
  <2>1. CASE x = e
    <3>1. l + 1 \in 1..(l + 1)
      BY <1>1
    <3> QED BY <1>4, <2>1, <3>1
  <2>2. CASE x \in ToSet(s)
    <3>1. PICK n \in 1..l : s[n] = x
      BY <1>1, <2>2 DEF ToSet
    <3>2. n \in 1..(l + 1)
      BY <1>1
    <3> QED BY <1>4, <3>1, <3>2
  <2> QED BY <2>1, <2>2
<1>7. ToSet(q) = ToSet(s) \cup {e}
  BY <1>3, <1>5, <1>6 DEF ToSet
<1> QED BY <1>1, <1>2, <1>3, <1>7

\* An address is added to the list unless it is there.
LEMMA Listed ==
  ASSUME accounts \in Seq(Texts), IsFiniteSet(saved), ToSet(accounts) = saved,
         Len(accounts) = Cardinality(saved), NEW e \in Texts,
         accounts' = IF Contains(accounts, e) THEN accounts ELSE Append(accounts, e),
         saved' = saved \cup {e}
  PROVE  /\ IsFiniteSet(saved') /\ ToSet(accounts') = saved'
         /\ Len(accounts') = Cardinality(saved')
<1>0. saved = {accounts[n] : n \in 1..Len(accounts)} /\ Len(accounts) \in Nat
  BY DEF ToSet
<1>1. Contains(accounts, e) <=> e \in saved
  BY <1>0 DEF Contains
<1>2. CASE e \in saved
  <2>1. accounts' = accounts /\ saved' = saved
    BY <1>1, <1>2
  <2> QED BY <2>1
<1>3. CASE e \notin saved
  <2>1. accounts' = Append(accounts, e)
    BY <1>1, <1>3
  <2>2. Len(accounts') = Len(accounts) + 1 /\ ToSet(accounts') = saved'
    BY <2>1, Appended
  <2>4. IsFiniteSet(saved') /\ Cardinality(saved') = Cardinality(saved) + 1
    BY <1>3, FS_AddElement
  <2> QED BY <2>2, <2>4
<1> QED BY <1>2, <1>3

\* A step that keeps the handler t and the reasons keeps what it will save valid.
LEMMA StaysValidated ==
  ASSUME NEW t \in Taps, Validated(t), reasons \subseteq reasons',
         handler'[t].form = handler[t].form, handler'[t].awaits = handler[t].awaits,
         handler'[t].text = handler[t].text
  PROVE  Validated(t)'
BY DEF Validated

\* Every step keeps the saved addresses.
LEMMA SavingNext ==
  ASSUME Types, Saving, Next
  PROVE  Saving' /\ reasons \subseteq reasons'
<1>0. TypeOK /\ RoomLeft /\ Bottom
  BY DEF Types
<1> DEFINE SameList == UNCHANGED <<accounts, saved>> /\ reasons \subseteq reasons'
<1>1. ASSUME SameList PROVE IsFiniteSet(saved') /\ SuggestionsKept' /\ reasons \subseteq reasons'
  BY <1>1 DEF Saving, SuggestionsKept
<1>2. CASE UserStep \/ LoadSuggestons
  <2>1. SameList /\ UNCHANGED handler
    BY <1>2 DEF UserStep, OpenPage, Back, EnterAsGuest, Register, SignOut, OnlyPages, LoadSuggestons
  <2> QED BY <1>1, <2>1, StaysValidated DEF Saving
<1>3. ASSUME NEW e \in Texts, Edit(e)
      PROVE  Saving' /\ reasons \subseteq reasons'
  <2>1. SameList /\ \A t \in Taps : /\ handler'[t].form = handler[t].form
                                    /\ handler'[t].awaits = handler[t].awaits
                                    /\ handler'[t].text = handler[t].text \/ "edited" \in reasons'
    BY <1>0, <1>3, EditShape
  <2>2. \A t \in Taps : Validated(t)'
    BY <2>1 DEF Saving, Validated
  <2> QED BY <1>1, <2>1, <2>2 DEF Saving
<1>4. ASSUME NEW t \in Taps, TapForm(t) \/ TapSignOut(t)
      PROVE  Saving' /\ reasons \subseteq reasons'
  <2>1. PICK f \in {"login", "form", "reset", "signout"}, a \in {"overlay", "firebase"}, r \in Routes :
          /\ Begin(t, f, r, a)
          /\ f = "login" => r.text \in Emails /\ a = "overlay"
    BY <1>0, <1>4, TapShape
  <2>2. /\ handler'[t].form = f /\ handler'[t].text = r.text /\ handler'[t].awaits = a
        /\ \A u \in Taps \ {t} : handler'[u] = handler[u]
        /\ SameList
    BY <1>0, <2>1, Begins
  <2>3. Validated(t)'
    BY <2>1, <2>2, EmailsAssumption DEF Validated
  <2>4. \A u \in Taps \ {t} : Validated(u)'
    BY <2>2, StaysValidated DEF Saving
  <2> QED BY <1>1, <2>2, <2>3, <2>4 DEF Saving
<1>5. ASSUME NEW t \in Taps, HandlerStep(t)
      PROVE  Saving' /\ reasons \subseteq reasons'
  <2>1. /\ Running(t) /\ SameTap(t) /\ handler \in [Taps -> Handlers] /\ accounts \in Seq(Texts)
        /\ \A u \in Taps \ {t} : handler'[u] = handler[u]
        /\ GoesOn(t) \/ EndsSo(t)
    BY <1>0, <1>5, HandlerShape, TypeFacts
  <2>2. reasons \subseteq reasons'
    BY <2>1 DEF GoesOn, EndsSo
  <2>3. \A u \in Taps \ {t} : Validated(u)'
    BY <2>1, <2>2, StaysValidated DEF Saving
  <2>4. Validated(t)'
    <3>1. CASE GoesOn(t)
      BY <2>1, <2>2, <3>1 DEF GoesOn, SameTap, Saving, Validated
    <3>2. CASE EndsSo(t)
      BY <3>2 DEF EndsSo, Validated
    <3> QED BY <2>1, <3>1, <3>2
  <2>5. CASE SameList
    BY <1>1, <2>3, <2>4, <2>5 DEF Saving
  <2>6. CASE handler[t].awaits = "preferences" /\ GoesOn(t)
    <3>1. PICK e \in Texts : e = handler[t].text
      BY <2>1 DEF Handlers
    <3>2. /\ accounts' = IF Contains(accounts, e) THEN accounts ELSE Append(accounts, e)
          /\ saved' = saved \cup {e}
      BY <2>6, <3>1 DEF GoesOn
    <3>3. IsFiniteSet(saved') /\ ToSet(accounts') = saved' /\ Len(accounts') = Cardinality(saved')
      BY <2>1, <3>2, Listed DEF Saving, SuggestionsKept
    <3>4. e = NoText => "edited" \in reasons
      BY <2>6, <3>1 DEF Saving, Validated
    <3>5. NoText \in saved' => "edited" \in reasons'
      BY <2>2, <3>2, <3>4 DEF Saving, SuggestionsKept
    <3> QED BY <2>2, <2>3, <2>4, <3>3, <3>5 DEF Saving, SuggestionsKept
  <2> QED BY <2>1, <2>2, <2>5, <2>6 DEF GoesOn, EndsSo
<1> QED BY <1>2, <1>3, <1>4, <1>5 DEF Next, UserStep

\* At the start nothing is saved.
LEMMA InitSaving == Init => Saving
<1> SUFFICES ASSUME Init PROVE Saving
  OBVIOUS
<1>1. \A t \in Taps : Validated(t)
  BY DEF Init, Unused, Validated
<1>2. IsFiniteSet(saved) /\ Cardinality(saved) = 0
  BY FS_EmptySet DEF Init
<1>3. ToSet(accounts) = saved /\ Len(accounts) = 0 /\ NoText \notin saved
  BY DEF Init, ToSet
<1> QED BY <1>1, <1>2, <1>3 DEF Saving, SuggestionsKept

\* Overlapping sign-ins lose no address and save none twice, and an address that
\* the validator refuses is saved only after an edit.
THEOREM SuggestionsAreKept == Spec => []SuggestionsKept
<1> DEFINE Inv == Types /\ Saving
<1>1. Init => Inv
  BY InitTypes, InitSaving
<1>2. Inv /\ [Next]_vars => Inv'
  <2> SUFFICES ASSUME Inv, [Next]_vars PROVE Inv'
    OBVIOUS
  <2>0. Types'
    BY TypesNext
  <2>1. CASE UNCHANGED vars
    BY <2>0, <2>1 DEF Saving, SuggestionsKept, Validated, vars
  <2>2. CASE Next
    BY <2>0, <2>2, SavingNext
  <2> QED BY <2>1, <2>2
<1>3. Inv => SuggestionsKept
  BY DEF Saving
<1> QED BY <1>1, <1>2, <1>3, PTL DEF Spec

-----------------------------------------------------------------------------
(* The guest *)

\* Without a sign-out and without a handler on a wrong page, the login page is
\* only at the bottom, and a guest who entered has left it for good.
Calm == "signed out" \notin reasons /\ stray = {}
Guest ==
  Calm =>
    /\ \A n \in DOMAIN stack : n # 1 => stack[n].page # "login"
    /\ user = "guest" => /\ entered # "email"
                         /\ \A n \in DOMAIN stack : stack[n].page \notin {"login", "register", "reset"}

\* What has happened stays so.
LEMMA CalmBefore ==
  ASSUME reasons \subseteq reasons', stray \subseteq stray', Calm'
  PROVE  Calm
BY DEF Calm

\* The page on top.
LEMMA TopOf ==
  ASSUME TypeOK, Len(stack) # 0
  PROVE  Len(stack) \in DOMAIN stack /\ Last(stack) = stack[Len(stack)]
<1>1. Len(stack) \in Nat /\ DOMAIN stack = 1..Len(stack)
  BY StackType
<1>2. Len(stack) \in 1..Len(stack)
  BY <1>1
<1> QED BY <1>1, <1>2 DEF Last

\* What is opened on the pages that stay keeps the guest away from the login page.
LEMMA GuestKept ==
  ASSUME TypeOK, stack' \in Seq(Routes), Guest, reasons \subseteq reasons', stray \subseteq stray',
         NEW k, NEW p, Kept(k) \/ (Opened(k, p) /\ p # "login"),
         user' = "guest" => user = "guest" /\ entered' # "email",
         user = "guest" => p \notin {"register", "reset"} \/ Kept(k)
  PROVE  Guest'
<1> SUFFICES ASSUME Calm'
             PROVE  /\ \A n \in DOMAIN stack' : n # 1 => stack'[n].page # "login"
                    /\ user' = "guest" =>
                         /\ entered' # "email"
                         /\ \A n \in DOMAIN stack' : stack'[n].page \notin {"login", "register", "reset"}
  BY DEF Guest
<1>1. /\ \A n \in DOMAIN stack : n # 1 => stack[n].page # "login"
      /\ user = "guest" => \A n \in DOMAIN stack : stack[n].page \notin {"login", "register", "reset"}
  BY CalmBefore DEF Guest
<1>2. ASSUME NEW n \in DOMAIN stack'
      PROVE  \/ n \in DOMAIN stack /\ stack'[n].page = stack[n].page
             \/ stack'[n].page = p /\ Opened(k, p) /\ p # "login" /\ ~Kept(k)
  <2>1. CASE Kept(k)
    <3>1. opened' = opened /\ opened \in Nat
      BY <2>1, TypeFacts DEF Kept
    <3>2. opened' # opened + 1
      <4>1. \A d \in Nat : d # d + 1
        OBVIOUS
      <4> QED BY <3>1, <4>1
    <3> QED BY <2>1, <3>2, Origin
  <2>2. CASE Opened(k, p) /\ p # "login" /\ ~Kept(k)
    BY <2>2, Origin
  <2> QED BY <2>1, <2>2
<1> QED BY <1>1, <1>2

\* The user's taps.
LEMMA UserGuest ==
  ASSUME TypeOK, Bottom, Guest, UserStep
  PROVE  Guest'
<1>1. /\ stack \in Seq(Routes) /\ Len(stack) \in Nat /\ DOMAIN stack = 1..Len(stack)
      /\ user \in {"default", "guest"}
  BY StackType, TypeFacts
<1>2. stack' \in Seq(Routes) /\ Len(stack) \in Nat \ {0}
  BY UserShape
<1>3. stray \subseteq stray' /\ reasons \subseteq reasons'
  BY DEF UserStep, OpenPage, Back, EnterAsGuest, Register, SignOut, OnlyPages
<1> SUFFICES ASSUME Calm' PROVE Guest'
  BY DEF Guest
<1>4. /\ \A n \in DOMAIN stack : n # 1 => stack[n].page # "login"
      /\ user = "guest" => /\ entered # "email"
                           /\ \A n \in DOMAIN stack : stack[n].page \notin {"login", "register", "reset"}
  BY <1>3, CalmBefore DEF Guest
<1>5. /\ Len(stack) \in DOMAIN stack /\ Last(stack) = stack[Len(stack)]
  BY <1>2, TopOf
<1>6. CASE Back /\ Kept(Len(stack) - 1)
  <2>1. UNCHANGED <<user, entered>>
    BY <1>6 DEF Back
  <2>2. \A q : user = "guest" => q \notin {"register", "reset"} \/ Kept(Len(stack) - 1)
    BY <1>6
  <2> QED BY <1>2, <1>3, <1>4, <1>6, <2>1, <2>2, GuestKept
<1>7. ASSUME NEW p \in Pages, OpenPage(p), Opened(Len(stack), p)
      PROVE  Guest'
  <2>1. UNCHANGED <<user, entered>> /\ <<Last(stack).page, p>> \in Opens
    BY <1>7 DEF OpenPage
  <2>2. p # "login" /\ (p \in {"register", "reset"} => Last(stack).page = "login")
    BY <2>1 DEF Opens
  <2>3. user = "guest" => p \notin {"register", "reset"}
    BY <1>4, <1>5, <2>2
  <2> QED BY <1>2, <1>3, <1>4, <1>7, <2>1, <2>2, <2>3, GuestKept
<1>8. CASE Register /\ Opened(Len(stack) - 1, "home")
  <2>1. UNCHANGED user /\ Last(stack).page = "register"
    BY <1>8 DEF Register, OnTop
  <2>2. user # "guest" /\ user' # "guest"
    BY <1>4, <1>5, <2>1
  <2>3. PICK k, p : p = "home" /\ Opened(k, p)
    BY <1>8
  <2> QED BY <1>2, <1>3, <2>2, <2>3, GuestKept
<1>9. CASE EnterAsGuest /\ Opened(Len(stack) - 1, "home")
  <2>1. Last(stack).page = "login" /\ entered' = "guest"
    BY <1>9 DEF EnterAsGuest, OnTop
  <2>2. Len(stack) = 1
    BY <1>4, <1>5, <2>1
  <2>3. Len(stack') = 1 /\ stack'[1].page = "home"
    <3>1. Opened(0, "home")
      BY <1>9, <2>2
    <3> QED BY <3>1 DEF Opened
  <2>4. DOMAIN stack' = {1}
    <3>1. DOMAIN stack' = 1..Len(stack')
      BY <1>2
    <3> QED BY <2>3, <3>1
  <2> QED BY <2>1, <2>3, <2>4 DEF Guest
<1>10. ~SignOut
  BY DEF SignOut, Calm
<1> QED BY <1>6, <1>7, <1>8, <1>9, <1>10, UserShape

\* The handlers: signing in from one's own page is for a user who is no guest.
LEMMA HandlerGuest ==
  ASSUME Types, Owned, Saving, Guest, NEW t \in Taps, HandlerStep(t)
  PROVE  Guest'
<1>0. TypeOK /\ RoomLeft /\ Bottom
  BY DEF Types
<1>1. /\ stack' \in Seq(Routes) /\ UNCHANGED user /\ (GoesOn(t) \/ EndsSo(t))
  BY <1>0, HandlerShape
<1>2. reasons \subseteq reasons' /\ stray \subseteq stray'
  BY <1>1 DEF GoesOn, EndsSo, ActOnTop
<1> SUFFICES ASSUME Calm' PROVE Guest'
  BY DEF Guest
<1>3. user = "guest" => /\ entered # "email"
                        /\ \A n \in DOMAIN stack : stack[n].page \notin {"login", "register", "reset"}
  BY <1>2, CalmBefore DEF Guest
<1>4. ASSUME NEW k, Kept(k), UNCHANGED entered PROVE Guest'
  BY <1>0, <1>1, <1>2, <1>3, <1>4, GuestKept
<1>5. CASE GoesOn(t)
  BY <1>4, <1>5 DEF GoesOn
<1>6. CASE UNCHANGED <<stack, opened, entered>>
  <2>1. stack' = stack /\ opened' = opened
    BY <1>6
  <2>2. Kept(Len(stack))
    BY <1>0, <2>1, Unmoved
  <2> QED BY <1>4, <1>6, <2>2
<1>7. CASE ActOnTop(t) /\ Opened(Len(stack) - 1, "home") /\ handler[t].awaits = "stored"
  <2>1. /\ stack \in Seq(Routes) /\ Len(stack) \in Nat /\ DOMAIN stack = 1..Len(stack)
        /\ (stack # << >> <=> Len(stack) # 0)
    BY <1>0, StackType
  <2>2. stack # << >> /\ Last(stack).id = handler[t].route
    BY <1>7 DEF ActOnTop, Calm
  <2>3. Len(stack) \in DOMAIN stack /\ Last(stack) = stack[Len(stack)]
    BY <1>0, <2>1, <2>2, TopOf
  <2>4. handler[t].form = "login"
    BY <1>7 DEF Saving, Validated
  <2>5. stack[Len(stack)].page = "login"
    BY <2>2, <2>3, <2>4 DEF Owned, OwnedBy
  <2>6. user # "guest" /\ user' # "guest"
    BY <1>1, <1>3, <2>3, <2>5
  <2>7. PICK k, p : p = "home" /\ Opened(k, p)
    BY <1>7
  <2> QED BY <1>0, <1>1, <1>2, <2>6, <2>7, GuestKept
<1>8. reasons' # reasons \cup {"signed out"}
  BY DEF Calm
<1> QED BY <1>1, <1>4, <1>5, <1>6, <1>7, <1>8 DEF EndsSo

\* Every step keeps the guest away from the login page.
LEMMA GuestNext ==
  ASSUME Types, Owned, Saving, Guest, Next
  PROVE  Guest'
<1>0. TypeOK /\ RoomLeft /\ Bottom
  BY DEF Types
<1>1. ASSUME stack' \in Seq(Routes), NEW k, Kept(k), UNCHANGED <<user, entered, stray>>,
             reasons \subseteq reasons'
      PROVE  Guest'
  <2>1. CASE ~Calm'
    BY <2>1 DEF Guest
  <2>2. CASE Calm'
    <3>1. stray \subseteq stray'
      BY <1>1
    <3>2. user = "guest" => entered # "email"
      BY <1>1, <2>2, <3>1, CalmBefore DEF Guest
    <3> QED BY <1>0, <1>1, <3>1, <3>2, GuestKept
  <2> QED BY <2>1, <2>2
<1>2. CASE LoadSuggestons
  BY <1>0, <1>1, <1>2, LoadShape
<1>3. ASSUME NEW e \in Texts, Edit(e) PROVE Guest'
  BY <1>0, <1>1, <1>3, EditShape
<1>4. ASSUME NEW t \in Taps, TapForm(t) \/ TapSignOut(t) PROVE Guest'
  <2>1. PICK f \in {"login", "form", "reset", "signout"}, a \in {"overlay", "firebase"}, r \in Routes :
          Begin(t, f, r, a)
    BY <1>0, <1>4, TapShape
  <2>2. UNCHANGED <<user, entered, reasons, stray>>
    BY <1>0, <2>1, Begins
  <2>3. stack' \in Seq(Routes) /\ \E k : Kept(k)
    BY <1>0, <1>4, TapShape
  <2> QED BY <1>1, <2>2, <2>3
<1> QED BY <1>0, <1>2, <1>3, <1>4, UserGuest, HandlerGuest DEF Next, UserStep

\* Who signs in with an address and gets the pages of a guest came there by a
\* sign-out, or by a handler on a page that was not its own.
THEOREM StaleUsersExplained == Spec => []StaleUserHasReason
<1> DEFINE Inv == Types /\ Owned /\ Saving /\ Guest
<1>1. Init => Inv
  <2> SUFFICES ASSUME Init PROVE Guest
    BY InitTypes, InitOwned, InitSaving
  <2>1. DOMAIN stack = {1} /\ user = "default"
    BY DEF Init
  <2> QED BY <2>1 DEF Guest
<1>2. Inv /\ [Next]_vars => Inv'
  <2> SUFFICES ASSUME Inv, [Next]_vars PROVE Inv'
    OBVIOUS
  <2>0. Types'
    BY TypesNext
  <2>1. CASE UNCHANGED vars
    <3>1. Owned'
      BY <2>1 DEF Owned, Shape, OwnedBy, vars
    <3>2. Saving' /\ Guest'
      BY <2>1 DEF Saving, SuggestionsKept, Validated, Guest, Calm, vars
    <3> QED BY <2>0, <3>1, <3>2
  <2>2. CASE Next
    BY <2>0, <2>2, OwnedNext, SavingNext, GuestNext
  <2> QED BY <2>1, <2>2
<1>3. Inv => StaleUserHasReason
  <2> SUFFICES ASSUME Inv, entered = "email", user # "default"
               PROVE  "signed out" \in reasons \/ stray # {}
    BY DEF StaleUserHasReason, IsParent
  <2>1. user = "guest"
    BY TypeFacts DEF Types
  <2> QED BY <2>1 DEF Guest, Calm
<1> QED BY <1>1, <1>2, <1>3, PTL DEF Spec

=============================================================================
