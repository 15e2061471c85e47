------------------------------- MODULE Session -------------------------------
(***************************************************************************)
(* Who is signed in and which page is on top.  LoginEmailPage, RegisterPage *)
(* and ResetPassword (src/lib/pages/auth), the sign-out dialogs of the     *)
(* management pages and the account forms (src/lib/pages/parent,           *)
(* src/lib/pages/children) are routes of one Navigator.  Their handlers    *)
(* await an overlay, the preferences or Firebase, and then pop or replace  *)
(* whatever route is on top, with a context that may be gone.              *)
(*                                                                         *)
(* AuthProvider (src/lib/providers/auth.dart) does nothing when it is      *)
(* asked to sign somebody in or to store an account; only a guest sets its *)
(* user, and nothing ever resets it.                                       *)
(***************************************************************************)
EXTENDS Naturals, Sequences, FiniteSets, SequencesExt

CONSTANTS Taps,      \* bound: taps on the button of a form
          Emails,    \* addresses the validator accepts
          MaxRoutes, \* bound: routes ever opened
          MayFail    \* whether the preferences may fail

ASSUME TapsAssumption == IsFiniteSet(Taps)
ASSUME RoutesAssumption == MaxRoutes \in Nat \ {0}
ASSUME MayFailAssumption == MayFail \in BOOLEAN

NoText == "no text"        \* what the validator refuses
ASSUME EmailsAssumption == NoText \notin Emails
Texts == Emails \cup {NoText}
Pages == {"login", "register", "reset", "home", "account", "form", "dialog"}

VARIABLES stack,     \* the routes of the Navigator, the top one last
          opened,    \* number of routes ever opened
          user,      \* AuthProvider.user: "default" (a parent) or "guest" (a child)
          accounts,  \* the list "accounts" in the preferences
          handler,   \* handler[t]: where the handler of tap t is
          overlay,   \* EasyLoading is showing
          saved,     \* history: the texts that were saved
          entered,   \* history: how the last HomePage was entered
          reasons,   \* history: "signed out", "edited"
          disturbed, \* history: handlers during which the user did something else
          stray      \* history: handlers that removed a page not their own

vars == <<stack, opened, user, accounts, handler, overlay, saved, entered, reasons,
          disturbed, stray>>

\* A route; the text field and the suggestions matter on the login page.
Route(page, id) ==
  [page |-> page, id |-> id, text |-> NoText, suggestons |-> << >>, loading |-> page = "login"]

\* A handler: the form, the route it belongs to, the address it will save or is
\* saving, what it awaits, and what the user was told.
Unused == [form |-> "none", route |-> 0, text |-> NoText, awaits |-> "unused", told |-> "nothing"]

Init ==
  /\ stack = <<Route("login", 1)>>
  /\ opened = 1
  /\ user = "default"
  /\ accounts = << >>
  /\ handler = [t \in Taps |-> Unused]
  /\ overlay = FALSE
  /\ saved = {}
  /\ entered = "none"
  /\ reasons = {}
  /\ disturbed = {}
  /\ stray = {}

-----------------------------------------------------------------------------
(* The Navigator *)

OnTop(page) == stack # << >> /\ Last(stack).page = page
OnStack(id) == \E n \in DOMAIN stack : stack[n].id = id
IsParent == user = "default"
Running(t) == handler[t].awaits \notin {"unused", "nothing"}

\* The user leaves room for the routes the running handlers will open.
Room == opened + Cardinality({t \in Taps : Running(t)}) < MaxRoutes

Push(s, page) ==
  /\ opened' = opened + 1
  /\ stack' = Append(s, Route(page, opened + 1))

\* Mutated: the page is pushed over the one it should replace.
PushOver(s, page) == Push(s, page)

PushReplacement(s, page) == Push(Front(s), page)

\* The user acts while handlers run.
Meanwhile == disturbed' = disturbed \cup {t \in Taps : Running(t)}

\* What a tap that opens or leaves a page leaves alone.
OnlyPages == UNCHANGED <<accounts, handler, overlay, saved, stray>>

\* The pages a page can open.
Opens ==
  {<<"login", "register">>, <<"login", "reset">>, <<"home", "dialog">>} \cup
  IF IsParent THEN {<<"home", "account">>, <<"account", "form">>} ELSE {<<"home", "form">>}

OpenPage(page) ==
  /\ Room /\ stack # << >>
  /\ <<Last(stack).page, page>> \in Opens
  /\ Push(stack, page)
  /\ Meanwhile
  /\ OnlyPages
  /\ UNCHANGED <<user, entered, reasons>>

\* The back button, and "No" in the dialog.  On the last page it leaves the app.
Back ==
  /\ Len(stack) > 1
  /\ stack' = Front(stack)
  /\ Meanwhile
  /\ OnlyPages
  /\ UNCHANGED <<opened, user, entered, reasons>>

\* The guest's button.
EnterAsGuest ==
  /\ Room /\ OnTop("login")
  /\ PushReplacement(stack, "home")
  /\ user' = "guest"
  /\ entered' = "guest"
  /\ Meanwhile
  /\ OnlyPages
  /\ UNCHANGED reasons

\* The register button: nothing in its handler is awaited for long.  The page
\* is replaced, the login page stays behind HomePage, and finally dismiss takes
\* away the overlay, whoever showed it.
Register ==
  /\ Room /\ OnTop("register")
  /\ PushReplacement(stack, "home")
  /\ entered' = "email"
  /\ overlay' = FALSE
  /\ Meanwhile
  /\ UNCHANGED <<user, accounts, handler, saved, reasons, stray>>

\* "Yes" in the parent's dialog: AuthProvider.logout is not called.
SignOut ==
  /\ Room /\ OnTop("dialog") /\ IsParent
  /\ PushReplacement(Front(stack), "login")
  /\ reasons' = reasons \cup {"signed out"}
  /\ Meanwhile
  /\ OnlyPages
  /\ UNCHANGED <<user, entered>>

-----------------------------------------------------------------------------
(* The login page *)

\* loadSuggestons got the preferences.
LoadSuggestons ==
  /\ \E n \in DOMAIN stack :
       /\ stack[n].loading
       /\ stack' = [stack EXCEPT ![n].loading = FALSE, ![n].suggestons = accounts]
  /\ UNCHANGED <<opened, user, accounts, handler, overlay, saved, entered, reasons, disturbed, stray>>

\* The user edits the address, also after the validation, while a handler awaits
\* the overlay and has yet to read the field.
Edit(e) ==
  /\ OnTop("login") /\ Last(stack).text # e
  /\ stack' = [stack EXCEPT ![Len(stack)].text = e]
  /\ LET mine == {t \in Taps : handler[t].awaits = "overlay" /\ handler[t].route = Last(stack).id} IN
       /\ handler' = [t \in Taps |-> IF t \in mine THEN [handler[t] EXCEPT !.text = e]
                                     ELSE handler[t]]
       /\ reasons' = IF mine = {} THEN reasons ELSE reasons \cup {"edited"}
  /\ UNCHANGED <<opened, user, accounts, overlay, saved, entered, disturbed, stray>>

-----------------------------------------------------------------------------
(* Handlers *)

\* Tap t on the button of the page on top starts a handler.
Begin(t, form, route, awaits) ==
  /\ Room /\ handler[t] = Unused
  /\ handler' = [handler EXCEPT ![t] = [Unused EXCEPT !.form = form, !.route = route.id,
                                                      !.text = route.text, !.awaits = awaits]]
  /\ overlay' = (overlay \/ form # "signout")
  /\ LET others == {u \in Taps : Running(u)} IN
       disturbed' = disturbed \cup others \cup IF others = {} THEN {} ELSE {t}
  /\ UNCHANGED <<opened, user, accounts, saved, entered, reasons, stray>>

\* Mutated: the form is popped before its handler awaits anything.
TapFormLeaves(t) ==
  \/ /\ OnTop("login") /\ Last(stack).text \in Emails /\ Begin(t, "login", Last(stack), "overlay")
     /\ UNCHANGED stack
  \/ /\ OnTop("form") /\ Begin(t, "form", Last(stack), "overlay")
     /\ stack' = Front(stack)
  \/ /\ OnTop("reset") /\ Begin(t, "reset", Last(stack), "firebase")
     /\ UNCHANGED stack

\* The forms validate and show the overlay; only ResetPassword does not wait
\* for it and goes on to ask Firebase for the message.
TapForm(t) ==
  /\ \/ OnTop("login") /\ Last(stack).text \in Emails /\ Begin(t, "login", Last(stack), "overlay")
     \/ OnTop("form") /\ Begin(t, "form", Last(stack), "overlay")
     \/ OnTop("reset") /\ Begin(t, "reset", Last(stack), "firebase")
  /\ UNCHANGED stack

\* "Yes" in the child's dialog pops the dialog and awaits Firebase; the page to
\* replace is the one beneath.
TapSignOut(t) ==
  /\ OnTop("dialog") /\ ~IsParent
  /\ stack' = Front(stack)
  /\ Begin(t, "signout", Last(stack'), "firebase")

\* Handler t goes on to await something else.
Await(t, awaits) ==
  /\ handler' = [handler EXCEPT ![t].awaits = awaits]
  /\ UNCHANGED <<opened, user, overlay, entered, disturbed>>

\* Handler t ends, the user told so; o: whether the overlay is still up.
End(t, told, o) ==
  /\ handler' = [handler EXCEPT ![t].awaits = "nothing", ![t].told = told]
  /\ overlay' = o
  /\ UNCHANGED <<user, accounts, saved, disturbed>>

\* The context of a page that was left throws once its exit animation is over,
\* as does the context of the dialog that was popped.
ContextMayBeGone(t) == ~OnStack(handler[t].route) \/ handler[t].form = "signout"

\* Handler t pops or replaces the page on top: not its own if that one was
\* covered or left.
ActOnTop(t) ==
  /\ stack # << >>
  /\ stray' = IF Last(stack).id = handler[t].route THEN stray ELSE stray \cup {t}

\* Mutated: the list the page loaded is extended.
SaveEmailLoaded(t) ==
  /\ handler[t].awaits = "preferences"
  /\ LET e == handler[t].text
         Mine(n) == stack[n].id = handler[t].route
         list == IF \E n \in DOMAIN stack : Mine(n)
                 THEN stack[CHOOSE n \in DOMAIN stack : Mine(n)].suggestons ELSE accounts
     IN /\ accounts' = IF Contains(list, e) THEN list ELSE Append(list, e)
        /\ saved' = saved \cup {e}
  /\ Await(t, "stored")
  /\ UNCHANGED <<stack, reasons, stray>>

\* saveEmail got the preferences: it reads the list, adds the address it was
\* called with if that is new, and writes the list back, with no await in between.
SaveEmail(t) ==
  /\ handler[t].awaits = "preferences"
  /\ LET e == handler[t].text IN
       /\ accounts' = IF Contains(accounts, e) THEN accounts ELSE Append(accounts, e)
       /\ saved' = saved \cup {e}
  /\ stack' = [n \in DOMAIN stack |->
                 IF stack[n].id = handler[t].route THEN [stack[n] EXCEPT !.suggestons = accounts']
                 ELSE stack[n]]
  /\ Await(t, "stored")
  /\ UNCHANGED <<reasons, stray>>

\* The overlay is up: Provider.of finds AuthProvider, loginUser does nothing, and
\* saveEmail is called with what is in the text field now.
LoginShown(t) ==
  /\ handler[t].form = "login" /\ handler[t].awaits = "overlay"
  /\ Await(t, "preferences")
  /\ UNCHANGED <<stack, accounts, saved, reasons, stray>>

\* The list is stored: HomePage replaces the page on top.
LoginEnds(t) ==
  /\ handler[t].awaits = "stored"
  /\ ActOnTop(t)
  /\ PushReplacement(stack, "home")
  /\ entered' = "email"
  /\ End(t, "done", FALSE)
  /\ UNCHANGED reasons

\* Mutated: the pop is left to the caller, who pops, too.
FormPopsTwice(t) ==
  /\ handler[t].form = "form" /\ handler[t].awaits = "overlay"
  /\ Len(stack) > 1
  /\ stack' = Front(Front(stack))
  /\ stray' = stray \cup {t}
  /\ End(t, "done", FALSE)
  /\ UNCHANGED <<opened, entered, reasons>>

\* The overlay is up: AuthProvider does nothing, the user is told that the
\* account is stored, and the page on top is popped.
FormEnds(t) ==
  /\ handler[t].form = "form" /\ handler[t].awaits = "overlay"
  /\ ActOnTop(t)
  /\ stack' = Front(stack)
  /\ End(t, "done", FALSE)
  /\ UNCHANGED <<opened, entered, reasons>>

\* Mutated: the early return skips the dismissal.
FormMismatchReturns(t) ==
  /\ handler[t].form = "form" /\ handler[t].awaits = "overlay"
  /\ End(t, "mismatch", overlay)
  /\ UNCHANGED <<stack, opened, entered, reasons, stray>>

\* The forms that modify an account return when the passwords do not match.
FormMismatch(t) ==
  /\ handler[t].form = "form" /\ handler[t].awaits = "overlay"
  /\ End(t, "mismatch", FALSE)
  /\ UNCHANGED <<stack, opened, entered, reasons, stray>>

\* The context of a page that was left throws; the forms and the login page
\* report whatever they catch as a failure.
FailsWhenLeft(t) ==
  /\ handler[t].form \in {"login", "form"} /\ handler[t].awaits \in {"overlay", "stored"}
  /\ ContextMayBeGone(t)
  /\ End(t, "failed", FALSE)
  /\ UNCHANGED <<stack, opened, entered, reasons, stray>>

\* The preferences threw.
StoreFails(t) ==
  /\ MayFail
  /\ handler[t].awaits \in {"preferences", "stored"}
  /\ End(t, "not stored", FALSE)
  /\ UNCHANGED <<stack, opened, entered, reasons, stray>>

\* Firebase sent the message (external): the overlay is gone, and the page on
\* top is popped unless the context throws.
ResetEnds(t) ==
  /\ handler[t].form = "reset" /\ handler[t].awaits = "firebase"
  /\ \/ /\ ActOnTop(t)
        /\ stack' = Front(stack)
        /\ End(t, "done", FALSE)
     \/ /\ ContextMayBeGone(t)
        /\ End(t, "nothing", FALSE)
        /\ UNCHANGED <<stack, stray>>
  /\ UNCHANGED <<opened, entered, reasons>>

\* Firebase refused (external): a FirebaseAuthException is reported; anything
\* else is not caught, and the overlay stays.
ResetFails(t) ==
  /\ handler[t].form = "reset" /\ handler[t].awaits = "firebase"
  /\ \/ End(t, "failed", FALSE)
     \/ ContextMayBeGone(t) /\ End(t, "nothing", FALSE)
     \/ End(t, "exception", overlay)
  /\ UNCHANGED <<stack, opened, entered, reasons, stray>>

\* Firebase signed the child out (external): the login page replaces the page on
\* top, unless the context of the dialog throws, as does signOut.
SignOutEnds(t) ==
  /\ handler[t].form = "signout" /\ handler[t].awaits = "firebase"
  /\ \/ /\ ActOnTop(t)
        /\ PushReplacement(stack, "login")
        /\ End(t, "done", overlay)
        /\ reasons' = reasons \cup {"signed out"}
     \/ /\ End(t, "exception", overlay)
        /\ UNCHANGED <<stack, opened, reasons, stray>>
  /\ UNCHANGED entered

HandlerStep(t) ==
  \/ LoginShown(t) \/ SaveEmail(t) \/ LoginEnds(t)
  \/ FormEnds(t) \/ FormMismatch(t) \/ FailsWhenLeft(t) \/ StoreFails(t)
  \/ ResetEnds(t) \/ ResetFails(t) \/ SignOutEnds(t)

Next ==
  \/ \E page \in Pages : OpenPage(page)
  \/ Back \/ EnterAsGuest \/ Register \/ SignOut \/ LoadSuggestons
  \/ \E e \in Texts : Edit(e)
  \/ \E t \in Taps : TapForm(t) \/ TapSignOut(t) \/ HandlerStep(t)

Spec == Init /\ [][Next]_vars

\* The event loop runs a handler whose future is complete, and the overlay, the
\* preferences and Firebase complete theirs.  Nothing is assumed of the user.
FairSpec == Spec /\ \A t \in Taps : WF_vars(HandlerStep(t))

-----------------------------------------------------------------------------
(* Properties *)

\* Every variable has its type.
TypeOK ==
  /\ stack \in Seq([page : Pages, id : 1..MaxRoutes, text : Texts,
                    suggestons : Seq(Texts), loading : BOOLEAN])
  /\ opened \in 1..MaxRoutes
  /\ user \in {"default", "guest"}
  /\ accounts \in Seq(Texts)
  /\ handler \in [Taps -> [form : {"none", "login", "form", "reset", "signout"},
                           route : 0..MaxRoutes, text : Texts,
                           awaits : {"unused", "overlay", "preferences", "stored",
                                     "firebase", "nothing"},
                           told : {"nothing", "done", "mismatch", "failed", "not stored",
                                   "exception"}]]
  /\ overlay \in BOOLEAN
  /\ saved \subseteq Texts
  /\ entered \in {"none", "email", "guest"}
  /\ reasons \subseteq {"signed out", "edited"}
  /\ disturbed \subseteq Taps /\ stray \subseteq Taps

\* The suggested addresses are exactly those that were saved, each once, whatever
\* sign-ins overlap and however many login pages are open; and an address that
\* the validator refuses gets among them only by an edit between the validation
\* and the saving (login_email_page.dart:169-178, 256-263).
SuggestionsKept ==
  /\ ToSet(accounts) = saved
  /\ Len(accounts) = Cardinality(saved)
  /\ NoText \in saved => "edited" \in reasons

\* "Signing in failed, check account or password", and the failure of an account
\* form, never are about the account: unless the preferences failed, they are
\* only said to a user who did something else while the handler ran, who left
\* the page or whose other tap took it away (login_email_page.dart:169-194,
\* member_create_page.dart:277-294).
FailureHasReason ==
  \A t \in Taps : handler[t].form \in {"login", "form"} /\ handler[t].told = "failed"
    => t \in disturbed

\* A handler pops or replaces a page other than its own only where the user
\* tapped something else while it ran; and the screen is empty only after that.
WrongPageHasReason ==
  /\ stray \subseteq disturbed
  /\ stack = << >> => stray # {}

\* Somebody who signs in with an address and gets the pages of the guest before
\* found the login page because there was a sign-out, which resets no user
\* (management_page.dart:131, my_management_page.dart:134) and may leave a second
\* login page behind HomePage (register_page.dart:167); or because a handler
\* replaced a page that was not its own.
StaleUserHasReason ==
  entered = "email" /\ ~IsParent => "signed out" \in reasons \/ stray # {}

\* The overlay goes away in the end, unless an exception was not caught
\* (reset_password.dart:115).
OverlayGoes ==
  <>[](overlay => \E t \in Taps : handler[t].form = "reset" /\ handler[t].told = "exception")

=============================================================================
