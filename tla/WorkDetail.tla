------------------------------ MODULE WorkDetail -----------------------------
(***************************************************************************)
(* WorkDetailPage (src/lib/pages/parent/work_detail_page.dart), the page   *)
(* on which parents confirm or delete a child's chores, on several devices *)
(* at once.  "Yes" in the confirmation dialog runs finishJob and then      *)
(* changePoint, "Yes" in the deletion dialog runs deleteJob; both are one  *)
(* asynchronous handler without try/finally.  The providers are the        *)
(* specifications that JobBoard and PointLedger implement, Board and       *)
(* Account.                                                                *)
(*                                                                         *)
(* The page lists the chores of the last snapshot the device received; the *)
(* dialog captures its chore from that list.  The progress overlay lets    *)
(* taps through, so that "Yes" and "No" can be tapped while a handler      *)
(* runs: a tap is a pair of a device and the number of the tap there.      *)
(***************************************************************************)
EXTENDS Integers, FiniteSets

CONSTANTS Devices,     \* devices on which a parent has the page open
          Taps,        \* taps on "Yes": <<device, number of the tap there>>
          Keys,        \* descriptions of chores
          Points,      \* Points[k]: the points chore k is worth
          InitialOpen, \* how many chores k may be open at first
          MaxTaps,     \* bound: taps on "Yes" in one behaviour
          MaxAttempts, \* runs a transaction is given
          Unreliable,  \* TRUE: replies of the server may be lost
          MayFail,     \* TRUE: calls of the providers may throw
          MayCrash     \* TRUE: the app may be killed

ASSUME PointsAssumption == Points \in [Keys -> Nat \ {0}]
ASSUME TapsAssumption == Taps \subseteq Devices \X Nat /\ IsFiniteSet(Taps)
ASSUME CountsAssumption == InitialOpen \subseteq Nat /\ MaxAttempts \in Nat

On(d) == {t \in Taps : t[1] = d}
NoDialog == [kind |-> "none", key |-> "none"]

VARIABLES open, finished, request, jobStatus, hits,   \* see Board
          balance, amount, payStatus, applied,        \* see Account
          shown,   \* shown[d]: the open chores in the last snapshot
          dialog,  \* dialog[d]: the dialog on top of the page
          routes,  \* routes[d]: 2 with a dialog, 1 without, 0 when d left the page
          stage,   \* stage[t]: how far the handler of tap t is
          orphans, \* handlers whose dialog is gone: their context is unmounted
          spinner, \* spinner[d]: EasyLoading is shown
          unbacked \* history: taps for which no open chore was left

board == <<open, finished, request, jobStatus, hits>>
account == <<balance, amount, payStatus, applied>>
page == <<shown, dialog, routes, stage, orphans, spinner, unbacked>>
vars == <<board, account, page>>

Jobs == INSTANCE Board WITH Calls <- Taps, InitialCounts <- InitialOpen \union {0},
                            status <- jobStatus
Purse == INSTANCE Account WITH Calls <- Taps, InitialPoints <- {0},
                               Amounts <- {Points[k] : k \in Keys},
                               status <- payStatus

Init ==
  /\ Jobs!Init /\ open \in [Keys -> InitialOpen]
  /\ finished = [k \in Keys |-> 0]
  /\ Purse!Init
  /\ shown = [d \in Devices |-> open]
  /\ dialog = [d \in Devices |-> NoDialog]
  /\ routes = [d \in Devices |-> 1]
  /\ stage = [t \in Taps |-> "none"]
  /\ orphans = {}
  /\ spinner = [d \in Devices |-> FALSE]
  /\ unbacked = {}

InHandler(t) == stage[t] \in {"job", "pay"}

\* The calls of the handler of tap t have all returned.
Completed(t) ==
  \/ payStatus[t] = "ok"
  \/ request[t].op = "delete" /\ jobStatus[t] = "ok"

\* Bound: a tap is left.  After the last one neither a snapshot nor a further
\* dialog makes a difference to any handler, and there are none.
TapsLeft == Cardinality({t \in Taps : stage[t] # "none"}) < MaxTaps

-----------------------------------------------------------------------------
(* The page *)

\* The listener delivers a snapshot of job/{email} (external).
Snapshot(d) ==
  /\ TapsLeft
  /\ shown' = [shown EXCEPT ![d] = open]
  /\ UNCHANGED <<board, account, dialog, routes, stage, orphans, spinner, unbacked>>

\* Checkbox or bin of a tile: nothing happens when the chore is finished.
ShowDialog(d, kind, k) ==
  /\ TapsLeft
  /\ routes[d] = 1
  /\ shown[d][k] > 0
  /\ dialog' = [dialog EXCEPT ![d] = [kind |-> kind, key |-> k]]
  /\ routes' = [routes EXCEPT ![d] = 2]
  /\ UNCHANGED <<board, account, shown, stage, orphans, spinner, unbacked>>

\* Navigator.pop: the dialog goes, or the page when the dialog is gone already.
\* The other handlers of the dialog, those that do not end here, go on.
Pop(d, ending) ==
  /\ routes' = [routes EXCEPT ![d] = IF @ > 0 THEN @ - 1 ELSE 0]
  /\ dialog' = [dialog EXCEPT ![d] = NoDialog]
  /\ orphans' = (orphans \union
                   {t \in On(d) : routes[d] = 2 /\ InHandler(t)}) \ ending

TapNo(d) ==
  /\ routes[d] = 2
  /\ Pop(d, {})
  /\ UNCHANGED <<board, account, shown, stage, spinner, unbacked>>

\* The calls under way for chores k.
Pending(k) == {t \in Taps : jobStatus[t] = "pending" /\ request[t].key = k}

\* "Yes": EasyLoading.show, and finishJob or deleteJob is called with the
\* chore the dialog captured.
TapYes(d, t) ==
  /\ routes[d] = 2
  /\ stage[t] = "none" /\ t \in On(d)
  /\ \A u \in On(d) : u[2] < t[2] => stage[u] # "none"
  /\ TapsLeft
  /\ spinner' = [spinner EXCEPT ![d] = TRUE]
  /\ Jobs!Begin(t, IF dialog[d].kind = "confirm" THEN "finish" ELSE "delete",
                dialog[d].key)
  /\ stage' = [stage EXCEPT ![t] = "job"]
  /\ unbacked' = IF open[dialog[d].key] > Cardinality(Pending(dialog[d].key))
                 THEN unbacked ELSE unbacked \union {t}
  /\ UNCHANGED <<account, shown, dialog, routes, orphans>>

-----------------------------------------------------------------------------
(* The handlers *)

\* Mutated: the overlay stays.
EndHandlerSpinning(t) ==
  /\ UNCHANGED spinner
  /\ Pop(t[1], {t})
  /\ stage' = [stage EXCEPT ![t] = "end"]
  /\ UNCHANGED <<shown, unbacked>>

\* EasyLoading.dismiss, Navigator.pop and the toast end a handler.
EndHandler(t) ==
  /\ spinner' = [spinner EXCEPT ![t[1]] = FALSE]
  /\ Pop(t[1], {t})
  /\ stage' = [stage EXCEPT ![t] = "end"]
  /\ UNCHANGED <<shown, unbacked>>

\* Mutated: the exception is swallowed.
ThrowSwallowed(t) ==
  /\ stage' = [stage EXCEPT ![t] = "end"]
  /\ orphans' = orphans \ {t}
  /\ UNCHANGED <<board, account, shown, dialog, routes, unbacked>>

\* An exception ends the handler where it is; nothing is undone.
Throw(t) ==
  /\ stage' = [stage EXCEPT ![t] = "threw"]
  /\ orphans' = orphans \ {t}
  /\ UNCHANGED <<board, account, shown, dialog, routes, unbacked>>

\* deleteJob returned.
AfterDelete(t) ==
  /\ stage[t] = "job" /\ jobStatus[t] = "ok" /\ request[t].op = "delete"
  /\ EndHandler(t)
  /\ UNCHANGED <<board, account>>

\* Mutated: a failed finishJob is paid, too; the handler ends without paying.
AfterFinishEvenFailed(t) ==
  /\ stage[t] = "job" /\ jobStatus[t] \in {"ok", "failed"}
  /\ request[t].op = "finish"
  /\ Purse!Begin(t, Points[request[t].key])
  /\ stage' = [stage EXCEPT ![t] = "pay"]
  /\ UNCHANGED <<board, shown, dialog, routes, orphans, spinner, unbacked>>

AfterFinishUnpaid(t) ==
  /\ stage[t] = "job" /\ jobStatus[t] = "ok" /\ request[t].op = "finish"
  /\ EndHandler(t)
  /\ UNCHANGED <<board, account>>

\* finishJob returned, whether it finished a chore or found none: changePoint
\* is called with the points of the chore the dialog captured.
AfterFinish(t) ==
  /\ stage[t] = "job" /\ jobStatus[t] = "ok" /\ request[t].op = "finish"
  /\ Purse!Begin(t, Points[request[t].key])
  /\ stage' = [stage EXCEPT ![t] = "pay"]
  /\ UNCHANGED <<board, shown, dialog, routes, orphans, spinner, unbacked>>

AfterPay(t) ==
  /\ stage[t] = "pay" /\ payStatus[t] = "ok"
  /\ EndHandler(t)
  /\ UNCHANGED <<board, account>>

\* A provider threw, or Provider.of was given the context of a dialog that is
\* gone, which throws once the dialog's exit animation is over: the handler does
\* not come to EasyLoading.dismiss.
CallThrows(t) ==
  /\ \/ stage[t] = "job" /\ jobStatus[t] = "failed"
     \/ stage[t] = "pay" /\ payStatus[t] = "failed"
     \/ /\ t \in orphans /\ stage[t] = "job" /\ jobStatus[t] = "ok"
        /\ request[t].op = "finish"
  /\ Throw(t)
  /\ UNCHANGED spinner

\* The calls returned and the overlay is dismissed; then Navigator.of throws
\* for a dialog that is gone.
PopThrows(t) ==
  /\ t \in orphans /\ InHandler(t) /\ Completed(t)
  /\ Throw(t)
  /\ spinner' = [spinner EXCEPT ![t[1]] = FALSE]

HandlerThrows(t) == CallThrows(t) \/ PopThrows(t)

\* The providers' transactions, see Board and Account.
JobStep(t) ==
  /\ \/ Jobs!Succeed(t) \/ Jobs!Miss(t) \/ Jobs!ChangeUnseen(t)
     \/ MayFail /\ Jobs!Fail(t)
  /\ UNCHANGED <<account, page>>

PayStep(t) ==
  /\ \/ Purse!Succeed(t) \/ Purse!CreditUnseen(t)
     \/ MayFail /\ Purse!Fail(t)
  /\ UNCHANGED <<board, page>>

\* The app is killed and started again: its handlers are gone, a request that
\* was sent may still arrive.
Crash(d) ==
  /\ MayCrash
  /\ \E t \in On(d) : InHandler(t)
  /\ stage' = [t \in Taps |-> IF t \in On(d) /\ InHandler(t)
                              THEN "killed" ELSE stage[t]]
  /\ routes' = [routes EXCEPT ![d] = 1]
  /\ dialog' = [dialog EXCEPT ![d] = NoDialog]
  /\ spinner' = [spinner EXCEPT ![d] = FALSE]
  /\ shown' = [shown EXCEPT ![d] = open]
  /\ orphans' = orphans \ On(d)
  /\ UNCHANGED <<board, account, unbacked>>

HandlerStep(t) ==
  \/ AfterDelete(t) \/ AfterFinish(t) \/ AfterPay(t) \/ HandlerThrows(t)
  \/ JobStep(t) \/ PayStep(t)

Next ==
  \/ \E d \in Devices :
       \/ Snapshot(d) \/ TapNo(d) \/ Crash(d)
       \/ \E kind \in {"confirm", "delete"}, k \in Keys : ShowDialog(d, kind, k)
       \/ \E t \in On(d) : TapYes(d, t)
  \/ \E t \in Taps : HandlerStep(t)

Spec == Init /\ [][Next]_vars

\* Requests are answered and the event loop runs a handler that can go on;
\* nothing is assumed of the parents and of the listener.
FairSpec == Spec /\ \A t \in Taps : WF_vars(HandlerStep(t))

-----------------------------------------------------------------------------
(* Properties *)

\* Type correctness of the page's own state.
TypeOK ==
  /\ shown \in [Devices -> [Keys -> Nat]]
  /\ dialog \in [Devices -> [kind : {"confirm", "delete"}, key : Keys]
                            \union {NoDialog}]
  /\ routes \in [Devices -> 0..2]
  /\ \A d \in Devices : routes[d] = 2 <=> dialog[d] # NoDialog
  /\ stage \in [Taps -> {"none", "job", "pay", "end", "threw", "killed"}]
  /\ orphans \subseteq Taps /\ unbacked \subseteq Taps
  /\ spinner \in [Devices -> BOOLEAN]

\* The confirmations and the deletions of chore k.
Confirmations(k) == {t \in Taps : request[t].op = "finish" /\ request[t].key = k}
Deletions(k) == {t \in Taps : request[t].op = "delete" /\ request[t].key = k}

\* What the calls in T did, one element for each time a call did it: hits are
\* their changes of the board, applied their payments.
Times(T, count) == {h \in T \X (1..MaxAttempts) : h[2] <= count[h[1]]}
Repeats(T, count) == {h \in Times(T, count) : h[2] > 1}

\* A chore is never finished and left unpaid without a trace: every finished
\* chore was finished by a confirmation, and that one has paid, or is still
\* running, or was cut short by an exception or by the end of the app
\* (work_detail_page.dart:494-518).
UnpaidHasReason ==
  \A k \in Keys :
    /\ finished[k] = Cardinality(Times(Confirmations(k), hits))
    /\ \A t \in Confirmations(k) :
         hits[t] > 0 => \/ applied[t] > 0
                        \/ InHandler(t) \/ stage[t] \in {"threw", "killed"}

\* A chore is paid more often than it was finished only where "Yes" was tapped
\* although all open chores of that description were taken (by a call under
\* way, on this device or another, or before the snapshot was renewed), where a
\* deletion whose reply was lost removed another chore when it ran again, or
\* where a payment whose reply was lost was made again.  Each such tap and each
\* such repetition costs at most one payment too many (job.dart:71-81,
\* work_detail_page.dart:496-514).
OverpaidHasReason ==
  \A k \in Keys :
    Cardinality(Times(Confirmations(k), applied)) <=
      finished[k] + Cardinality({t \in unbacked : request[t].key = k})
                  + Cardinality(Repeats(Deletions(k), hits))
                  + Cardinality(Repeats(Confirmations(k), applied))

\* The progress overlay outlives the handlers only where one of them threw
\* before it came to EasyLoading.dismiss, that is, before its calls had all
\* returned (work_detail_page.dart:393-405, 495-515).
SpinnerHasReason ==
  \A d \in Devices :
    spinner[d] => \E t \in On(d) : \/ InHandler(t)
                                   \/ stage[t] = "threw" /\ ~Completed(t)

\* In the end every confirmation is paid, or was cut short by an exception or by
\* the end of the app (work_detail_page.dart:494-518).
ConfirmedGetsPaid ==
  <>[](\A k \in Keys : \A t \in Confirmations(k) :
         applied[t] > 0 \/ stage[t] \in {"threw", "killed"})

\* What the dialog says, that confirming a chore pays its points, read as a
\* bound: a chore is paid once, when it is finished.
PaidOnlyWhenFinished ==
  \A k \in Keys : Cardinality(Times(Confirmations(k), applied)) <= finished[k]

=============================================================================
