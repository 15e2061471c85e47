------------------------------- MODULE Account -------------------------------
(***************************************************************************)
(* What PointProvider.changePoint promises about one child's balance,      *)
(* users/{email}.point: a call adds its points to the balance in one       *)
(* indivisible step, or fails.  When replies can be lost a call may add    *)
(* its points without learning of it, and then add them again or report a  *)
(* failure.  PointLedger implements this specification; the pages          *)
(* (WorkDetail) are modelled on top of it.                                *)
(***************************************************************************)
EXTENDS Integers

CONSTANTS Calls,         \* calls of changePoint, over all devices
          Amounts,       \* points a call may add (negative: a reward redeemed)
          InitialPoints, \* balances the account may start with
          MaxAttempts,   \* runs a transaction is given
          Unreliable     \* TRUE: replies of the server may be lost

VARIABLES balance,  \* the points of the account
          amount,   \* amount[c]: the points call c adds
          status,   \* status[c]: what call c's caller knows of it
          applied   \* applied[c]: how often c's points were added

vars == <<balance, amount, status, applied>>

Statuses == {"idle", "pending", "ok", "failed"}

Init ==
  /\ balance \in InitialPoints
  /\ amount = [c \in Calls |-> 0]
  /\ status = [c \in Calls |-> "idle"]
  /\ applied = [c \in Calls |-> 0]

Begin(c, p) ==
  /\ status[c] = "idle"
  /\ status' = [status EXCEPT ![c] = "pending"]
  /\ amount' = [amount EXCEPT ![c] = p]
  /\ UNCHANGED <<balance, applied>>

\* The points of c reach the balance.
Credit(c) ==
  /\ status[c] = "pending"
  /\ applied[c] < MaxAttempts
  /\ balance' = balance + amount[c]
  /\ applied' = [applied EXCEPT ![c] = @ + 1]
  /\ UNCHANGED amount

Succeed(c) ==
  /\ Credit(c)
  /\ status' = [status EXCEPT ![c] = "ok"]

\* The points were added and the reply was lost: c runs again, or gives up.
CreditUnseen(c) ==
  /\ Unreliable
  /\ Credit(c)
  /\ status' \in {status, [status EXCEPT ![c] = "failed"]}

Fail(c) ==
  /\ status[c] = "pending"
  /\ status' = [status EXCEPT ![c] = "failed"]
  /\ UNCHANGED <<balance, amount, applied>>

Next ==
  \E c \in Calls :
    \/ \E p \in Amounts : Begin(c, p)
    \/ Succeed(c)
    \/ CreditUnseen(c)
    \/ Fail(c)

Spec == Init /\ [][Next]_vars

=============================================================================
