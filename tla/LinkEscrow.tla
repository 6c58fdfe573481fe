----------------------------- MODULE LinkEscrow -----------------------------
(***************************************************************************)
(* What a payment link promises, whatever carries it: the money of a link  *)
(* is set aside once, under terms that never change afterwards, and is     *)
(* paid out once: to a recipient until the deadline, back to the sender by *)
(* the sender's own decision, or back to the sender after the deadline.    *)
(***************************************************************************)
EXTENDS Integers

CONSTANTS
  Links,      \* payment links
  Parties,    \* who may receive a link
  Nobody,     \* payee of a link that was not claimed
  Promises,   \* amounts a link may carry
  Instants    \* values of the clock a deadline may have

VARIABLES
  status,     \* where each link is in its life
  promise,    \* the amount of each link
  deadline,   \* the last instant at which each link may be claimed
  payee,      \* who claimed each link
  paid,       \* what has been paid out of each link
  clock

escrowVars == <<status, promise, deadline, payee, paid, clock>>

Settled == {"CLAIMED", "CANCELLED", "REFUNDED"}

Init ==
  /\ status = [l \in Links |-> "NONE"]
  /\ promise = [l \in Links |-> 0]
  /\ deadline = [l \in Links |-> 0]
  /\ payee = [l \in Links |-> Nobody]
  /\ paid = [l \in Links |-> 0]
  /\ clock = 0

Open(l, amount, t) ==
  /\ status[l] = "NONE"
  /\ amount > 0
  /\ t > clock
  /\ status' = [status EXCEPT ![l] = "ACTIVE"]
  /\ promise' = [promise EXCEPT ![l] = amount]
  /\ deadline' = [deadline EXCEPT ![l] = t]
  /\ UNCHANGED <<payee, paid, clock>>

\* The payout is the whole promise, and it is the only one.
Settle(l, outcome) ==
  /\ status[l] = "ACTIVE"
  /\ status' = [status EXCEPT ![l] = outcome]
  /\ paid' = [paid EXCEPT ![l] = promise[l]]
  /\ UNCHANGED <<promise, deadline, clock>>

Claim(l, r) ==
  /\ clock <= deadline[l]
  /\ Settle(l, "CLAIMED")
  /\ payee' = [payee EXCEPT ![l] = r]

Cancel(l) == Settle(l, "CANCELLED") /\ UNCHANGED payee

Refund(l) ==
  /\ clock > deadline[l]
  /\ Settle(l, "REFUNDED")
  /\ UNCHANGED payee

Advance ==
  /\ clock' = clock + 1
  /\ UNCHANGED <<status, promise, deadline, payee, paid>>

Next ==
  \/ \E l \in Links, amount \in Promises, t \in Instants : Open(l, amount, t)
  \/ \E l \in Links, r \in Parties : Claim(l, r)
  \/ \E l \in Links : Cancel(l) \/ Refund(l)
  \/ Advance

Spec == Init /\ [][Next]_escrowVars
=============================================================================
