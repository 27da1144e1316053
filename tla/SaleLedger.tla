----------------------------- MODULE SaleLedger -----------------------------
(***************************************************************************)
(* What the sale pipeline promises, without queue, threads or network:     *)
(* a sale is announced to the console, written to the plugin's durable     *)
(* queue, and from then on recorded by the API or refused by it.  The      *)
(* queue lets go of a sale only when the API has answered for it.          *)
(* SaleDelivery is shown to implement this specification.                  *)
(***************************************************************************)

CONSTANT Sales          \* sale_ids the console may create

VARIABLES
  told,                 \* sales the command sender was told are registered
  stored,               \* sales written (ever) to the durable queue
  recorded,             \* sales in the backend's sales table
  refused,              \* sales a delivery was answered 4xx for
  settled               \* sales the queue will not deliver again

ledgerVars == <<told, stored, recorded, refused, settled>>

LedgerTypeOK ==
  /\ told \subseteq Sales
  /\ stored \subseteq Sales
  /\ recorded \subseteq Sales
  /\ refused \subseteq Sales
  /\ settled \subseteq Sales

Init ==
  /\ told = {} /\ stored = {} /\ recorded = {} /\ refused = {} /\ settled = {}

\* The command answers its sender.
Announce(s) ==
  /\ s \notin told
  /\ told' = told \cup {s}
  /\ UNCHANGED <<stored, recorded, refused, settled>>

\* The write-ahead insert of an announced sale becomes durable.
Store(s) ==
  /\ s \in told \ stored
  /\ stored' = stored \cup {s}
  /\ UNCHANGED <<told, recorded, refused, settled>>

\* The API records a sale: only one the queue holds, and never twice.
Record(s) ==
  /\ s \in stored \ recorded
  /\ recorded' = recorded \cup {s}
  /\ UNCHANGED <<told, stored, refused, settled>>

\* The API refuses a delivery of a stored sale.
Refuse(s) ==
  /\ s \in stored \ refused
  /\ refused' = refused \cup {s}
  /\ UNCHANGED <<told, stored, recorded, settled>>

\* The queue settles a sale the API has answered for.
Settle(s) ==
  /\ s \in stored \ settled
  /\ s \in recorded \cup refused
  /\ settled' = settled \cup {s}
  /\ UNCHANGED <<told, stored, recorded, refused>>

Next ==
  \E s \in Sales : Announce(s) \/ Store(s) \/ Record(s) \/ Refuse(s) \/ Settle(s)

Spec == Init /\ [][Next]_ledgerVars
=============================================================================
