----------------------------- MODULE AtMostOnce -----------------------------
(***************************************************************************)
(* What delivery promises, without receipts, keys, retries or crashes:     *)
(* a slot (one part of one message) is open until the migration knows its  *)
(* outcome; it lands in the destination at most once; "refused" is said    *)
(* only of what is not there and "landed" only of what is, and "landed" is *)
(* final.                                                                  *)
(***************************************************************************)
EXTENDS Naturals

CONSTANTS Slot

VARIABLES copies,   \* how often the slot's message is in the destination
          verdict   \* what the migration has established of the slot

vars == <<copies, verdict>>

Init ==
    /\ copies = [s \in Slot |-> 0]
    /\ verdict = [s \in Slot |-> "open"]

\* The service creates the message; nobody need know yet.
Land(s) ==
    /\ verdict[s] = "open"
    /\ copies[s] = 0
    /\ copies' = [copies EXCEPT ![s] = 1]
    /\ UNCHANGED verdict

\* A verdict may change only to one that is true of the slot.
Rule(s, v) ==
    \/ v = verdict[s]
    \/ verdict[s] = "open" /\ v = "landed" /\ copies[s] = 1
    \/ verdict[s] = "open" /\ v = "refused" /\ copies[s] = 0
    \/ verdict[s] = "refused" /\ v = "open"

Learn ==
    /\ verdict' \in [Slot -> {"open", "landed", "refused"}]
    /\ \A s \in Slot : Rule(s, verdict'[s])
    /\ UNCHANGED copies

Next == Learn \/ \E s \in Slot : Land(s)

Spec == Init /\ [][Next]_vars
=============================================================================
