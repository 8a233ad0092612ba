------------------------------ MODULE Delivery ------------------------------
(***************************************************************************)
(* What store-and-forward promises of each record, whatever its queue, its *)
(* store and its link go through: a record that was accepted waits until   *)
(* it is delivered, is sent while it waits and not once it was delivered,  *)
(* and nothing but damage comes between.  It may be sent more than once,   *)
(* since an answer may be lost, and a damaged one may be sent as well      *)
(* (docs/06 9.2 to 9.4).                                                   *)
(***************************************************************************)
EXTENDS Integers

CONSTANT Records  \* the numbers of the records

VARIABLES
    fate,  \* what has become of each record
    sent   \* the records handed to the upstream in this step

Fate == {"absent", "waiting", "delivered", "damaged"}

\* Records are accepted in the order of their numbers.
Accept(s) ==
    /\ fate[s] = "absent"
    /\ \A r \in Records : r < s => fate[r] # "absent"
    /\ fate' = [fate EXCEPT ![s] = "waiting"]
    /\ sent' = {}

\* Those in C are confirmed; of the others the upstream said nothing.
Send(S, C) ==
    /\ \A s \in S : fate[s] \in {"waiting", "damaged"}
    /\ fate' = [s \in Records |-> IF s \in C /\ fate[s] = "waiting"
                                  THEN "delivered" ELSE fate[s]]
    /\ sent' = S

Spoil(s) ==
    /\ fate[s] # "absent"
    /\ fate' = [fate EXCEPT ![s] = "damaged"]
    /\ sent' = {}

Rest == fate' = fate /\ sent' = {}

Init == fate = [s \in Records |-> "absent"] /\ sent = {}

Next ==
    \/ \E s \in Records : Accept(s) \/ Spoil(s)
    \/ \E S \in SUBSET Records : \E C \in SUBSET S : Send(S, C)
    \/ Rest

Spec == Init /\ [][Next]_<<fate, sent>>
=============================================================================
