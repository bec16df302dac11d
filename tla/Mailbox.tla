------------------------------- MODULE Mailbox -------------------------------
(***************************************************************************)
(* What the Pub/Sub emulator promises about messages, without its leases,  *)
(* goroutines, files or exits.  A publish puts one copy of a message in    *)
(* the mailbox of every attached subscription; the copy is owed to the     *)
(* subscriber until he acknowledges it, it is exchanged for copies of a    *)
(* dead letter, or the subscription is deleted.  An exit and a restart of  *)
(* the process are not visible here at all, except for the one that tears  *)
(* the state file.                                                         *)
(***************************************************************************)
EXTENDS Integers

CONSTANTS Sub, MaxId

VARIABLES
    owed,       \* the copies <<subscription, id>> that are still owed
    settled,    \* the copies that were acknowledged
    used        \* the highest message id given out

abs == <<owed, settled, used>>

Id == 1..MaxId

Init == owed = {} /\ settled = {} /\ used = 0

Publish(S, n) ==
    /\ owed' = owed \cup (S \X ((used + 1)..(used + n)))
    /\ used' = used + n
    /\ UNCHANGED settled

Settle(s, I) ==
    /\ owed' = owed \ ({s} \X I)
    /\ settled' = settled \cup (owed \cap ({s} \X I))
    /\ UNCHANGED used

DeadLetter(s, i, S) ==
    /\ <<s, i>> \in owed
    /\ owed' = (owed \ {<<s, i>>}) \cup (S \X {used + 1})
    /\ used' = used + 1
    /\ UNCHANGED settled

Close(s) ==
    /\ owed' = owed \ ({s} \X Id)
    /\ UNCHANGED <<settled, used>>

Wipe == owed' = {} /\ settled' = {} /\ used' = 0

Next ==
    \/ \E S \in SUBSET Sub, n \in 1..MaxId : Publish(S, n)
    \/ \E s \in Sub, I \in SUBSET Id : Settle(s, I)
    \/ \E s \in Sub, i \in Id, S \in SUBSET Sub : DeadLetter(s, i, S)
    \/ \E s \in Sub : Close(s)
    \/ Wipe

Spec == Init /\ [][Next]_abs
=============================================================================
