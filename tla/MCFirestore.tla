----------------------------- MODULE MCFirestore -----------------------------
(***************************************************************************)
(* The store with its listener, in two kinds of behaviours.  In one nobody *)
(* listens: handlers and transactions write, save and announce, an exit    *)
(* may come at any step.  In the other a client listens: a handler saves   *)
(* the documents without anybody else in between, as no listener sees the  *)
(* file, and an exit takes the place of a write.                           *)
(***************************************************************************)
EXTENDS MCFirestoreListen

VARIABLE used

MCCreate == <<[doc |-> d1, op |-> "create"]>>
MCBatches == MCBatch \cup {MCCreate}
MCWhole == {MCDoc}

Unheard == opens' = 0

SavesAlone ==
    (\E w \in Writer : Saving(w)) =>
        /\ writer' # writer /\ exits' = exits
        /\ \A w \in Writer : writer'[w] # writer[w] => Saving(w)

(* Bound: writes and exits while a client listens. *)
MCWrites == 3

Heard ==
    /\ asked' + exits' <= MCWrites /\ begun' = 0
    /\ \A w \in Writer : writer'[w].todo # MCCreate
    /\ SavesAlone

MCInit == ListenInit /\ used \in {"store", "listener"}

MCNext ==
    /\ ListenNext
    /\ UNCHANGED used
    /\ used = "store" => Unheard
    /\ used = "listener" => Heard

MCSpec == MCInit /\ [][MCNext]_<<allVars, used>> /\ ListenFairness
=============================================================================
