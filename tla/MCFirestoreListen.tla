-------------------------- MODULE MCFirestoreListen --------------------------
(***************************************************************************)
(* One listener that comes and goes, with one target for one document or   *)
(* both, and two handlers that write to them.                              *)
(***************************************************************************)
EXTENDS FirestoreListen

CONSTANTS d1, d2, w1, w2, c1, t1

MCDoc == {d1, d2}
MCWriter == {w1, w2}
MCBatch == {<<[doc |-> d1, op |-> "delete"]>>,
            <<[doc |-> d1, op |-> "set"], [doc |-> d2, op |-> "set"]>>}
MCClient == {c1}
MCTarget == {t1}
MCFilter == {{d1}, {d1, d2}}
=============================================================================
