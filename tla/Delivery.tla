------------------------------ MODULE Delivery -------------------------------
(***************************************************************************)
(* What Pub/Sub's push loop and Cloud Tasks' goroutines take a dispatch    *)
(* for: it is accepted, which the endpoint has said, or it has failed,     *)
(* which says nothing about what the endpoint has done.  Their actions     *)
(* PostAccepted and PostFailed are these.                                  *)
(***************************************************************************)
VARIABLES
    outcome,    \* "none", "post", "accepted", "failed"
    taken       \* the endpoint has accepted a POST of this dispatch

Send == outcome # "post" /\ outcome' = "post" /\ taken' = FALSE

EndpointTakes == outcome = "post" /\ taken' = TRUE /\ UNCHANGED outcome

(* The answer arrives, to this or an earlier POST's acceptance.            *)
PostAccepted == outcome = "post" /\ outcome' = "accepted" /\ taken' = TRUE

PostFailed == outcome = "post" /\ outcome' = "failed" /\ taken' \in {taken, TRUE}

(* The process ends, and the next one starts.                              *)
Restart == outcome' = "none" /\ taken' = FALSE

Init == outcome = "none" /\ taken = FALSE

Next == Send \/ EndpointTakes \/ PostAccepted \/ PostFailed \/ Restart

Spec == Init /\ [][Next]_<<outcome, taken>>
=============================================================================
