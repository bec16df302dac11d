------------------------- MODULE MCPubSubDeadLetter --------------------------
(***************************************************************************)
(* When is a message dead-lettered?  A history of what the endpoint really *)
(* refused is kept beside the push loop: a POST that failed while the      *)
(* server was up counts, one that the server's own shutdown aborted does   *)
(* not.                                                                    *)
(***************************************************************************)
EXTENDS PubSub

CONSTANTS t, dead, p

VARIABLES
    refused,        \* refused[s][i]: failed deliveries of copy i of s
    forwarded       \* the copies that were dead-lettered

MCTopic == {t, dead}
MCSub == {p}
Limit == 2
MCConfig == [s \in MCSub |->
    {[topic |-> t, push |-> TRUE, dlt |-> dead, max |-> Limit]}]

HistoryInit == Init /\ refused = NoAttempts /\ forwarded = {}

CountFailures ==
    refused' = IF loop.pc = "post" /\ loop'.pc = "failed" /\ phase = "up"
                     /\ refused[loop.sub][loop.cur] < Limit
               THEN [refused EXCEPT ![loop.sub][loop.cur] = @ + 1] ELSE refused

RecordForwards ==
    forwarded' = IF loop.pc = "failed" /\ loop'.pc = "next" /\ issued' > issued
                 THEN forwarded \cup {<<loop.sub, loop.cur>>} ELSE forwarded

HistoryNext == Next /\ CountFailures /\ RecordForwards

HistorySpec == HistoryInit /\ [][HistoryNext]_<<vars, refused, forwarded>>

(* "After 5 failed delivery attempts (nack or deadline exceeded), the      *)
(* message is forwarded to the dead letter topic": a message that was      *)
(* dead-lettered had failed as often as its subscription's limit says.     *)
(* What the push loop counts is how often it took the message from the     *)
(* store, the time the shutdown aborted included.                          *)
ForwardedAfterFailures ==
    \A <<s, i>> \in forwarded : refused[s][i] >= Limit
=============================================================================
