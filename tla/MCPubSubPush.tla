---------------------------- MODULE MCPubSubPush -----------------------------
(***************************************************************************)
(* A push subscription p with a dead-letter topic, and a subscription d of *)
(* the dead-letter topic.  p may be deleted and created again, without its *)
(* push endpoint, while the push loop works on what it listed before.      *)
(***************************************************************************)
EXTENDS PubSub

CONSTANTS t, dead, p, d

MCTopic == {t, dead}
MCSub == {p, d}
Pushed == [topic |-> t, push |-> TRUE, dlt |-> dead, max |-> 1]
Pulled(topic) == [topic |-> topic, push |-> FALSE, dlt |-> NoTopic, max |-> 0]
MCConfig == [s \in MCSub |-> IF s = p THEN {Pushed, Pulled(t)} ELSE {Pulled(dead)}]
=============================================================================
