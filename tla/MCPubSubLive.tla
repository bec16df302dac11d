---------------------------- MODULE MCPubSubLive -----------------------------
(***************************************************************************)
(* Progress of push delivery and of a stream.  The environment is the one  *)
(* in which progress can be promised: the dead-letter topic is created     *)
(* first and topics are not deleted, nobody takes leases on the push       *)
(* subscription by hand, the process exits finitely often, and as many ids *)
(* are left as there are messages to dead-letter.                          *)
(***************************************************************************)
EXTENDS PubSub

CONSTANTS
    work, dead,     \* the topic published to, and its dead-letter topic
    pushed,         \* the push subscription of work
    pulled,         \* a subscription of dead
    Limit           \* the deliveries after which pushed gives a message up

MCTopic == {work, dead}
MCSub == {pushed, pulled}
PushedConfig == [topic |-> work, push |-> TRUE, dlt |-> dead, max |-> Limit]
PulledConfig == [topic |-> dead, push |-> FALSE, dlt |-> NoTopic, max |-> 0]
MCConfig == [s \in MCSub |-> IF s = pushed THEN {PushedConfig} ELSE {PulledConfig}]

ASSUME LiveAssumption ==
    /\ work \in Topic /\ dead \in Topic /\ pushed \in Sub /\ pulled \in Sub
    /\ Config[pushed] = {PushedConfig}
    /\ MaxBatch > 0 /\ Limit > 0

LiveNext ==
    \/ \E u \in Topic : CreateTopic(u)
    \/ dead \in topics /\ \E s \in Sub : \E c \in Config[s] : CreateSubscription(s, c)
    \/ DeleteSubscription(pushed)
    \/ msgCounter + Cardinality(Stored(pushed)) + 2 <= MaxId /\ Publish(work, 1)
    \/ \E i \in Id : Acknowledge(pulled, i) \/ Nack(pulled, i) \/ Nack(pushed, i)
    \/ Stream \/ PushStep \/ Endpoint \/ Time \/ Process

(* The loop's ticker and its steps are never starved; Dispatch returns, as *)
(* every POST has a timeout and there are finitely many retries; deadlines *)
(* pass; an open stream's ticker fires; a stopping process exits and the   *)
(* next one starts.                                                        *)
Fairness ==
    /\ WF_vars(PushStep)
    /\ WF_vars(Endpoint)
    /\ \A s \in Sub, i \in Id : WF_vars(DeadlinePasses(s, i))
    /\ \A s \in Sub : WF_vars(StreamPull(s))
    /\ WF_vars(phase = "stopping" /\ Exit)
    /\ WF_vars(Restart)

LiveSpec == Init /\ [][LiveNext]_vars /\ Fairness

(* A push subscription drains, whatever its endpoint answers: a stored     *)
(* message is accepted or, after its attempts, dead-lettered - also when   *)
(* the server is killed in between and the attempts are forgotten.         *)
PushDrains ==
    \A i \in Id : <<pushed, i>> \in Owed /\ dead \in topics ~> <<pushed, i>> \notin Owed

(* No message is posted more often than its subscription's limit by one    *)
(* process: at the limit, the next failure dead-letters it.                *)
AttemptsBounded ==
    \A i \in Stored(pushed) : attempts[pushed][i] <= subs[pushed].max

(* At-least-once on a stream: as long as it is open, a message that was    *)
(* handed back or whose deadline has passed is delivered again.            *)
StreamRedelivers ==
    \A i \in Id : pulled \in streams /\ lease[pulled][i] \in {"ready", "lapsed"}
                  ~> pulled \notin streams \/ lease[pulled][i] \in {"held", "absent"}
=============================================================================
