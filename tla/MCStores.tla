------------------------------ MODULE MCStores ------------------------------
(***************************************************************************)
(* The services that answer each request from their own store - Cloud      *)
(* Storage, Secret Manager and Cloud KMS - in the one process they share.  *)
(* They meet in its exit and its start and nowhere else: no store refers   *)
(* to another.  So a behaviour in which clients use one of them shows all  *)
(* there is to see of it, and the initial state says which one.            *)
(***************************************************************************)
EXTENDS CloudStorage, SecretVersions, KeyVersions, FirestoreQuery, TLC

CONSTANTS
    MaxCalls,       \* bound: requests of the clients of each service
    b1, b2, n1, c1, c2, h1, h2, s1, p1, p2, g1, k1, k2, t1, t2, r1, r2

VARIABLES used, calls

all == <<process, storage, secretVars, keyVars, queryVars, used, calls>>

MCTarget == [c \in {c1, c2} |-> [bucket |-> b1, name |-> n1]]
MCMaxCalls == [storage |-> 8, secrets |-> 8, keys |-> 5, queries |-> 3]

(* Three documents in two collections.  In the field age they have a       *)
(* number, a string or nothing, in the field tags arrays.                  *)
Num(n) == [type |-> 2, n |-> n, elems |-> {}]
Str(n) == [type |-> 4, n |-> n, elems |-> {}]
Arr(e) == [type |-> 8, n |-> 0, elems |-> e]
MCMembers == [c \in {"users", "teams"} |-> IF c = "users" THEN {1, 2} ELSE {3}]
Young == [age |-> Num(1), tags |-> Arr({Num(1)})]
Old == [age |-> Num(2), tags |-> Missing]
Unknown == [age |-> Str(1), tags |-> Arr({Num(1), Num(2)})]
MCFieldsOf == {Young, Old, Unknown}
MCLoaded == {<<NoFields, NoFields, NoFields>>, <<Young, Old, Unknown>>,
             <<Unknown, Young, Young>>, <<Old, NoFields, Young>>}
Where(field, op, value) == [field |-> field, op |-> op, value |-> value]
By(field, desc) == [field |-> field, desc |-> desc]
Ask(from, compose, filters, order, offset, limit) ==
    [from |-> from, compose |-> compose, filters |-> filters, order |-> order,
     offset |-> offset, limit |-> limit]
MCQuery == {
    Ask(<<"users">>, "AND", <<Where("age", ">=", Num(1)), Where("tags", "array-contains", Num(1))>>,
        <<>>, 0, NoLimit),
    Ask(<<"users", "teams">>, "OR", <<Where("age", "in", Arr({Num(2), Str(1)})), Where("age", "<", Num(2))>>,
        <<By("age", TRUE)>>, 0, 2),
    Ask(<<"teams", "users">>, "AND", <<>>, <<By("age", FALSE), By("__name__", TRUE)>>, 1, 1),
    Ask(<<"users">>, "OR", <<Where("tags", "array-contains-any", Arr({Num(2)})), Where("age", "!=", Num(3))>>,
        <<>>, 1, NoLimit)}

MCSymmetry ==
    UNION {Permutations(x) : x \in {{c1, c2}, {h1, h2}, {p1, p2}, {k1, k2}, {t1, t2}, {r1, r2}}}

Init ==
    /\ ProcessInit /\ StorageInit /\ SecretsInit /\ KeysInit /\ QueriesInit
    /\ used \in DOMAIN MaxCalls
    /\ (used = "queries") = (maps # <<>>)
    /\ calls = 0

Request(service) ==
    /\ used = service
    /\ calls < MaxCalls[service]
    /\ calls' = calls + 1
    /\ UNCHANGED used

ClientStep ==
    \/ /\ Request("storage") /\ (StorageApi \/ UploadRequest)
       /\ UNCHANGED <<secretVars, keyVars, queryVars>>
    \/ /\ Request("secrets") /\ SecretsApi
       /\ UNCHANGED <<storage, keyVars, queryVars>>
    \/ /\ Request("keys") /\ KeysApi
       /\ UNCHANGED <<storage, secretVars, queryVars>>
    \/ /\ Request("queries") /\ QueriesApi
       /\ UNCHANGED <<process, storage, secretVars, keyVars>>

HandlerStep ==
    /\ UNCHANGED <<used, calls, secretVars>>
    /\ \/ UploadStep /\ UNCHANGED <<keyVars, queryVars>>
       \/ KeysStep /\ UNCHANGED <<storage, queryVars>>
       \/ QueriesStep /\ UNCHANGED <<process, storage, keyVars>>

(* FirestoreStore models what an exit does to documents.                   *)
ProcessStep ==
    /\ used # "queries"
    /\ UNCHANGED <<used, calls, queryVars>>
    /\ \/ Stops /\ StorageExit /\ SecretsExit /\ KeysExit
       \/ Stops /\ used = "storage" /\ StorageExitInWrite /\ SecretsExit /\ KeysExit
       \/ Stops /\ used = "secrets" /\ StorageExit /\ SecretsExitInWrite /\ KeysExit
       \/ Starts /\ StorageLoad /\ SecretsLoad /\ UNCHANGED keyVars

Next == ClientStep \/ HandlerStep \/ ProcessStep

Spec == Init /\ [][Next]_all

-----------------------------------------------------------------------------

(* What the modules say of their variables.                                *)
StoresTypeOK == StorageTypeOK /\ SecretsTypeOK /\ KeysTypeOK /\ QueriesTypeOK

(* What a client was answered for is in the file of its service.           *)
AnsweredIsSaved == BlobsCurrent /\ SecretsSaved
=============================================================================
