--------------------------- MODULE SecretVersions ---------------------------
(***************************************************************************)
(* The Secret Manager emulator: secrets with their numbered versions       *)
(* (internal/secretmanager/store.go), the RPCs that create, add, enable,   *)
(* disable, destroy and delete (internal/secretmanager/service.go), the    *)
(* state file, exit and restart.  An RPC is one store method, and a store  *)
(* method holds the mutex throughout: one action each.                     *)
(***************************************************************************)
EXTENDS Integers, Sequences, ServerProcess

CONSTANTS
    Secret,         \* secret names
    Payload,        \* what clients store
    NoPayload,      \* what is left of a destroyed version
    MaxVersions     \* bound: versions of a secret

ASSUME SecretAssumption == MaxVersions \in Nat /\ NoPayload \notin Payload

VARIABLES
    secrets,    \* Store.secrets
    vault,      \* secretmanager/state.json
    kept        \* history: what clients added to each secret, and destroyed

secretVars == <<secrets, vault, kept>>

(* A secret numbers its versions from 1: next = 0 stands for no secret.    *)
NoSecret == [versions |-> <<>>, next |-> 0]
NoSecrets == [s \in Secret |-> NoSecret]
Known(s) == secrets[s].next # 0

SaveSecrets == vault' = IF DataDir THEN secrets' ELSE vault

-----------------------------------------------------------------------------

CreateSecret(s) ==
    /\ up /\ ~Known(s)
    /\ secrets' = [secrets EXCEPT ![s] = [versions |-> <<>>, next |-> 1]]
    /\ SaveSecrets
    /\ UNCHANGED <<process, kept>>

DeleteSecret(s) ==
    /\ up /\ Known(s)
    /\ secrets' = [secrets EXCEPT ![s] = NoSecret]
    /\ kept' = [kept EXCEPT ![s] = <<>>]
    /\ SaveSecrets
    /\ UNCHANGED process

(* Mistaken variant: the state is left as the API's default.               *)
NewVersionUnspecified(n, p) == [num |-> n, state |-> "unspecified", payload |-> p]

NewVersion(n, p) == [num |-> n, state |-> "enabled", payload |-> p]

AddSecretVersion(s, p) ==
    /\ up /\ Known(s)
    /\ Len(secrets[s].versions) < MaxVersions
    /\ secrets' = [secrets EXCEPT ![s] =
          [versions |-> Append(secrets[s].versions, NewVersion(secrets[s].next, p)),
           next |-> secrets[s].next + 1]]
    /\ kept' = [kept EXCEPT ![s] = Append(kept[s], [payload |-> p, destroyed |-> FALSE])]
    /\ SaveSecrets
    /\ UNCHANGED process

(* resolveVersion: where the version is that a request names.  "latest" is *)
(* the last one, whatever state it is in; a number is looked for, from the *)
(* first version on.                                                       *)
Latest == 0
IsVersion(s, id, i) ==
    /\ i \in DOMAIN secrets[s].versions
    /\ IF id = Latest THEN i = Len(secrets[s].versions)
       ELSE /\ secrets[s].versions[i].num = id
            /\ \A j \in 1..(i - 1) : secrets[s].versions[j].num # id

SetVersion(s, i, v) ==
    /\ secrets' = [secrets EXCEPT ![s] =
          [versions |-> [j \in DOMAIN secrets[s].versions |->
                            IF j = i THEN v ELSE secrets[s].versions[j]],
           next |-> secrets[s].next]]
    /\ SaveSecrets

(* Mistaken variant: any version may be enabled.                           *)
AnyState(v) == TRUE

Changeable(v) == v.state # "destroyed"

EnableSecretVersion(s, id) ==
    /\ up
    /\ \E i \in 1..MaxVersions :
        /\ IsVersion(s, id, i)
        /\ Changeable(secrets[s].versions[i])
        /\ SetVersion(s, i, [secrets[s].versions[i] EXCEPT !.state = "enabled"])
    /\ UNCHANGED <<process, kept>>

(* Mistaken variant: the change is not written.                            *)
DisableUnwritten(s, id) ==
    /\ up
    /\ \E i \in 1..MaxVersions :
        /\ IsVersion(s, id, i)
        /\ Changeable(secrets[s].versions[i])
        /\ secrets' = [secrets EXCEPT ![s].versions[i].state = "disabled"]
    /\ UNCHANGED <<process, vault, kept>>

DisableSecretVersion(s, id) ==
    /\ up
    /\ \E i \in 1..MaxVersions :
        /\ IsVersion(s, id, i)
        /\ Changeable(secrets[s].versions[i])
        /\ SetVersion(s, i, [secrets[s].versions[i] EXCEPT !.state = "disabled"])
    /\ UNCHANGED <<process, kept>>

(* Also of a version that is destroyed already.                            *)
DestroySecretVersion(s, id) ==
    /\ up
    /\ \E i \in 1..MaxVersions :
        /\ IsVersion(s, id, i)
        /\ SetVersion(s, i, [num |-> secrets[s].versions[i].num,
                             state |-> "destroyed", payload |-> NoPayload])
        /\ kept' = [kept EXCEPT ![s] = [j \in DOMAIN kept[s] |->
              IF j = i THEN [payload |-> kept[s][j].payload, destroyed |-> TRUE] ELSE kept[s][j]]]
    /\ UNCHANGED process

-----------------------------------------------------------------------------
(* What the exit and the start of the process do to the service.           *)

SecretsExit == secrets' = NoSecrets /\ UNCHANGED <<vault, kept>>

(* The process goes away while it writes: what is left does not parse.     *)
SecretsExitInWrite == DataDir /\ secrets' = NoSecrets /\ vault' = NoSecrets /\ UNCHANGED kept

SecretsLoad ==
    /\ secrets' = vault
    /\ kept' = [s \in Secret |-> IF vault[s].next = 0 THEN <<>> ELSE kept[s]]
    /\ UNCHANGED vault

-----------------------------------------------------------------------------

SecretsInit == secrets = NoSecrets /\ vault = NoSecrets /\ kept = [s \in Secret |-> <<>>]

SecretsApi ==
    \E s \in Secret :
        \/ CreateSecret(s) \/ DeleteSecret(s)
        \/ \E p \in Payload : AddSecretVersion(s, p)
        \/ \E id \in {Latest} \cup 1..MaxVersions :
              EnableSecretVersion(s, id) \/ DisableSecretVersion(s, id) \/ DestroySecretVersion(s, id)

SecretsNext ==
    \/ SecretsApi
    \/ Stops /\ (SecretsExit \/ SecretsExitInWrite)
    \/ Starts /\ SecretsLoad

SecretsSpec == ProcessInit /\ SecretsInit /\ [][SecretsNext]_<<process, secretVars>>

-----------------------------------------------------------------------------
(* Properties.                                                             *)

Version == [num : Nat, state : {"enabled", "disabled", "destroyed"},
            payload : Payload \cup {NoPayload}]
SecretData == [versions : Seq(Version), next : Nat]

(* Every variable is of its type.                                          *)
SecretsTypeOK ==
    /\ ProcessTypeOK
    /\ secrets \in [Secret -> SecretData]
    /\ vault \in [Secret -> SecretData]
    /\ kept \in [Secret -> Seq([payload : Payload, destroyed : BOOLEAN])]

(* The i-th version is number i, is destroyed exactly if a client ever had *)
(* it destroyed, and otherwise holds what was added as the i-th.           *)
Agrees(v, i, k) ==
    /\ v.num = i
    /\ v.state = "destroyed" <=> k.destroyed
    /\ v.payload = IF k.destroyed THEN NoPayload ELSE k.payload

Faithful(d, ks) ==
    /\ d.next = Len(d.versions) + 1
    /\ Len(d.versions) = Len(ks)
    /\ \A i \in DOMAIN d.versions : Agrees(d.versions[i], i, ks[i])

(* Through any sequence of calls by number or by alias, deletion and       *)
(* re-creation, exits and restarts: the versions of a secret are those its *)
(* clients added since it was created, under the same numbers, each with   *)
(* its own payload until it is destroyed and none after.  A destroyed      *)
(* version is never revived, and its payload is in no file either.         *)
PayloadsKept ==
    \A s \in Secret :
        /\ Known(s) => Faithful(secrets[s], kept[s])
        /\ vault[s].next # 0 => Faithful(vault[s], kept[s])

(* What a call was answered for is in the file.                            *)
SecretsSaved == up /\ DataDir => vault = secrets
=============================================================================
