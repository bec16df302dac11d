---------------------------- MODULE KeyVersions -----------------------------
(***************************************************************************)
(* The Cloud KMS emulator: key rings, crypto keys and their one version    *)
(* (internal/kms/store.go), and the RPCs that use them, several of which   *)
(* look a version up in one locked step and use it in another              *)
(* (internal/kms/service.go).  There is no state file.                     *)
(*                                                                         *)
(* Key material is a number that is never drawn twice.  What is made from  *)
(* it, a ciphertext, signature or MAC, is the material and the text it was *)
(* made of: XOR with other material gives another text, and no error.      *)
(***************************************************************************)
EXTENDS Integers, ServerProcess

CONSTANTS
    KeyRing, Key,   \* resource names
    Text,           \* what clients encrypt, sign or authenticate
    Garbage,        \* what decryption with other material gives
    KeyClient,      \* RPCs in progress
    MaxMaterial     \* bound: keys the run may generate

Kind == {"symmetric", "asymmetric", "mac"}
NoKind == "none"
Material == 1..MaxMaterial
NoMaterial == 0

ASSUME KeyAssumption == MaxMaterial \in Nat /\ Garbage \notin Text

VARIABLES
    keyRings,   \* Store.keyRings
    keys,       \* Store.keys: the kind of the key's algorithm, or NoKind
    versions,   \* Store.versions: version 1 of each key, or NoVersion
    rpcs,       \* RPCs between their two steps
    generated,  \* history: key material so far
    products,   \* history: what clients were given
    answer,     \* history: the last answer of Decrypt or MacVerify
    retired     \* history: material that was destroyed

keyVars == <<keyRings, keys, versions, rpcs, generated, products, answer, retired>>

(* A product, with the process that made it as the number of its exits.    *)
Product == [key : Key, kind : Kind, material : Material, text : Text, run : Nat]

NoVersion == [state |-> "absent", kind |-> NoKind, material |-> NoMaterial]
NoVersions == [k \in Key |-> NoVersion]
IdleRpc == [op |-> "idle"]
NoRpcs == [r \in KeyClient |-> IdleRpc]
NoAnswer == [op |-> "none"]

-----------------------------------------------------------------------------

CreateKeyRing(g) ==
    /\ up /\ g \notin keyRings
    /\ keyRings' = keyRings \cup {g}
    /\ UNCHANGED <<process, keys, versions, rpcs, generated, products, answer, retired>>

(* Mistaken variant: a key that exists is overwritten.                     *)
CanCreateAgain(k) == TRUE

CanCreate(k) == keys[k] = NoKind

(* The key's version 1 is made with it, and is its primary for good: there *)
(* is no RPC that makes another.  Whether the ring is there is not asked.  *)
CreateCryptoKey(k, kind) ==
    /\ up /\ CanCreate(k)
    /\ generated < MaxMaterial
    /\ generated' = generated + 1
    /\ keys' = [keys EXCEPT ![k] = kind]
    /\ versions' = [versions EXCEPT ![k] =
                       [state |-> "enabled", kind |-> kind, material |-> generated + 1]]
    /\ UNCHANGED <<process, keyRings, rpcs, products, answer, retired>>

(* Mistaken variant: what is destroyed is a copy of the version.           *)
DestroyedCopy(v) == v

Destroyed(v) == [state |-> "destroyed", kind |-> v.kind, material |-> NoMaterial]

DestroyCryptoKeyVersion(k) ==
    /\ up /\ versions[k].state # "absent"
    /\ versions' = [versions EXCEPT ![k] = Destroyed(versions[k])]
    /\ retired' = retired \cup ({versions[k].material} \ {NoMaterial})
    /\ UNCHANGED <<process, keyRings, keys, rpcs, generated, products, answer>>

-----------------------------------------------------------------------------
(* An RPC finds the version by its name, and then uses it.  The MAC RPCs   *)
(* do both at once, which is one of the interleavings here.                *)

KindFor == [Encrypt |-> "symmetric", AsymmetricSign |-> "asymmetric", MacSign |-> "mac",
            Decrypt |-> "symmetric", MacVerify |-> "mac"]
Makes == {"Encrypt", "AsymmetricSign", "MacSign"}
Checks == {"Decrypt", "MacVerify"}

FindToMake(r, op, k, text) ==
    /\ up /\ rpcs[r] = IdleRpc
    /\ versions[k].state # "absent"
    /\ rpcs' = [rpcs EXCEPT ![r] = [op |-> op, key |-> k, text |-> text]]
    /\ UNCHANGED <<process, keyRings, keys, versions, generated, products, answer, retired>>

(* The client presents something it was given for this use, maybe by       *)
(* another key, or by a process that has exited.                           *)
FindToCheck(r, op, k, text, given) ==
    /\ up /\ rpcs[r] = IdleRpc
    /\ versions[k].state # "absent"
    /\ given.kind = KindFor[op]
    /\ rpcs' = [rpcs EXCEPT ![r] = [op |-> op, key |-> k, text |-> text, given |-> given]]
    /\ UNCHANGED <<process, keyRings, keys, versions, generated, products, answer, retired>>

(* The version is looked up again and its state looked at; then its        *)
(* material has to be of the kind.                                         *)
Usable(op, v) == v.state = "enabled" /\ v.kind = KindFor[op]

Decrypted(v, given) == IF v.material = given.material THEN given.text ELSE Garbage
Verified(v, given, text) == v.material = given.material /\ given.text = text

Refuse(r) ==
    /\ up /\ rpcs[r] # IdleRpc
    /\ ~Usable(rpcs[r].op, versions[rpcs[r].key])
    /\ rpcs' = [rpcs EXCEPT ![r] = IdleRpc]
    /\ UNCHANGED <<process, keyRings, keys, versions, generated, products, answer, retired>>

Make(r) ==
    LET q == rpcs[r]  v == versions[q.key] IN
    /\ up /\ q.op \in Makes /\ Usable(q.op, v)
    /\ rpcs' = [rpcs EXCEPT ![r] = IdleRpc]
    /\ products' = products \cup {[key |-> q.key, kind |-> v.kind, material |-> v.material,
                                   text |-> q.text, run |-> exits]}
    /\ UNCHANGED <<process, keyRings, keys, versions, generated, answer, retired>>

Check(r) ==
    LET q == rpcs[r]  v == versions[q.key] IN
    /\ up /\ q.op \in Checks /\ Usable(q.op, v)
    /\ rpcs' = [rpcs EXCEPT ![r] = IdleRpc]
    /\ answer' = [op |-> q.op, key |-> q.key, text |-> q.text, given |-> q.given,
                  material |-> v.material, run |-> exits,
                  plain |-> IF q.op = "Decrypt" THEN Decrypted(v, q.given) ELSE Garbage,
                  success |-> q.op = "MacVerify" /\ Verified(v, q.given, q.text)]
    /\ UNCHANGED <<process, keyRings, keys, versions, generated, products, retired>>

-----------------------------------------------------------------------------

(* The keys are gone with the process, whether or not there is a data      *)
(* directory.                                                              *)
KeysExit ==
    /\ keyRings' = {} /\ keys' = [k \in Key |-> NoKind] /\ versions' = NoVersions
    /\ rpcs' = NoRpcs
    /\ UNCHANGED <<generated, products, answer, retired>>

KeysInit ==
    /\ keyRings = {} /\ keys = [k \in Key |-> NoKind] /\ versions = NoVersions
    /\ rpcs = NoRpcs
    /\ generated = 0 /\ products = {} /\ answer = NoAnswer /\ retired = {}

KeysApi ==
    \/ \E g \in KeyRing : CreateKeyRing(g)
    \/ \E k \in Key, kind \in Kind : CreateCryptoKey(k, kind)
    \/ \E k \in Key : DestroyCryptoKeyVersion(k)
    \/ \E r \in KeyClient, k \in Key, text \in Text :
          \/ \E op \in Makes : FindToMake(r, op, k, text)
          \/ \E op \in Checks, given \in products : FindToCheck(r, op, k, text, given)

KeysStep == \E r \in KeyClient : Refuse(r) \/ Make(r) \/ Check(r)

KeysNext ==
    \/ KeysApi \/ KeysStep
    \/ Stops /\ KeysExit
    \/ Starts /\ UNCHANGED keyVars

KeysSpec == ProcessInit /\ KeysInit /\ [][KeysNext]_<<process, keyVars>>

-----------------------------------------------------------------------------
(* Properties.                                                             *)

Rpc == {IdleRpc}
       \cup [op : Makes, key : Key, text : Text]
       \cup [op : Checks, key : Key, text : Text, given : Product]
Answer == {NoAnswer}
          \cup [op : Checks, key : Key, text : Text, given : Product, material : Material,
                run : Nat, plain : Text \cup {Garbage}, success : BOOLEAN]

(* Every variable is of its type.  Enabled versions have material, others  *)
(* have none, and no two keys have the same.                               *)
KeysTypeOK ==
    /\ ProcessTypeOK
    /\ keyRings \in SUBSET KeyRing
    /\ keys \in [Key -> Kind \cup {NoKind}]
    /\ versions \in [Key -> [state : {"absent", "enabled", "destroyed"}, kind : Kind \cup {NoKind},
                             material : Material \cup {NoMaterial}]]
    /\ \A k \in Key : versions[k].material # NoMaterial <=> versions[k].state = "enabled"
    /\ rpcs \in [KeyClient -> Rpc]
    /\ generated \in 0..MaxMaterial
    /\ products \in SUBSET Product
    /\ answer \in Answer
    /\ retired \in SUBSET Material

(* What one process encrypts under a key it decrypts under that key, or it *)
(* refuses; and it verifies a MAC of its own exactly for the text it was   *)
(* made of - whatever happens to the version between the two steps of a    *)
(* call, and between the calls.  What another key or an earlier process    *)
(* has encrypted is answered with garbage, and without an error.           *)
RoundTrip ==
    answer # NoAnswer =>
        LET mine == answer.given.key = answer.key /\ answer.given.run = answer.run IN
        /\ answer.op = "Decrypt" =>
              answer.plain = IF mine THEN answer.given.text ELSE Garbage
        /\ answer.op = "MacVerify" =>
              answer.success = (mine /\ answer.given.text = answer.text)

(* Destroyed material is never used again, not even by a call that had     *)
(* found the version before it was destroyed.                              *)
NeverUsedAgain ==
    [][/\ \A c \in products' \ products : c.material \notin retired
       /\ answer' # answer => answer'.material \notin retired]_keyVars
=============================================================================
