----------------------------- MODULE KeyRotation -----------------------------
(***************************************************************************)
(* Licence keys under a rotating keyring: generation and validation        *)
(* (keygen/generator.py, keygen/validator.py, the keyring of               *)
(* common/config.py) and the migration plans of compliance/key_evolution.py*)
(* The first random character of a key names the version of its secret;    *)
(* keys older than that scheme have any character there.  Each version has *)
(* a secret of its own.                                                    *)
(***************************************************************************)
EXTENDS Integers, FiniteSets

CONSTANTS
  Base,         \* characters a version can be encoded in (32)
  MaxVersion,   \* bound on the versions
  LegacyChars,  \* first characters of the keys from before versions
  MaxIssued     \* bound on the keys held

ASSUME RotationAssumption ==
  Base \in Nat \ {0} /\ MaxVersion \in Nat /\ LegacyChars \subseteq 0 .. Base - 1 /\ MaxIssued \in Nat

Versions == 0 .. MaxVersion
Keys == [char : 0 .. Base - 1, secret : Versions, legacy : BOOLEAN]
Actions == {"re_sign", "deprecate", "no_action"}

VARIABLES
  ring,       \* hmac_keyring, by version
  issued,     \* the keys customers hold, intact; none is taken back
  migration,  \* the plan in force, [key -> action]
  target,     \* its target_version; 0: no plan
  marked      \* its entries marked as migrated

rotationVars == <<ring, issued, migration, target, marked>>

RotationTypeOK ==
  /\ ring \subseteq Versions /\ ring # {} /\ issued \subseteq Keys
  /\ DOMAIN migration \subseteq Keys /\ \A k \in DOMAIN migration : migration[k] \in Actions
  /\ target \in Versions /\ marked \subseteq DOMAIN migration

RotationInit ==
  /\ ring = {0} /\ issued = [char : LegacyChars, secret : {0}, legacy : {TRUE}]
  /\ migration = <<>> /\ target = 0 /\ marked = {}

(* current_hmac_version: the highest in the ring. *)
Current == CHOOSE v \in ring : \A w \in ring : w <= v

(* generate_key: _encode_version wraps. *)
Generated == [char |-> Current % Base, secret |-> Current, legacy |-> FALSE]

(* verify_hmac_multi tries the version named first and then all others.    *)
SignedUnder(k, v) == k.secret = v

VerifiesMulti(k) ==
  \/ k.char \in ring /\ SignedUnder(k, k.char)
  \/ \E v \in ring \ {k.char} : SignedUnder(k, v)

(* validate_key_multi: the format of an intact key holds. *)
Validates(k) == VerifiesMulti(k)

IssueKey ==
  /\ Cardinality(issued) < MaxIssued /\ issued' = issued \cup {Generated}
  /\ UNCHANGED <<ring, migration, target, marked>>

(* The keyring is configuration: versions are added above the current one, *)
(* and retired.                                                            *)
AddVersion ==
  /\ Current < MaxVersion /\ ring' = ring \cup {Current + 1}
  /\ UNCHANGED <<issued, migration, target, marked>>

RetireVersion(v) ==
  /\ v \in ring /\ v # Current /\ ring' = ring \ {v}
  /\ UNCHANGED <<issued, migration, target, marked>>

(* analyze_key and create_migration_plan: the version is read off the      *)
(* key's first character; without the raw key there is only deprecation.   *)
ActionFor_(k, t, raw) ==
  IF k \notin raw THEN "deprecate" ELSE IF k.char >= t THEN "no_action" ELSE "re_sign"

NeedsMigration(k) == k.char = 0

CreatePlan(t, raw) ==
  /\ target' = t
  /\ migration' = [k \in issued |-> ActionFor_(k, t, raw)] /\ marked' = {}
  /\ UNCHANGED <<ring, issued>>

(* Only the entry is marked: no key is signed again, and nothing asks      *)
(* whether the entry was marked before.                                    *)
MarkMigrated(k) ==
  /\ k \in DOMAIN migration /\ marked' = marked \cup {k}
  /\ UNCHANGED <<ring, issued, migration, target>>

RotationNext ==
  \/ IssueKey \/ AddVersion
  \/ \E v \in Versions : RetireVersion(v)
  \/ \E t \in Versions \ {0}, raw \in SUBSET issued : CreatePlan(t, raw)
  \/ \E k \in DOMAIN migration : MarkMigrated(k)

---------------------------------------------------------------------------
(* A key whose version is past what a character can say. *)
Wrapped(k) == ~k.legacy /\ k.secret >= Base

(* A key is valid as long as the secret that signed it is in the ring,     *)
(* whatever its first character says.  A plan goes by that character: when *)
(* the versions from its target on are kept, a key it calls current stops  *)
(* working only if it is from before versions, whose character is random,  *)
(* and a key it would sign again though its secret is new enough is one    *)
(* whose version was wrapped.                                              *)
RotationSound ==
  /\ \A k \in issued : Validates(k) <=> k.secret \in ring
  /\ \A k \in issued \cap DOMAIN migration :
       /\ (migration[k] = "no_action" /\ target .. Current \subseteq ring /\ ~Validates(k)) => k.legacy
       /\ (migration[k] = "re_sign" /\ k.secret >= target) => Wrapped(k)
=============================================================================
