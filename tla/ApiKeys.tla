-------------------------------- MODULE ApiKeys --------------------------------
(***************************************************************************)
(* The API keys of security/api_key_manager.go: rows of api_keys, their    *)
(* validation by a request, and the administrator who revokes a key or     *)
(* rotates it.  ValidateKey reads all active rows at once and then         *)
(* compares hashes one by one, so it decides on what it read.  RotateKey   *)
(* is three statements: read the old row, let it expire after a grace      *)
(* period, insert the new key with the expiry the old one had.             *)
(***************************************************************************)
EXTENDS Tenancy, Integers, FiniteSets

CONSTANTS KeyIds,       \* identities of keys
          FirstKey,     \* the key the tenant starts with; it does not expire
          Grace,        \* the grace period of a rotation, in ticks
          MaxKeyTime,   \* bound of the clock
          MaxKeyFaults, \* bound of statements that fail
          Never

ASSUME KeyAssumption ==
  /\ FirstKey \in KeyIds /\ Grace \in Nat
  /\ Never \notin Int
  /\ None \notin [status : {"active", "revoked"}, expires : Int \union {Never}]

VARIABLES keyClock,
          keys,       \* keys[k]: [status, expires], or None
          rotation,   \* the rotation in progress
          revoked,    \* keys an administrator has revoked
          keyFaults

keyVars == <<keyClock, keys, rotation, revoked, keyFaults>>

NoRotation == [pc |-> "idle", old |-> None, expires |-> Never]

IsExpired(row, now) == row.expires # Never /\ now > row.expires

\* What ValidateKey answers for key k when it read the table `rows` and
\* comes to its row at time `now`.
ValidateKey(rows, k, now) ==
  rows[k] # None /\ rows[k].status = "active" /\ ~IsExpired(rows[k], now)

RevokeKey(k) ==
  /\ keys[k] # None
  /\ keys' = [keys EXCEPT ![k].status = "revoked"]
  /\ revoked' = revoked \union {k}
  /\ UNCHANGED <<keyClock, rotation, keyFaults>>

\* (mutant) the old row is read after its expiry was moved
ExpireThenRead ==
  /\ rotation.pc = "expire"
  /\ keys' = [keys EXCEPT ![rotation.old].expires = keyClock + Grace]
  /\ rotation' = [rotation EXCEPT !.pc = "create", !.expires = keyClock + Grace]
  /\ UNCHANGED <<keyClock, revoked, keyFaults>>

\* RotateKey, statement by statement.
ReadOldKey(k) ==
  /\ rotation.pc = "idle"
  /\ keys[k] # None
  /\ \E new \in KeyIds : keys[new] = None     \* KeyIds bounds the keys made
  /\ rotation' = [pc |-> "expire", old |-> k, expires |-> keys[k].expires]
  /\ UNCHANGED <<keyClock, keys, revoked, keyFaults>>

ExpireOldKey ==
  /\ rotation.pc = "expire"
  /\ keys' = [keys EXCEPT ![rotation.old].expires = keyClock + Grace]
  /\ rotation' = [rotation EXCEPT !.pc = "create"]
  /\ UNCHANGED <<keyClock, revoked, keyFaults>>

CreateKey ==
  \E k \in KeyIds :
    /\ rotation.pc = "create"
    /\ keys[k] = None
    /\ keys' = [keys EXCEPT ![k] = [status |-> "active", expires |-> rotation.expires]]
    /\ rotation' = NoRotation
    /\ UNCHANGED <<keyClock, revoked, keyFaults>>

\* A statement of the rotation fails; what the earlier ones did stays done.
RotationFails ==
  /\ keyFaults < MaxKeyFaults
  /\ rotation.pc \in {"expire", "create"}
  /\ rotation' = NoRotation
  /\ keyFaults' = keyFaults + 1
  /\ UNCHANGED <<keyClock, keys, revoked>>

\* Time passes; a rotation takes less time than its grace period.
KeyTick ==
  /\ keyClock < MaxKeyTime
  /\ rotation.pc = "create" => keyClock < keys[rotation.old].expires
  /\ keyClock' = keyClock + 1
  /\ UNCHANGED <<keys, rotation, revoked, keyFaults>>

KeyInit ==
  /\ keyClock = 0
  /\ keys = [k \in KeyIds |-> IF k = FirstKey THEN [status |-> "active", expires |-> Never]
                              ELSE None]
  /\ rotation = NoRotation
  /\ revoked = {}
  /\ keyFaults = 0

KeyStep ==
  \/ \E k \in KeyIds : RevokeKey(k) \/ ReadOldKey(k)
  \/ ExpireOldKey \/ CreateKey \/ RotationFails \/ KeyTick

-----------------------------------------------------------------------------
(* Properties *)

\* Rotations alone never shut a tenant out: as long as none of them was cut
\* short and no key was revoked, some key of the tenant is accepted.
AlwaysAKey ==
  revoked = {} /\ keyFaults = 0 => \E k \in KeyIds : ValidateKey(keys, k, keyClock)
=============================================================================
