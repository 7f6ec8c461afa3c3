------------------------------ MODULE KeyStore ------------------------------
(***************************************************************************)
(* The keys of a keyholder: its database, the passphrase they are          *)
(* encrypted with, and the filter that tells a peer which of them to look  *)
(* for.                                                                    *)
(*                                                                         *)
(* An encrypted key is the passphrase it was encrypted with: only that one *)
(* decrypts it.  A passphrase is checked against the newest generated key. *)
(***************************************************************************)
EXTENDS Naturals

CONSTANTS
    Generated,   \* keys the keyholder may generate
    Imported,    \* key pairs a file may hold
    Passphrase,
    None

Key == Generated \cup Imported

ASSUME KeyStoreAssumption ==
    /\ Passphrase # {} /\ None \notin Passphrase \cup Key

VARIABLES
    encrypted,    \* k{pubkey}: the passphrase of each key in the database, or None
    newest,       \* n
    passphrase,   \* of the running keyholder, None before it is set
    filter,       \* the keys in its filter
    imported,     \* history: keys imported since it was started
    displaced,    \* history: keys a refused insertion drove from the filter
    unguarded     \* history: keys imported while the database had no newest key

storeVars == <<encrypted, newest, passphrase, filter, imported, displaced, unguarded>>

Stored == {k \in Key : encrypted[k] # None}

KeyStoreInit ==
    /\ encrypted = [k \in Key |-> None]
    /\ newest = None
    /\ passphrase \in Passphrase
    /\ filter = {} /\ imported = {} /\ displaced = {} /\ unguarded = {}

\* Mutant of Accepts: any passphrase will do.
AcceptsAny(p) == p \in Passphrase

\* decryptPrivateKey and its use in SetPassphrase.
Accepts(p) == newest # None => encrypted[newest] = p

\* The keyholder is started again and its user asked for a passphrase until it is
\* accepted.  It does not start with keys it cannot build a filter of.
Open(p) ==
    /\ Accepts(p)
    /\ passphrase' = p
    /\ filter' = Stored
    /\ imported' = {} /\ displaced' = {}
    /\ UNCHANGED <<encrypted, newest, unguarded>>

\* Mutant of NewKeys: the filter is left to SetFilter.
NewKeysUnfiltered(new) ==
    /\ new # {} /\ new \subseteq Generated \ Stored
    /\ encrypted' = [k \in Key |-> IF k \in new THEN passphrase ELSE encrypted[k]]
    /\ newest' \in new
    /\ UNCHANGED <<passphrase, filter, imported, displaced, unguarded>>

\* One batch, and the last of the keys is the newest.
NewKeys(new) ==
    /\ new # {} /\ new \subseteq Generated \ Stored
    /\ encrypted' = [k \in Key |-> IF k \in new THEN passphrase ELSE encrypted[k]]
    /\ newest' \in new
    /\ filter' = filter \cup new
    /\ displaced' = displaced \ new
    /\ UNCHANGED <<passphrase, imported, unguarded>>

\* The filter is full and refuses the last of the new keys: to make room it has
\* displaced a key, which it then has no place for, this one or an earlier one.
\* Or the batch is not written, and no key is lost.  No new key is stored.
NewKeysRefused(new) ==
    /\ new # {} /\ new \subseteq Generated \ Stored
    /\ \E lost \in {{}} \cup {{k} : k \in filter \cup new} :
         /\ filter' = (filter \cup new) \ lost
         /\ displaced' = displaced \cup lost
    /\ UNCHANGED <<encrypted, newest, passphrase, imported, unguarded>>

\* AddKey neither makes the key the newest nor adds it to the filter.
AddKey(k) ==
    /\ encrypted' = [encrypted EXCEPT ![k] = passphrase]
    /\ imported' = imported \cup {k}
    /\ unguarded' = IF newest = None THEN unguarded \cup {k} ELSE unguarded \ {k}
    /\ UNCHANGED <<newest, passphrase, filter, displaced>>

(* A passphrase that is accepted decrypts every key, but for those that    *)
(* were imported before the first key was generated: nothing checked the   *)
(* passphrase then.                                                        *)
KeysAreReadable ==
    \A k \in Stored \ unguarded : encrypted[k] = passphrase

\* The keys the filter should have.
Expected == Stored \ (imported \cup displaced)

(* The filter has every key of the database, but for those imported since  *)
(* the keyholder was started and one that each refused insertion since     *)
(* then may have displaced.                                                *)
FilterHasKeys == Expected \subseteq filter
=============================================================================
