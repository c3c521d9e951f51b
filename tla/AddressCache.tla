------------------------------ MODULE AddressCache ------------------------------
(***************************************************************************)
(* NameToAddressCache (translator_types.rs): the EVM address of a native   *)
(* account, by its name or by its row in the table "account" of the EVM    *)
(* contract.  Two caches that are filled from the native node's API, never *)
(* corrected and only emptied by eviction; a lookup that is not cached is  *)
(* tried MAX_RETRY + 1 times.                                              *)
(*                                                                         *)
(* A row never changes once it exists.  An answer may come from a replica  *)
(* that has not seen the youngest rows yet.                                *)
(***************************************************************************)
EXTENDS Integers, FiniteSets

CONSTANTS
  Accounts,   \* rows of the table: index, name and EVM address
  Address,    \* EVM addresses
  NoAddress,  \* no entry
  MaxRetry,   \* MAX_RETRY
  Capacity    \* entries a cache holds before it evicts

\* Names and indexes are both 64 bit numbers.  A name is encoded from the highest
\* bits down and an index counts from 0: no account's name is another's index.
ASSUME CacheAssumption ==
  /\ Accounts \subseteq [index : Nat, name : Nat, address : Address]
  /\ IsFiniteSet(Accounts)
  /\ \A a, b \in Accounts :
       /\ a.index = b.index \/ a.name = b.name \/ a.address = b.address => a = b
       /\ a.name # b.index
  /\ NoAddress \notin Address
  /\ MaxRetry \in Nat /\ Capacity \in Nat

VARIABLES
  cache,        \* addresses by the key they were asked by: a name, or an index
  index_cache,  \* addresses by index
  tries         \* tries of the lookup in progress that have failed

cacheVars == <<cache, index_cache, tries>>

Names == {a.name : a \in Accounts}
Indexes == {a.index : a \in Accounts}
CacheKeys == Names \cup Indexes

Empty == [k \in CacheKeys |-> NoAddress]

CacheInit == cache = Empty /\ index_cache = [k \in Indexes |-> NoAddress] /\ tries = 0

-------------------------------------------------------------------------------
KeyAt(position, a) == IF position = "PRIMARY" THEN a.index ELSE a.name

\* Slip: the upper bound is missing.
get_account_address_from(key, position, seen) ==
  LET rows == {a \in Accounts : a.index < seen /\ key <= KeyAt(position, a)}
  IN  {a \in rows : \A b \in rows : KeyAt(position, a) <= KeyAt(position, b)}

\* The first row between the bounds, both the key, on a replica that has the
\* first rows up to "seen".
get_account_address(key, position, seen) ==
  LET rows == {a \in Accounts : /\ a.index < seen
                                /\ key <= KeyAt(position, a)
                                /\ KeyAt(position, a) <= key}
  IN  {a \in rows : \A b \in rows : KeyAt(position, a) <= KeyAt(position, b)}

\* What a try may find.
Found(key, position) ==
  UNION {get_account_address(key, position, seen) : seen \in {a.index + 1 : a \in Accounts}}

Size(c) == Cardinality({k \in DOMAIN c : c[k] # NoAddress})

\* An entry is added; a cache over its capacity drops one of its choice.
Inserted(c, key, address) ==
  LET added == [c EXCEPT ![key] = address]
  IN  IF Size(added) <= Capacity THEN {added}
      ELSE {[added EXCEPT ![k] = NoAddress] : k \in {k \in DOMAIN c : added[k] # NoAddress}}

\* A row was found: kept under the key that was asked for, and under its index.
Keep(key, row) ==
  /\ cache' \in Inserted(cache, key, row.address)
  /\ index_cache' \in Inserted(index_cache, row.index, row.address)
  /\ tries' = 0

\* The cache that get and get_index look into.
Cached(key, position) ==
  IF position = "PRIMARY" THEN index_cache[key] ELSE cache[key]

IsHit(key, position) == tries = 0 /\ Cached(key, position) # NoAddress

\* The lookup of a key returns an address.
Resolves(key, position, address) ==
  \/ /\ IsHit(key, position)
     /\ address = Cached(key, position)
     /\ UNCHANGED cacheVars
  \/ /\ ~IsHit(key, position)
     /\ \E row \in Found(key, position) : address = row.address /\ Keep(key, row)

\* Slip: one try more than the loop has.
FailsOnceMore(key, position) ==
  /\ ~IsHit(key, position)
  /\ tries <= MaxRetry
  /\ tries' = tries + 1
  /\ UNCHANGED <<cache, index_cache>>

\* An error or an empty answer; sleep, and try again.
Fails(key, position) ==
  /\ ~IsHit(key, position)
  /\ tries < MaxRetry
  /\ tries' = tries + 1
  /\ UNCHANGED <<cache, index_cache>>

\* Slip: one try less.
GivesUpEarly(key, position) ==
  /\ ~IsHit(key, position)
  /\ tries + 1 >= MaxRetry
  /\ tries' = 0
  /\ UNCHANGED <<cache, index_cache>>

\* The last try fails too: the lookup returns an error.
GivesUp(key, position) ==
  /\ ~IsHit(key, position)
  /\ tries = MaxRetry
  /\ tries' = 0
  /\ UNCHANGED <<cache, index_cache>>

-------------------------------------------------------------------------------
CacheTypeOK ==
  /\ cache \in [CacheKeys -> Address \cup {NoAddress}]
  /\ index_cache \in [Indexes -> Address \cup {NoAddress}]
  /\ tries \in 0..MaxRetry

IsAddressOf(address, key, position) ==
  \E a \in Accounts : KeyAt(position, a) = key /\ a.address = address

\* Whatever is cached is the address of the account it is cached for.  An entry
\* of "cache" under an index is there because get_index puts it there.
CachesAreRight ==
  /\ \A k \in Names : cache[k] # NoAddress => IsAddressOf(cache[k], k, "TERTIARY")
  /\ \A k \in Indexes : index_cache[k] # NoAddress => IsAddressOf(index_cache[k], k, "PRIMARY")
=============================================================================
