------------------------------ MODULE NonceStore ------------------------------
(***************************************************************************)
(* The two nonce stores of the package as operators on a store's state     *)
(* (nonce_store.FileNonceStore, wire.verification.InMemoryNonceStore).     *)
(*                                                                         *)
(* A store is [seen, consumed], two sets of (run, nonce) keys.  Both       *)
(* stores offer seen / record / consume; they differ in whether record and *)
(* consume leave the same mark.  FileNonceStore keeps one marker file per  *)
(* key, created exclusively, so each of its operations is one file         *)
(* operation; InMemoryNonceStore keeps two unrelated sets.                 *)
(***************************************************************************)
CONSTANT FileStore   \* TRUE: FileNonceStore, FALSE: InMemoryNonceStore

ASSUME FileStoreAssumption == FileStore \in BOOLEAN

EmptyStore == [seen |-> {}, consumed |-> {}]

Stores(Keys) == [seen : SUBSET Keys, consumed : SUBSET Keys]

Seen(store, key) == key \in store.seen

Record(store, key) ==
  [seen     |-> store.seen \cup {key},
   consumed |-> IF FileStore THEN store.consumed \cup {key} ELSE store.consumed]

\* Mutant of Consumable: consume answers whether the key was consumed before.
ConsumedBefore(store, key) == key \in store.consumed

\* consume answers TRUE exactly when Consumable held, and then leaves Consume.
Consumable(store, key) == key \notin store.consumed

Consume(store, key) ==
  [seen     |-> IF FileStore THEN store.seen \cup {key} ELSE store.seen,
   consumed |-> store.consumed \cup {key}]
================================================================================
