----------------------------- MODULE SenderKeys -----------------------------
(***************************************************************************)
(* The sender keys of one epoch: lockframe-client/src/sender_key_store.rs   *)
(* over the ratchet and the encryption of lockframe-crypto/src/sender_keys. *)
(* A ratchet is its generation: the chain key it holds is a function of the *)
(* seed of its leaf and the generation.  A ciphertext is the name of the    *)
(* key that made it, and opens under that key alone.  Leaves count from 1.  *)
(***************************************************************************)
EXTENDS Naturals

CONSTANTS
  MAX_SKIP,          \* the farthest a ratchet moves for one message
  MAX_GENERATION     \* u32::MAX

ASSUME SenderKeysAssumption == MAX_SKIP \in Nat /\ MAX_GENERATION \in Nat

Generation == 0 .. MAX_GENERATION

(* A store of ratchets derived from secret, one for each of the leaves.     *)
InitializeEpoch(secret, epoch, leaves) ==
  [secret |-> secret, epoch |-> epoch, ratchets |-> [leaf \in leaves |-> 0]]

(* HKDF over label, epoch and leaf: equal seeds come from equal inputs.     *)
DeriveSenderKeySeed(secret, epoch, leaf) == << secret, epoch, leaf >>

CanAdvance(generation) == generation # MAX_GENERATION

(* The generation advance_to(target) leaves behind.  The loop fails only    *)
(* on the last generation, when it has already moved the ratchet there.     *)
Reachable(generation, target) ==
  /\ target >= generation
  /\ target - generation <= MAX_SKIP

(* Mutant of AdvanceTo: the key of the target generation stays usable. *)
AdvanceTo_NotConsumed(generation, target) ==
  IF Reachable(generation, target) THEN target ELSE generation

AdvanceTo(generation, target) ==
  IF ~Reachable(generation, target) THEN generation
  ELSE IF CanAdvance(target) THEN target + 1 ELSE MAX_GENERATION

Moved(store, leaf, generation) ==
  [store EXCEPT !.ratchets[leaf] = generation]

CanEncrypt(store, leaf) ==
  leaf \in DOMAIN store.ratchets /\ CanAdvance(store.ratchets[leaf])

(* encrypt: the message, and the store with the sender's ratchet advanced.  *)
Encrypted(store, leaf) ==
  [secret |-> store.secret, epoch |-> store.epoch, leaf |-> leaf,
   generation |-> store.ratchets[leaf]]

(* Mutant of AfterEncrypt: the ratchet is not advanced. *)
AfterEncrypt_NotAdvanced(store, leaf) == store

AfterEncrypt(store, leaf) ==
  Moved(store, leaf, store.ratchets[leaf] + 1)

(* decrypt: whether the plaintext comes out, and the store it leaves.  The  *)
(* ratchet moves before the authentication tag is checked, and stays moved  *)
(* when the tag is wrong.                                                   *)
Known(store, m) == m.epoch = store.epoch /\ m.leaf \in DOMAIN store.ratchets

Decrypts(store, m) ==
  /\ Known(store, m)
  /\ Reachable(store.ratchets[m.leaf], m.generation)
  /\ CanAdvance(m.generation)
  /\ DeriveSenderKeySeed(m.secret, m.epoch, m.leaf) =
       DeriveSenderKeySeed(store.secret, store.epoch, m.leaf)

AfterDecrypt(store, m) ==
  IF Known(store, m)
  THEN Moved(store, m.leaf, AdvanceTo(store.ratchets[m.leaf], m.generation))
  ELSE store
=============================================================================
