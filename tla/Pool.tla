-------------------------------- MODULE Pool --------------------------------
(***************************************************************************)
(* The fixed-capacity pools of the intrusive storage: OrderPool            *)
(* (include/qsl/memory/order_pool.hpp) and RawPool                         *)
(* (src/engine/order_book.cpp), which are the same code for two types.     *)
(*                                                                         *)
(* A pool is [free, live]: the stack of free slots, its top last, and the  *)
(* objects in the other slots.  A slot stands for a pointer to it, and     *)
(* nullptr is 0; a pointer of the caller is always to a slot, so           *)
(* slot_index never refuses one.                                           *)
(***************************************************************************)
EXTENDS Naturals, Sequences, SequencesExt, TLC

nullptr == 0

\* reset_free_list: the first slot is on top.
NewPool(capacity) ==
  [free |-> [i \in 1..capacity |-> capacity + 1 - i], live |-> <<>>]

available(pool) == Len(pool.free)

\* try_acquire: the slot it returns, and the pool with the object in it.
Acquired(pool) == IF available(pool) = 0 THEN nullptr ELSE Last(pool.free)
try_acquire(pool, object) ==
  IF available(pool) = 0
    THEN pool
    ELSE [free |-> Front(pool.free), live |-> (Last(pool.free) :> object) @@ pool.live]

\* A slot that is not live is left alone.
release(pool, slot) ==
  IF slot \notin DOMAIN pool.live
    THEN pool
    ELSE [free |-> Append(pool.free, slot),
          live |-> [s \in DOMAIN pool.live \ {slot} |-> pool.live[s]]]
=============================================================================
