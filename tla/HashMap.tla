------------------------------ MODULE HashMap ------------------------------
(***************************************************************************)
(* StaticHashMap: open addressing with linear probing over buckets that    *)
(* hold indices into a dense array of entries, and erasure without         *)
(* tombstones.  A map is a record of its buckets and its entries; dense    *)
(* indices count from 1.  The 2-power size makes the mask of the code a    *)
(* remainder.                                                              *)
(***************************************************************************)
EXTENDS Integers, Sequences, FiniteSets, SequencesExt

CONSTANTS
  Keys,
  MaxSize,   \* buckets, and entries
  Hash       \* hash_func_

ASSUME SizeAssumption == MaxSize \in Nat \ {0}

ASSUME HashAssumption == Hash \in [Keys -> 0 .. MaxSize - 1]

(* EMPTY_BUCKET, as a bucket's content and as "no bucket". *)
Empty == -1

NoEntries == [buckets |-> [b \in 0 .. MaxSize - 1 |-> Empty], entries |-> <<>>]

(* The key of an occupied bucket. *)
KeyAt(m, b) == m.entries[m.buckets[b]].key

(* The probes of a key that end its search. *)
Ends(m, k) ==
  {i \in 0 .. MaxSize - 1 :
     LET b == (Hash[k] + i) % MaxSize IN m.buckets[b] = Empty \/ KeyAt(m, b) = k}

(* findSlot_base(): the key's bucket, or the empty one it would take. *)
FindSlot(m, k) ==
  IF Ends(m, k) = {} THEN Empty ELSE (Hash[k] + Min(Ends(m, k))) % MaxSize

(* findIndex_base(): the key's bucket. *)
FindIndex(m, k) ==
  LET b == FindSlot(m, k) IN IF b # Empty /\ m.buckets[b] # Empty THEN b ELSE Empty

(* contains() *)
Has(m, k) == FindIndex(m, k) # Empty

(* find(), of a key that is there. *)
Find(m, k) == m.entries[m.buckets[FindIndex(m, k)]].value

Full(m) == Len(m.entries) = MaxSize

(* insert(): an update, or a new entry where there is room. *)
Insert(m, k, v) ==
  LET b == FindSlot(m, k)
  IN  IF b = Empty THEN m
      ELSE IF m.buckets[b] # Empty THEN [m EXCEPT !.entries[m.buckets[b]].value = v]
      ELSE IF Full(m) THEN m
      ELSE [buckets |-> [m.buckets EXCEPT ![b] = Len(m.entries) + 1],
            entries |-> Append(m.entries, [key |-> k, value |-> v])]

(* A key at bucket next belongs at or before the hole. *)
Misplaced(ideal, hole, next) ==
  \/ hole < next /\ (ideal <= hole \/ ideal > next)
  \/ hole > next /\ ideal <= hole /\ ideal > next

(* Mutant: the bucket is emptied and nothing moves up. *)
RemoveBucketOnly(m, b) == [m.buckets EXCEPT ![b] = Empty]

(* remove_bucket_and_rehash(): the bucket is emptied, and each key after   *)
(* it, up to an empty bucket, moves to the hole when it belongs there; at  *)
(* most twice around.                                                      *)
RemoveBucketAndRehash(m, b) ==
  LET walk[i \in 0 .. 2 * MaxSize] ==
        IF i = 0 THEN [buckets |-> [m.buckets EXCEPT ![b] = Empty], hole |-> b, on |-> TRUE]
        ELSE LET w == walk[i - 1]
                 next == (b + i) % MaxSize
                 dense == w.buckets[next]
             IN  IF ~w.on \/ dense = Empty THEN [w EXCEPT !.on = FALSE]
                 ELSE IF Misplaced(Hash[m.entries[dense].key], w.hole, next)
                 THEN [w EXCEPT !.buckets = [@ EXCEPT ![w.hole] = dense, ![next] = Empty],
                                !.hole = next]
                 ELSE w
  IN  walk[2 * MaxSize].buckets

(* update_last_element_bucket(): the bucket of the last entry follows it   *)
(* to the place of the erased one.                                         *)
UpdateLastElementBucket(buckets, last, place) ==
  [b \in DOMAIN buckets |-> IF buckets[b] = last THEN place ELSE buckets[b]]

(* erase(): the last entry takes the place of the erased one. *)
Erase(m, k) ==
  LET b == FindIndex(m, k)
      place == m.buckets[b]
      last == Len(m.entries)
      left == RemoveBucketAndRehash(m, b)
  IN  IF b = Empty THEN m
      ELSE [buckets |-> IF place = last THEN left
                        ELSE UpdateLastElementBucket(left, last, place),
            entries |-> Front([m.entries EXCEPT ![place] = m.entries[last]])]
=============================================================================
