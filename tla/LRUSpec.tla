------------------------------- MODULE LRUSpec -------------------------------
(***************************************************************************)
(* What cache.h promises: a cache of the CACHE_CAPACITY most recently used *)
(* messages over the message files.  entries is in the order of use, the   *)
(* least recently used message first, and has no id twice.                 *)
(***************************************************************************)
EXTENDS Integers, Sequences

CONSTANTS Ids, Bodies, NULL, CACHE_CAPACITY, NoFile, Torn, StoreFaults

VARIABLES entries, disk, storing, unsaved, counted

vars == <<entries, disk, storing, unsaved, counted>>

Cached(id) == \E k \in 1 .. Len(entries) : entries[k].id = id

\* entries without the k-th one.
Without(k) == [j \in 1 .. Len(entries) - 1 |-> IF j < k THEN entries[j] ELSE entries[j + 1]]

\* msg becomes the most recently used entry, in place of the entry with its id or, if
\* there is none and the cache is full, of the least recently used one.
Use(msg) ==
    \/ \E k \in 1 .. Len(entries) :
          /\ entries[k].id = msg.id
          /\ entries' = Append(Without(k), msg)
    \/ /\ ~ Cached(msg.id)
       /\ entries' = Append(IF Len(entries) < CACHE_CAPACITY THEN entries ELSE Without(1), msg)

Store(msg) ==
    \/ disk' = [disk EXCEPT ![msg.id] = Torn] /\ storing' = msg /\ UNCHANGED unsaved
    \/ "open" \in StoreFaults /\ unsaved' = unsaved \cup {msg.id} /\ UNCHANGED <<disk, storing>>

Hit(id) ==
    /\ storing = NULL
    /\ \E k \in 1 .. Len(entries) : entries[k].id = id /\ Use(entries[k])
    /\ counted' = "hit"
    /\ UNCHANGED <<disk, storing, unsaved>>

Miss(id) ==
    /\ storing = NULL
    /\ ~ Cached(id)
    /\ counted' = "miss"
    /\ \/ disk[id] \notin Bodies /\ UNCHANGED <<entries, disk, storing, unsaved>>
       \/ /\ disk[id] \in Bodies
          /\ Use([id |-> id, body |-> disk[id]])
          /\ Store([id |-> id, body |-> disk[id]])

Put(msg) ==
    /\ storing = NULL
    /\ Use(msg)
    /\ Store(msg)
    /\ counted' = "none"

StoreReturns ==
    /\ storing # NULL
    /\ \/ disk' = [disk EXCEPT ![storing.id] = storing.body] /\ unsaved' = unsaved \ {storing.id}
       \/ "write" \in StoreFaults /\ unsaved' = unsaved \cup {storing.id} /\ UNCHANGED disk
    /\ storing' = NULL
    /\ counted' = "none"
    /\ UNCHANGED entries

Restart ==
    /\ entries' = <<>>
    /\ storing' = NULL
    /\ unsaved' = {}
    /\ counted' = "none"
    /\ UNCHANGED disk

Init ==
    /\ entries = <<>>
    /\ disk \in [Ids -> Bodies \cup {NoFile}]
    /\ storing = NULL
    /\ unsaved = {}
    /\ counted = "none"

Next ==
    \/ \E id \in Ids : Hit(id) \/ Miss(id)
    \/ \E id \in Ids, body \in Bodies : Put([id |-> id, body |-> body])
    \/ StoreReturns
    \/ Restart

Spec == Init /\ [][Next]_vars
=============================================================================
