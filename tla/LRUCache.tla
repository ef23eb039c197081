------------------------------ MODULE LRUCache ------------------------------
(***************************************************************************)
(* practicum1/cache.c and message.c: the write-through LRU cache over the  *)
(* message files.  The cache is kept as the code keeps it, a hash table    *)
(* with linear probing over the nodes of a doubly linked list, in one      *)
(* record; the functions of cache.c are operators from record to record.   *)
(* A message is its id and its body.  The caller is single threaded, but   *)
(* the process may die between the truncation of a file and its writing.   *)
(***************************************************************************)
EXTENDS Integers, FiniteSets, Sequences

CONSTANTS
    Ids,              \* message ids, positive as in main
    Bodies,
    Nodes,            \* the addresses malloc may return for a node
    NULL, head, tail,
    HASH_SIZE,        \* 103
    CACHE_CAPACITY,   \* 16
    Stored,           \* the ids main could store before it initialised the cache
    NoFile,           \* there is no messages/<id>.msg
    Torn,             \* the file is shorter than a Message
    StoreFaults       \* what may fail in store_msg: a subset of {"open", "write"}

Message == [id: Ids, body: Bodies]

ASSUME SizesAssumption ==
    /\ CACHE_CAPACITY \in Nat \ {0}
    /\ HASH_SIZE \in Nat /\ CACHE_CAPACITY < HASH_SIZE
    /\ Ids \subseteq Nat /\ Stored \subseteq Ids
    /\ Cardinality(Nodes) >= CACHE_CAPACITY

ASSUME PointersAssumption ==
    /\ Nodes \cap {NULL, head, tail} = {}
    /\ NULL # head /\ NULL # tail /\ head # tail
    /\ NULL \notin Message
    /\ Bodies \cap {NoFile, Torn, NULL} = {} /\ NoFile # Torn

ASSUME StoreAssumption == StoreFaults \subseteq {"open", "write"}

VARIABLES
    cache,      \* the static variables of cache.c and the nodes they lead to
    disk,       \* disk[id]: the body in the file of message id, NoFile or Torn
    storing,    \* the message whose file store_msg has truncated, or NULL
    unsaved,    \* history: the ids of messages the last store_msg did not store
    counted     \* what the last step added to stats: "hit", "miss" or "none"

cacheVars == <<cache, disk, storing, unsaved, counted>>

Slot == 0 .. HASH_SIZE - 1

\* malloc leaves, and free makes, the fields of a node indeterminate.
init_cache ==
    [hash_table   |-> [h \in Slot |-> NULL],
     next         |-> [n \in Nodes \cup {head} |-> IF n = head THEN tail ELSE NULL],
     prev         |-> [n \in Nodes \cup {tail} |-> IF n = tail THEN head ELSE NULL],
     key          |-> [n \in Nodes |-> NULL],
     value        |-> [n \in Nodes |-> NULL],
     allocated    |-> {},
     current_size |-> 0]

hash(id) == id % HASH_SIZE

\* The k-th slot that a search for id looks at, and whether it ends there.
ProbeSlot(id, k) == (hash(id) + k) % HASH_SIZE

ProbeEnds(m, id, k) ==
    \/ m.hash_table[ProbeSlot(id, k)] = NULL
    \/ m.key[m.hash_table[ProbeSlot(id, k)]] = id

\* The slot a search for id ends at: the first that is empty or has the id.
Probe(m, id) ==
    ProbeSlot(id, CHOOSE k \in Slot : /\ ProbeEnds(m, id, k)
                                      /\ \A j \in 0 .. k - 1 : ~ ProbeEnds(m, id, j))

remove_node(m, n) ==
    [m EXCEPT !.next[m.prev[n]] = m.next[n],
              !.prev[m.next[n]] = m.prev[n]]

add_node_to_tail(m, n) ==
    LET prev_last == m.prev[tail]
    IN  [m EXCEPT !.next[prev_last] = n,
                  !.prev[n] = prev_last,
                  !.next[n] = tail,
                  !.prev[tail] = n]

MoveToTail(m, n) == add_node_to_tail(remove_node(m, n), n)

Free(m, n) ==
    [m EXCEPT !.allocated = @ \ {n},
              !.next[n] = NULL, !.prev[n] = NULL, !.key[n] = NULL, !.value[n] = NULL]

\* MUTANT of evict_if_needed: current_size is not counted down.
evict_no_count(m) ==
    LET lru == m.next[head]
    IN  IF m.current_size < CACHE_CAPACITY \/ lru = tail
        THEN m
        ELSE LET unlinked == remove_node(m, lru)
             IN  Free([unlinked EXCEPT !.hash_table[Probe(unlinked, m.key[lru])] = NULL], lru)

\* MUTANT of evict_if_needed: throws out the most recently used node.
evict_newest(m) ==
    LET mru == m.prev[tail]
    IN  IF m.current_size < CACHE_CAPACITY \/ mru = head
        THEN m
        ELSE LET unlinked == remove_node(m, mru)
                 cleared  == [unlinked EXCEPT !.hash_table[Probe(unlinked, m.key[mru])] = NULL]
             IN  [Free(cleared, mru) EXCEPT !.current_size = @ - 1]

evict_if_needed(m) ==
    LET lru == m.next[head]
    IN  IF m.current_size < CACHE_CAPACITY \/ lru = tail
        THEN m
        ELSE LET unlinked == remove_node(m, lru)
                 cleared  == [unlinked EXCEPT !.hash_table[Probe(unlinked, m.key[lru])] = NULL]
             IN  [Free(cleared, lru) EXCEPT !.current_size = @ - 1]

\* MUTANT of Update: the new body is not copied.
Update_keeps_value(m, n, msg) == MoveToTail(m, n)

\* put_msg, "Update existing".
Update(m, n, msg) == MoveToTail([m EXCEPT !.value[n] = msg.body], n)

\* MUTANT of Insert: uses the slot the hash names, free or not.
Insert_at_hash(m, n, msg, h) ==
    LET filled == [m EXCEPT !.key[n] = msg.id, !.value[n] = msg.body, !.allocated = @ \cup {n}]
    IN  [add_node_to_tail(filled, n) EXCEPT !.hash_table[hash(msg.id)] = n, !.current_size = @ + 1]

\* put_msg, "Insert new": n is what malloc returned, h where the search had ended
\* before something was evicted.  An eviction only empties slots, so the code's second
\* search, for an empty slot from h on, stays at h.
Insert(m, n, msg, h) ==
    LET filled == [m EXCEPT !.key[n] = msg.id, !.value[n] = msg.body, !.allocated = @ \cup {n}]
    IN  [add_node_to_tail(filled, n) EXCEPT !.hash_table[h] = n, !.current_size = @ + 1]

-----------------------------------------------------------------------------
\* store_msg up to its fopen(..., "wb"), which truncates the file ...
store_msg(msg) ==
    \/ /\ disk' = [disk EXCEPT ![msg.id] = Torn]
       /\ storing' = msg
       /\ UNCHANGED unsaved
    \/ /\ "open" \in StoreFaults
       /\ unsaved' = unsaved \cup {msg.id}
       /\ UNCHANGED <<disk, storing>>

\* ... and the rest of it.  A disk that is full shows in fwrite(), and store_msg returns
\* -1, or only when fclose() flushes the buffer, and it returns 0 all the same: put_msg,
\* which ignores what it returns, does not tell the two apart.
StoreWrite ==
    /\ storing # NULL
    /\ \/ /\ disk' = [disk EXCEPT ![storing.id] = storing.body]
          /\ unsaved' = unsaved \ {storing.id}
       \/ /\ "write" \in StoreFaults
          /\ unsaved' = unsaved \cup {storing.id}
          /\ UNCHANGED disk
    /\ storing' = NULL
    /\ counted' = "none"
    /\ UNCHANGED cache

PutInCache(msg) ==
    LET h == Probe(cache, msg.id)
    IN  \/ /\ cache.hash_table[h] # NULL
           /\ cache' = Update(cache, cache.hash_table[h], msg)
        \/ /\ cache.hash_table[h] = NULL
           /\ LET m == evict_if_needed(cache)
              IN  \E n \in Nodes \ m.allocated : cache' = Insert(m, n, msg, h)

put_msg(msg) ==
    /\ storing = NULL
    /\ PutInCache(msg)
    /\ store_msg(msg)
    /\ counted' = "none"

GetHit(id) ==
    LET n == cache.hash_table[Probe(cache, id)]
    IN  /\ storing = NULL
        /\ n # NULL
        /\ cache' = MoveToTail(cache, n)
        /\ counted' = "hit"
        /\ UNCHANGED <<disk, storing, unsaved>>

\* retrieve_msg finds no file, or less than a message in it.
GetAbsent(id) ==
    /\ storing = NULL
    /\ cache.hash_table[Probe(cache, id)] = NULL
    /\ disk[id] \in {NoFile, Torn}
    /\ counted' = "miss"
    /\ UNCHANGED <<cache, disk, storing, unsaved>>

\* The message read from its file goes through put_msg, which writes it back.
GetMiss(id) ==
    /\ storing = NULL
    /\ cache.hash_table[Probe(cache, id)] = NULL
    /\ disk[id] \in Bodies
    /\ LET msg == [id |-> id, body |-> disk[id]] IN PutInCache(msg) /\ store_msg(msg)
    /\ counted' = "miss"

get_msg_from_cache_or_disk(id) == GetHit(id) \/ GetAbsent(id) \/ GetMiss(id)

\* The process dies, at any point of an operation, and is started again.
Crash ==
    /\ cache' = init_cache
    /\ storing' = NULL
    /\ unsaved' = {}
    /\ counted' = "none"
    /\ UNCHANGED disk

Init ==
    /\ cache = init_cache
    /\ disk \in [Ids -> Bodies \cup {NoFile}]
    /\ \A id \in Ids : disk[id] # NoFile <=> id \in Stored
    /\ storing = NULL
    /\ unsaved = {}
    /\ counted = "none"

Next ==
    \/ \E id \in Ids : get_msg_from_cache_or_disk(id)
    \/ \E msg \in Message : put_msg(msg)
    \/ StoreWrite
    \/ Crash

Spec == Init /\ [][Next]_cacheVars

\* The search for id looks at slot h and goes on.
Passes(id, h) ==
    \E k \in Slot : /\ ProbeSlot(id, k) = h
                    /\ \A j \in 0 .. k : cache.hash_table[ProbeSlot(id, j)] # NULL
                    /\ \A j \in 0 .. k : cache.key[cache.hash_table[ProbeSlot(id, j)]] # id

\* Making room for id would empty a slot on the way to another cached id, or on the way to
\* the place found for id itself.
Cuts(id) ==
    LET lru == cache.next[head]
    IN  /\ cache.current_size = CACHE_CAPACITY
        /\ cache.hash_table[Probe(cache, id)] = NULL
        /\ \E i \in {cache.key[n] : n \in cache.allocated \ {lru}} \cup {id} :
              Passes(i, Probe(cache, cache.key[lru]))

\* The ids are used in such a way that no eviction cuts a search: always the case if no two
\* ids collide, as with the ids 1 to 20 of main and 103 slots, but collisions without
\* that consequence are allowed.
CarefulNext ==
    \/ \E id \in Ids : ~ Cuts(id) /\ get_msg_from_cache_or_disk(id)
    \/ \E msg \in Message : ~ Cuts(msg.id) /\ put_msg(msg)
    \/ StoreWrite
    \/ Crash

CarefulSpec == Init /\ [][CarefulNext]_cacheVars

-----------------------------------------------------------------------------
\* The static variables of cache.c and the fields of the nodes.
Cache ==
    [hash_table: [Slot -> Nodes \cup {NULL}],
     next: [Nodes \cup {head} -> Nodes \cup {tail, NULL}],
     prev: [Nodes \cup {tail} -> Nodes \cup {head, NULL}],
     key: [Nodes -> Ids \cup {NULL}],
     value: [Nodes -> Bodies \cup {NULL}],
     allocated: SUBSET Nodes,
     current_size: 0 .. CACHE_CAPACITY]

\* Types: in particular current_size never exceeds CACHE_CAPACITY.
TypeOK ==
    /\ cache \in Cache
    /\ disk \in [Ids -> Bodies \cup {NoFile, Torn}]
    /\ storing \in Message \cup {NULL}
    /\ unsaved \subseteq Ids
    /\ counted \in {"hit", "miss", "none"}

\* The k-th node of the list, from the least recently used one on.
NodeAt(m) ==
    LET at[k \in 0 .. m.current_size] == IF k = 0 THEN head ELSE m.next[at[k - 1]]
    IN  at

\* The nodes of the list in their order.
Order(m) ==
    LET at == NodeAt(m)
    IN  [k \in 1 .. m.current_size |-> at[k]]

\* The hash table, the list and the heap agree, whatever has been evicted, updated
\* and inserted: both lead to exactly the nodes that are allocated, every node can
\* be found under its id, the list reads the same backwards, and current_size
\* counts it.
TableListAgree ==
    /\ \A h \in Slot : cache.hash_table[h] # NULL => cache.hash_table[h] \in cache.allocated
    /\ \A n \in cache.allocated : cache.hash_table[Probe(cache, cache.key[n])] = n
    /\ LET order == Order(cache)
       IN  {order[k] : k \in 1 .. cache.current_size} = cache.allocated
    /\ Cardinality(cache.allocated) = cache.current_size
    /\ \A n \in cache.allocated \cup {head} : cache.prev[cache.next[n]] = n

\* Write-through: what is cached is what is in the file, except for the message that
\* store_msg is writing at the moment and those it could not write, whether it said so
\* or not: put_msg takes no notice.
WriteThrough ==
    \A n \in cache.allocated :
        \/ disk[cache.key[n]] = cache.value[n]
        \/ storing # NULL /\ storing = [id |-> cache.key[n], body |-> cache.value[n]]
        \/ cache.key[n] \in unsaved

\* The messages in the cache, the least recently used one first.
Entries(m) ==
    LET order == Order(m)
    IN  [k \in 1 .. m.current_size |-> [id |-> m.key[order[k]], body |-> m.value[order[k]]]]

\* The LRU cache of LRUSpec that the table and the list stand for.
Abstract == INSTANCE LRUSpec WITH entries <- Entries(cache)

\* The table and the list are together an LRU cache as LRUSpec defines it: a hit is
\* a hit, and the entry thrown out is the one not used for longest.
ImplementsLRU == Abstract!Spec

-----------------------------------------------------------------------------
(* What the documents say and the code does not do.                        *)

\* "Lookup first checks cache, and only falls back to disk if needed": a message in
\* the cache is found there.
LookupFindsCached ==
    \A n \in cache.allocated :
        LET found == cache.hash_table[Probe(cache, cache.key[n])]
        IN  found # NULL /\ cache.key[found] = cache.key[n]
=============================================================================
