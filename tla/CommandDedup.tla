---------------------------- MODULE CommandDedup ----------------------------
(***************************************************************************)
(* CommandDedup (connector/sdk/dedup.go): the bounded map by which a       *)
(* connector's write handlers recognise a control_id they already serve or *)
(* served.  One mutex makes each operation atomic.                         *)
(***************************************************************************)
EXTENDS Integers, Sequences, FiniteSets

CONSTANTS
    Ids,  \* control_ids
    Cap   \* NewCommandDedup's capacity (1000)

ASSUME CapAssumption == Cap \in Nat \ {0}

VARIABLES
    entries,  \* map: control_id to InFlight or the cached reply
    keys      \* reserved control_ids in insertion order

dedupVars == <<entries, keys>>

InFlight == "nil"  \* the nil sentinel

DedupInit == entries = << >> /\ keys = << >>

Known(id) == id \in DOMAIN entries

Store(map, id, value) ==
    [k \in DOMAIN map \cup {id} |-> IF k = id THEN value ELSE map[k]]

\* The oldest reservation goes when the list of keys is full, whether its write
\* is still running or not.
Evictees == IF Len(keys) >= Cap THEN {Head(keys)} ELSE {}

ReserveUnlessCached(id) ==  \* faulty: a write in flight is not recognised
    /\ Known(id) => entries[id] = InFlight
    /\ entries' = Store(entries, id, InFlight)
    /\ UNCHANGED keys

\* TryReserve returns (true, nil).
Reserve(id) ==
    LET kept == [k \in DOMAIN entries \ Evictees |-> entries[k]]
    IN  /\ ~Known(id)
        /\ entries' = Store(kept, id, InFlight)
        /\ keys' = Append(IF Evictees = {} THEN keys ELSE Tail(keys), id)

\* Complete stores the reply, also for a control_id evicted meanwhile.
Complete(id, reply) ==
    /\ entries' = Store(entries, id, reply)
    /\ UNCHANGED keys
=============================================================================
