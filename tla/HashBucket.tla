----------------------------- MODULE HashBucket -----------------------------
(***************************************************************************)
(* include/utils/hash_bucket.h in its multi-threaded mode: a hash table    *)
(* whose zones have a recursive mutex each.  Threads look a key up and add *)
(* it when it is missing, keeping the zone locked in between (the protocol *)
(* described before HBUCKET_GET_F_NO_LOCK), or look it up, keep the zone   *)
(* locked, perhaps remove the entry, and unlock.  An access to the counter *)
(* of the whole bucket, which no zone's mutex protects, is two steps.      *)
(***************************************************************************)
EXTENDS Integers, Sequences, SequencesExt

CONSTANTS Threads, Keys, Zones,
          SIZE_T,          \* size_t counts modulo this
          hash(_)          \* hash_fn() and the mask: key -> zone

\* The mask yields a zone for every key; an owner is told from nobody.
ASSUME BucketAssumption ==
    /\ \A k \in Keys : hash(k) \in Zones
    /\ Keys # {} /\ "nobody" \notin Threads /\ SIZE_T \in Nat \ {0}

VARIABLES zone,    \* zone -> [entry_head, count, owner, depth]
          count,   \* hbskt->count
          th       \* thread -> [pc, key, tmp]; tmp: hbskt->count as read

vars == <<zone, count, th>>

Free == "nobody"

\* hbucket_create()
hbucket_create == [z \in Zones |-> [entry_head |-> <<>>, count |-> 0, owner |-> Free, depth |-> 0]]

Init == /\ zone = hbucket_create /\ count = 0
        /\ th = [t \in Threads |-> [pc |-> "idle", key |-> CHOOSE k \in Keys : TRUE, tmp |-> 0]]

\* hbucket_get_zone()
hbucket_get_zone(key) == hash(key)

\* hbucket_zone_lock() / hbucket_zone_unlock() on a recursive mutex.
CanLock(t, z) == zone[z].owner \in {Free, t}
Locked(zs, t, z) == [zs EXCEPT ![z].owner = t, ![z].depth = @ + 1]
Unlocked(zs, t, z) == [zs EXCEPT ![z].depth = @ - 1,
                                 ![z].owner = IF zs[z].depth = 1 THEN Free ELSE @]

Has(z, key) == Contains(zone[z].entry_head, key)

At(t, pc) == th[t].pc = pc
Goto(t, pc) == th' = [th EXCEPT ![t].pc = pc]
Z(t) == hbucket_get_zone(th[t].key)

-----------------------------------------------------------------------------
\* Mutation: the zone stays locked only when the key is found.
hbucket_entry_get_Unlocks(t, key) ==
    LET z == hbucket_get_zone(key) IN
    /\ At(t, "idle") /\ CanLock(t, z)
    /\ zone' = IF Has(z, key) THEN Locked(zone, t, z) ELSE zone
    /\ th' = [th EXCEPT ![t].pc = IF Has(z, key) THEN "found" ELSE "missing", ![t].key = key]
    /\ UNCHANGED count

\* hbucket_entry_get(HBUCKET_GET_F_F_LOCK): the zone stays locked whether
\* the key is found or not.
hbucket_entry_get(t, key) ==
    LET z == hbucket_get_zone(key) IN
    /\ At(t, "idle") /\ CanLock(t, z)
    /\ zone' = Locked(zone, t, z)
    /\ th' = [th EXCEPT ![t].pc = IF Has(z, key) THEN "found" ELSE "missing", ![t].key = key]
    /\ UNCHANGED count

\* hbucket_zone_unlock(): the caller could not create the entry, or removed it
\* and so can no longer unlock the zone by hbucket_entry_unlock().
hbucket_zone_unlock(t) ==
    /\ th[t].pc \in {"missing", "removed"}
    /\ zone' = Unlocked(zone, t, Z(t)) /\ Goto(t, "idle")
    /\ UNCHANGED count

\* hbucket_entry_add(HBUCKET_ADD_F_NO_LOCK): insert, count, unlock.
hbucket_entry_add(t) ==
    /\ At(t, "missing")
    /\ zone' = [zone EXCEPT ![Z(t)].entry_head = <<th[t].key>> \o @, ![Z(t)].count = @ + 1]
    /\ th' = [th EXCEPT ![t].pc = "adding", ![t].tmp = count]
    /\ UNCHANGED count

AddCount(t) ==
    /\ At(t, "adding")
    /\ count' = (th[t].tmp + 1) % SIZE_T
    /\ zone' = Unlocked(zone, t, Z(t)) /\ Goto(t, "idle")

\* TAILQ_REMOVE() of the entry with this key.
Unlinked(entries, key) == RemoveAt(entries, CHOOSE i \in DOMAIN entries : entries[i] = key)

\* hbucket_entry_remove() by the thread that found the entry: the mutex is
\* taken a second time, and the entry forgets its zone.
hbucket_entry_remove(t) ==
    /\ At(t, "found") /\ CanLock(t, Z(t))
    /\ zone' = [Locked(zone, t, Z(t)) EXCEPT ![Z(t)].entry_head = Unlinked(@, th[t].key),
                                            ![Z(t)].count = @ - 1]
    /\ th' = [th EXCEPT ![t].pc = "removing", ![t].tmp = count]
    /\ UNCHANGED count

RemoveCount(t) ==
    /\ At(t, "removing")
    /\ count' = (th[t].tmp - 1) % SIZE_T
    /\ zone' = Unlocked(zone, t, Z(t)) /\ Goto(t, "removed")

\* hbucket_entry_unlock(): the user is done with what it found.
hbucket_entry_unlock(t) ==
    /\ At(t, "found")
    /\ zone' = Unlocked(zone, t, Z(t)) /\ Goto(t, "idle")
    /\ UNCHANGED count

ThreadStep(t) == \/ \E k \in Keys : hbucket_entry_get(t, k)
                 \/ hbucket_zone_unlock(t) \/ hbucket_entry_add(t) \/ AddCount(t)
                 \/ hbucket_entry_remove(t) \/ RemoveCount(t) \/ hbucket_entry_unlock(t)

Next == \E t \in Threads : ThreadStep(t)

Spec == Init /\ [][Next]_vars

-----------------------------------------------------------------------------
(* Two threads that find a key missing at the same time never both add it: *)
(* the lock hbucket_entry_get() keeps covers the add, so a zone holds      *)
(* every key once, only its own keys, and its counter is its length.       *)
KeysUnique ==
    \A z \in Zones : /\ IsInjective(zone[z].entry_head)
                      /\ \A i \in DOMAIN zone[z].entry_head : hash(zone[z].entry_head[i]) = z
                      /\ zone[z].count = Len(zone[z].entry_head)
=============================================================================
