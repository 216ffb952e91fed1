---------------------------- MODULE PersistentMap ----------------------------
(***************************************************************************)
(* The map every engine keeps its state in (common/persistent_map.py): a   *)
(* map is a view <<store, version, size>> of an append-only store that     *)
(* many views share.  A write to the newest view of a store extends the    *)
(* store; a write to an older one, or to one whose store has grown too     *)
(* long, first copies the view to a store of its own.                      *)
(*                                                                         *)
(* A chain, in the code one list of versions and values in ascending       *)
(* order, is a function from versions to values.  Callers keep any view,   *)
(* and write to any view they keep.                                        *)
(***************************************************************************)
EXTENDS Naturals, Sequences, FiniteSets

CONSTANTS
    Keys, Values,
    MISSING,            \* the tombstone
    RebaseFactor,       \* _REBASE_FACTOR
    RebaseSlack,        \* _REBASE_SLACK
    MaxMaps             \* bound: maps made

ASSUME MapAssumption ==
    /\ RebaseFactor \in Nat \ {0} /\ RebaseSlack \in Nat /\ MaxMaps \in Nat
    /\ MISSING \notin Values

VARIABLES
    stores,     \* every _Store made so far
    views       \* every PersistentMap made so far

vars == <<stores, views>>

Insertion == [key: Keys, at: Nat]

View == [store: Nat, version: Nat, size: Nat]

MapSet(map, key, value) ==
    [k \in DOMAIN map \cup {key} |-> IF k = key THEN value ELSE map[k]]

\* PersistentMap.__init__, from items with distinct keys.
FreshStore(items) ==
    [chains       |-> [k \in {items[i][1] : i \in DOMAIN items} |->
                          [v \in {0} |->
                              items[CHOOSE i \in DOMAIN items : items[i][1] = k][2]]],
     insertions   |-> [i \in DOMAIN items |-> [key |-> items[i][1], at |-> 0]],
     reinsertions |-> [k \in {} |-> <<>>],
     live_version |-> 0,
     entries      |-> Len(items)]

Init ==
    /\ stores = <<FreshStore(<<>>)>>
    /\ views = <<[store |-> 1, version |-> 0, size |-> 0]>>

-----------------------------------------------------------------------------
(* Reads *)

Visible(chain, version) == {v \in DOMAIN chain : v <= version}

Newest(versions) == CHOOSE v \in versions : \A w \in versions : w <= v

\* Mutant: a write one version newer is read as well.
LookupAhead(store, version, key) ==
    IF key \notin DOMAIN store.chains \/ Visible(store.chains[key], version + 1) = {}
    THEN MISSING
    ELSE store.chains[key][Newest(Visible(store.chains[key], version + 1))]

\* _lookup: the newest write to the key at or before the version.
Lookup(store, version, key) ==
    IF key \notin DOMAIN store.chains \/ Visible(store.chains[key], version) = {}
    THEN MISSING
    ELSE store.chains[key][Newest(Visible(store.chains[key], version))]

\* Mutant: the first insertion of a key places it for ever.
CurrentFirst(store, version, insertion) ==
    insertion.key \in DOMAIN store.reinsertions =>
        insertion.at = Head(store.reinsertions[insertion.key])

\* _live: of a key inserted more than once, the insertion that is newest at
\* this version.
Current(store, version, insertion) ==
    insertion.key \in DOMAIN store.reinsertions =>
        LET history == store.reinsertions[insertion.key]
        IN  insertion.at = Newest({history[i] : i \in DOMAIN history} \cap 0..version)

\* A finite set of numbers as a sequence in ascending order.
Ascending(numbers) ==
    [n \in 1..Cardinality(numbers) |->
        CHOOSE p \in numbers : Cardinality({q \in numbers : q <= p}) = n]

\* The insertions a view at a version yields.
Yielded(store, version) ==
    {i \in DOMAIN store.insertions :
        /\ store.insertions[i].at <= version
        /\ Current(store, version, store.insertions[i])
        /\ Lookup(store, version, store.insertions[i].key) # MISSING}

\* _iter_items
ItemsAt(store, version) ==
    LET live == Ascending(Yielded(store, version))
        key(n) == store.insertions[live[n]].key
    IN  [n \in DOMAIN live |-> <<key(n), Lookup(store, version, key(n))>>]

Items(view) == ItemsAt(stores[view.store], view.version)

-----------------------------------------------------------------------------
(* Writes *)

IsNewest(view) == view.version = stores[view.store].live_version

\* _rebase_due
rebase_due(view) ==
    stores[view.store].entries > RebaseFactor * view.size + RebaseSlack

\* _branch of the newest view: the last insertion of a key and the last entry
\* of its chain, read without a version.
RebasedItems(store) ==
    LET last(key) == store.chains[key][Newest(DOMAIN store.chains[key])]
        Lives(insertion) ==
            /\ insertion.key \in DOMAIN store.reinsertions =>
                  LET history == store.reinsertions[insertion.key]
                  IN  history[Len(history)] = insertion.at
            /\ last(insertion.key) # MISSING
        live == Ascending({i \in DOMAIN store.insertions : Lives(store.insertions[i])})
        key(n) == store.insertions[live[n]].key
    IN  [n \in DOMAIN live |-> <<key(n), last(key(n))>>]

\* _branch
BranchItems(view) ==
    IF IsNewest(view) THEN RebasedItems(stores[view.store]) ELSE Items(view)

\* Mutant: a key that was ever written counts as present.
HoldsIfWritten(store, key) == key \in DOMAIN store.chains

\* What set and delete read of the key: the last entry of its chain.
Holds(store, key) ==
    key \in DOMAIN store.chains /\ Lookup(store, store.live_version, key) # MISSING

First(versions) == CHOOSE v \in versions : \A w \in versions : v <= w

\* The store that set leaves: one more entry, and for a key that was not there
\* one more insertion.
StoreWith(store, version, key, value) ==
    LET known    == key \in DOMAIN store.chains
        inserted == ~Holds(store, key)
    IN  [chains       |-> MapSet(store.chains, key,
                             IF known THEN MapSet(store.chains[key], version, value)
                                      ELSE [v \in {version} |-> value]),
         insertions   |-> IF inserted THEN Append(store.insertions, [key |-> key, at |-> version])
                                      ELSE store.insertions,
         reinsertions |-> IF known /\ inserted
                          THEN MapSet(store.reinsertions, key,
                                  IF key \in DOMAIN store.reinsertions
                                  THEN Append(store.reinsertions[key], version)
                                  ELSE <<First(DOMAIN store.chains[key]), version>>)
                          ELSE store.reinsertions,
         live_version |-> version,
         entries      |-> store.entries + 1]

\* The store that delete leaves: a tombstone ends the chain.
StoreWithout(store, version, key) ==
    [chains       |-> MapSet(store.chains, key, MapSet(store.chains[key], version, MISSING)),
     insertions   |-> store.insertions,
     reinsertions |-> store.reinsertions,
     live_version |-> version,
     entries      |-> store.entries + 1]

\* Mutant: a store is never rebased.
MustBranchNeverRebases(view) == ~IsNewest(view)

MustBranch(view) == ~IsNewest(view) \/ rebase_due(view)

\* The view a write extends, with its store: the view itself, or its _branch.
Base(view) ==
    IF MustBranch(view)
    THEN [id |-> Len(stores) + 1, store |-> FreshStore(BranchItems(view)),
          version |-> 0, size |-> Len(BranchItems(view))]
    ELSE [id |-> view.store, store |-> stores[view.store],
          version |-> view.version, size |-> view.size]

\* _view: the new map, on the store that was written.
Publish(base, written, size) ==
    /\ stores' = IF base.id \in DOMAIN stores THEN [stores EXCEPT ![base.id] = written]
                                              ELSE Append(stores, written)
    /\ views' = Append(views, [store |-> base.id, version |-> written.live_version,
                               size |-> size])

set(view, key, value) ==
    LET base == Base(view)
    IN  Publish(base, StoreWith(base.store, base.version + 1, key, value),
                IF Holds(base.store, key) THEN base.size ELSE base.size + 1)

\* A key the view does not hold is a KeyError.
delete(view, key) ==
    LET base == Base(view)
    IN  /\ Lookup(stores[view.store], view.version, key) # MISSING
        /\ Holds(base.store, key)
        /\ Publish(base, StoreWithout(base.store, base.version + 1, key), base.size - 1)

Next ==
    /\ Len(views) < MaxMaps
    /\ \E i \in DOMAIN views, key \in Keys :
          delete(views[i], key) \/ \E value \in Values : set(views[i], key, value)

Spec == Init /\ [][Next]_vars

-----------------------------------------------------------------------------
(* Properties *)

\* Types; chains and insertions are in ascending versions, of which the store's
\* is the last, and no view is ahead of its store.
TypeOK ==
    /\ \A s \in DOMAIN stores :
          LET store == stores[s]
          IN  /\ DOMAIN store.chains \subseteq Keys
              /\ \A k \in DOMAIN store.chains :
                    /\ DOMAIN store.chains[k] \subseteq 0..store.live_version
                    /\ store.chains[k] \in [DOMAIN store.chains[k] -> Values \cup {MISSING}]
              /\ store.insertions \in Seq(Insertion)
              /\ \A i, j \in DOMAIN store.insertions :
                    i <= j => store.insertions[i].at <= store.insertions[j].at
              /\ DOMAIN store.reinsertions \subseteq DOMAIN store.chains
              /\ store.live_version \in Nat /\ store.entries \in Nat
    /\ views \in Seq(View)
    /\ \A i \in DOMAIN views :
          /\ views[i].store \in DOMAIN stores
          /\ views[i].version <= stores[views[i].store].live_version

ReadsKept ==
    \A i \in DOMAIN views :
        /\ views'[i] = views[i]
        /\ \A key \in Keys : Lookup(stores'[views[i].store], views[i].version, key)
                             = Lookup(stores[views[i].store], views[i].version, key)

\* "a write made at version v + 1 is invisible to it": no write, through any
\* view, changes what a key reads as in a map that exists.
ReadsNeverChange == [][ReadsKept]_vars

\* "older views keep observing exactly what they observed before": every map
\* ever made iterates, for ever, as the dict the same writes would have built.
Mapped == [i \in DOMAIN views |-> Items(views[i])]

Maps == INSTANCE OrderedMaps WITH maps <- Mapped

Immutable == Maps!MapsSpec

\* __len__ is a stored count: it is the number of items the map iterates.
SizeIsCount == \A i \in DOMAIN views : views[i].size = Len(Items(views[i]))

\* Every view is well formed and its stored count is true.
StoreInv == TypeOK /\ SizeIsCount

\* "iteration becomes O(keys present)": the store of a map that was just
\* written holds few more entries than the map has keys, however many writes
\* and deletions went before.
EntriesBounded ==
    \A i \in DOMAIN views :
        IsNewest(views[i]) =>
            stores[views[i].store].entries
                <= RebaseFactor * (views[i].size + 1) + RebaseSlack + 1
=============================================================================
