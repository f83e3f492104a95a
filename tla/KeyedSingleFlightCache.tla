------------------------ MODULE KeyedSingleFlightCache ------------------------
(***************************************************************************)
(* The bounded cache and single-flight primitive of the pull request       *)
(* service (apps/server/src/pullRequests/KeyedSingleFlightCache.ts).       *)
(*                                                                         *)
(* Every block under the lock is one step.  A load runs in a fiber of its  *)
(* own; it sees the source at some moment of its run and finishes, under   *)
(* the lock, in a later step, so anything may happen in between.           *)
(*                                                                         *)
(* The value of a key is the version of the source the load has seen.      *)
(* source and asked are not in the code: they are what freshness is        *)
(* measured against.  Closing the scope of the cache is left out.          *)
(***************************************************************************)
EXTENDS Integers, Sequences, Filtering

CONSTANTS
    Keys,
    Callers,        \* fibers that call get; one call at a time each
    Loads,          \* InFlight records; each is used once
    None,           \* no value, no load, no cache entry
    MaxEntries,     \* options.maxEntries
    MaxVersion      \* bound: changes of the source

CachedValue == [value : Nat, gen : Nat \ {0}, fresh : BOOLEAN]

ASSUME CacheConstants ==
    /\ MaxEntries \in Nat \ {0}
    /\ MaxVersion \in Nat
    /\ None \notin Loads
    /\ None \notin Nat
    /\ None \notin CachedValue

VARIABLES
    cache,          \* cache: per key a value, its generation, not yet expired
    recent,         \* the insertion order of that map, oldest first
    generations,    \* generations; 0 where the key is absent
    nextGeneration,
    load,           \* the InFlight records, and how far the fiber of each is
    caller,         \* the fibers inside get, and what their last call returned
    source,         \* the version of the remote data
    asked           \* the version it had when the key was last invalidated

vars == <<cache, recent, generations, nextGeneration, load, caller, source, asked>>

------------------------------------------------------------------------------
\* Operators

\* inFlight.get(`${generation}\u0000${key}`)
InFlight(k, g) == {l \in Loads : load[l].inFlight /\ load[l].key = k /\ load[l].gen = g}

\* The records that are still to be made; one is as good as another.
Unused == {l \in Loads : load[l].state = "unused"}

\* deleteCached, with releaseGenerationIfUnused
WithoutCached(drop) ==
    [k \in Keys |-> IF k \in drop THEN None ELSE cache[k]]

Released(drop) ==
    [k \in Keys |->
        IF k \in drop /\ cache[k].gen = generations[k] /\ InFlight(k, generations[k]) = {}
        THEN 0 ELSE generations[k]]

Expired(k) == cache[k] # None /\ ~cache[k].fresh
Hit(k)     == cache[k] # None /\ cache[k].fresh /\ generations[k] = cache[k].gen

\* What get drops before it selects.
Stale(k) == IF Expired(k) THEN {k} ELSE {}

Without(s, drop) == Filtered(s, Keys \ drop)

\* generationFor, on what is left of generations
GenerationFor(k, gens) == IF gens[k] # 0 THEN gens[k] ELSE nextGeneration + 1

\* Mutant of Pruned: room for one more than the map may hold.
PrunedLate ==
    LET expired == {k \in Keys : Expired(k)}
        left    == Without(recent, expired)
        surplus == Len(left) - MaxEntries
    IN  expired \cup {left[i] : i \in {j \in DOMAIN left : j <= surplus}}

\* pruneForInsert: the expired entries, then the oldest until there is room.
Pruned ==
    LET expired == {k \in Keys : Expired(k)}
        left    == Without(recent, expired)
        surplus == Len(left) + 1 - MaxEntries
    IN  expired \cup {left[i] : i \in {j \in DOMAIN left : j <= surplus}}

Idle(value, need) == [at |-> "idle", key |-> None, load |-> None, need |-> need, got |-> value]
Waiting(k, l)     == [at |-> "waiting", key |-> k, load |-> l, need |-> asked[k], got |-> None]

WaitsFor(c, l) == caller[c].at = "waiting" /\ caller[c].load = l

------------------------------------------------------------------------------
\* get

\* A fresh entry of the current generation answers, and becomes the most recent.
GetCached(c, k) ==
    /\ caller[c].at = "idle"
    /\ Hit(k)
    /\ recent' = Append(Without(recent, {k}), k)
    /\ caller' = [caller EXCEPT ![c] = Idle(cache[k].value, asked[k])]
    /\ UNCHANGED <<cache, generations, nextGeneration, load, source, asked>>

Join(c, k) ==
    /\ caller[c].at = "idle"
    /\ ~Hit(k)
    /\ \E l \in InFlight(k, Released(Stale(k))[k]) :
        /\ load' = [load EXCEPT ![l].waiters = @ + 1]
        /\ caller' = [caller EXCEPT ![c] = Waiting(k, l)]
    /\ cache' = WithoutCached(Stale(k))
    /\ recent' = Without(recent, Stale(k))
    /\ generations' = Released(Stale(k))
    /\ UNCHANGED <<nextGeneration, source, asked>>

\* Mutant of StartLoad: it does not look for a load in flight.
StartAnother(c, k) ==
    LET gens == Released(Stale(k))
        gen  == GenerationFor(k, gens)
    IN  /\ caller[c].at = "idle"
        /\ ~Hit(k)
        /\ Unused # {}
        /\ LET l == CHOOSE l \in Unused : TRUE IN
            /\ load' = [load EXCEPT ![l] =
                            [key |-> k, gen |-> gen, waiters |-> 1, inFlight |-> TRUE,
                             state |-> "loading", value |-> None]]
            /\ caller' = [caller EXCEPT ![c] = Waiting(k, l)]
        /\ cache' = WithoutCached(Stale(k))
        /\ recent' = Without(recent, Stale(k))
        /\ generations' = [gens EXCEPT ![k] = gen]
        /\ nextGeneration' = IF gens[k] = 0 THEN gen ELSE nextGeneration
        /\ UNCHANGED <<source, asked>>

\* No value and no load of the current generation: fork one, in the cache's scope.
StartLoad(c, k) ==
    LET gens == Released(Stale(k))
        gen  == GenerationFor(k, gens)
    IN  /\ caller[c].at = "idle"
        /\ ~Hit(k)
        /\ InFlight(k, gen) = {}
        /\ Unused # {}
        /\ LET l == CHOOSE l \in Unused : TRUE IN
            /\ load' = [load EXCEPT ![l] =
                            [key |-> k, gen |-> gen, waiters |-> 1, inFlight |-> TRUE,
                             state |-> "loading", value |-> None]]
            /\ caller' = [caller EXCEPT ![c] = Waiting(k, l)]
        /\ cache' = WithoutCached(Stale(k))
        /\ recent' = Without(recent, Stale(k))
        /\ generations' = [gens EXCEPT ![k] = gen]
        /\ nextGeneration' = IF gens[k] = 0 THEN gen ELSE nextGeneration
        /\ UNCHANGED <<source, asked>>

\* Mutant of Receive: the waiter is released twice.
ReceiveTwice(c) ==
    LET l == caller[c].load IN
    /\ caller[c].at = "waiting"
    /\ load[l].state = "settled"
    /\ caller' = [caller EXCEPT ![c] = Idle(load[l].value, caller[c].need)]
    /\ load' = [load EXCEPT ![l].waiters = @ - 2]
    /\ UNCHANGED <<cache, recent, generations, nextGeneration, source, asked>>

\* The deferred is done: take its exit, then releaseWaiter, which finds it settled.
Receive(c) ==
    LET l == caller[c].load IN
    /\ caller[c].at = "waiting"
    /\ load[l].state = "settled"
    /\ caller' = [caller EXCEPT ![c] = Idle(load[l].value, caller[c].need)]
    /\ load' = [load EXCEPT ![l].waiters = @ - 1]
    /\ UNCHANGED <<cache, recent, generations, nextGeneration, source, asked>>

------------------------------------------------------------------------------
\* releaseWaiter of a caller that is interrupted; Math.max(0, waiters - 1) never
\* has anything to cut off

\* Mutant of Leave: the load is given up whoever else waits.
LeaveFirst(c) ==
    LET l    == caller[c].load
        k    == caller[c].key
        last == load[l].state # "settled"
    IN  /\ caller[c].at = "waiting"
        /\ load' = [load EXCEPT ![l].waiters = @ - 1,
                                ![l].inFlight = @ /\ ~last]
        /\ generations' = IF last /\ generations[k] = load[l].gen
                          THEN [generations EXCEPT ![k] = 0] ELSE generations
        /\ caller' = [caller EXCEPT ![c] = IF last THEN [@ EXCEPT !.at = "interrupting"]
                                                   ELSE Idle(None, 0)]
        /\ UNCHANGED <<cache, recent, nextGeneration, source, asked>>

\* The last waiter of a load that runs takes it off the maps.
Leave(c) ==
    LET l    == caller[c].load
        k    == caller[c].key
        last == load[l].waiters = 1 /\ load[l].state # "settled"
    IN  /\ caller[c].at = "waiting"
        /\ load' = [load EXCEPT ![l].waiters = @ - 1,
                                ![l].inFlight = @ /\ ~last]
        /\ generations' = IF last /\ generations[k] = load[l].gen
                          THEN [generations EXCEPT ![k] = 0] ELSE generations
        /\ caller' = [caller EXCEPT ![c] = IF last THEN [@ EXCEPT !.at = "interrupting"]
                                                   ELSE Idle(None, 0)]
        /\ UNCHANGED <<cache, recent, nextGeneration, source, asked>>

\* Fiber.interrupt: a load that runs is interrupted, a finish that runs is not.
InterruptLoad(c) ==
    LET l == caller[c].load IN
    /\ caller[c].at = "interrupting"
    /\ load' = [load EXCEPT ![l].state = IF @ = "loading" THEN "failed" ELSE @]
    /\ caller' = [caller EXCEPT ![c].at = "leaving"]
    /\ UNCHANGED <<cache, recent, generations, nextGeneration, source, asked>>

\* ... and waits for the fiber to end.
Left(c) ==
    /\ caller[c].at = "leaving"
    /\ load[caller[c].load].state = "settled"
    /\ caller' = [caller EXCEPT ![c] = Idle(None, 0)]
    /\ UNCHANGED <<cache, recent, generations, nextGeneration, load, source, asked>>

------------------------------------------------------------------------------
\* The fiber of a load

LoadEnds(l) ==
    /\ load[l].state = "loading"
    /\ \/ load' = [load EXCEPT ![l].state = "loaded", ![l].value = source[load[l].key]]
       \/ load' = [load EXCEPT ![l].state = "failed"]
    /\ UNCHANGED <<cache, recent, generations, nextGeneration, caller, source, asked>>

\* Mutant of FinishUnpublished: the deferred is not done.
FinishSilently(l) ==
    LET k == load[l].key
        g == load[l].gen
    IN  /\ load[l].state \in {"loaded", "failed"}
        /\ load' = [load EXCEPT ![l].inFlight = FALSE]
        /\ generations' =
                IF generations[k] = g /\ (cache[k] = None \/ cache[k].gen # g)
                   /\ InFlight(k, g) \subseteq {l}
                THEN [generations EXCEPT ![k] = 0] ELSE generations
        /\ UNCHANGED <<cache, recent, nextGeneration, caller, source, asked>>

\* finish of a load that failed, that nobody may publish, or whose ttl callback threw
FinishUnpublished(l) ==
    LET k == load[l].key
        g == load[l].gen
    IN  /\ load[l].state \in {"loaded", "failed"}
        /\ load' = [load EXCEPT ![l].state = "settled", ![l].inFlight = FALSE]
        /\ generations' =
                IF generations[k] = g /\ (cache[k] = None \/ cache[k].gen # g)
                   /\ InFlight(k, g) \subseteq {l}
                THEN [generations EXCEPT ![k] = 0] ELSE generations
        /\ UNCHANGED <<cache, recent, nextGeneration, caller, source, asked>>

\* Mutant of FinishPublished: the generation is not compared.
FinishAnyGeneration(l) ==
    LET k == load[l].key IN
    /\ load[l].state = "loaded"
    /\ \E fresh \in BOOLEAN :
        cache' = [WithoutCached(Pruned) EXCEPT ![k] =
                    [value |-> load[l].value, gen |-> load[l].gen, fresh |-> fresh]]
    /\ recent' = Append(Without(recent, Pruned), k)
    /\ generations' = Released(Pruned)
    /\ load' = [load EXCEPT ![l].state = "settled", ![l].inFlight = FALSE]
    /\ UNCHANGED <<nextGeneration, caller, source, asked>>

\* finish of a load whose generation is still current; a ttl of 0 expires at once
FinishPublished(l) ==
    LET k == load[l].key IN
    /\ load[l].state = "loaded"
    /\ generations[k] = load[l].gen
    /\ \E fresh \in BOOLEAN :
        cache' = [WithoutCached(Pruned) EXCEPT ![k] =
                    [value |-> load[l].value, gen |-> load[l].gen, fresh |-> fresh]]
    /\ recent' = Append(Without(recent, Pruned), k)
    /\ generations' = Released(Pruned)
    /\ load' = [load EXCEPT ![l].state = "settled", ![l].inFlight = FALSE]
    /\ UNCHANGED <<nextGeneration, caller, source, asked>>

------------------------------------------------------------------------------
\* Invalidation, time and the source

\* Mutant of Invalidate: the generation stays.
InvalidateValues(some) ==
    /\ cache' = WithoutCached(some)
    /\ recent' = Without(recent, some)
    /\ asked' = [k \in Keys |-> IF k \in some THEN source[k] ELSE asked[k]]
    /\ UNCHANGED <<generations, nextGeneration, load, caller, source>>

\* invalidate, invalidateWhere and invalidateAll: one key, some keys, every key
Invalidate(some) ==
    /\ cache' = WithoutCached(some)
    /\ recent' = Without(recent, some)
    /\ generations' = [k \in Keys |-> IF k \in some THEN 0 ELSE generations[k]]
    /\ asked' = [k \in Keys |-> IF k \in some THEN source[k] ELSE asked[k]]
    /\ UNCHANGED <<nextGeneration, load, caller, source>>

Expire(k) ==
    /\ cache[k] # None
    /\ cache[k].fresh
    /\ cache' = [cache EXCEPT ![k].fresh = FALSE]
    /\ UNCHANGED <<recent, generations, nextGeneration, load, caller, source, asked>>

Change(k) ==
    /\ source[k] < MaxVersion
    /\ source' = [source EXCEPT ![k] = @ + 1]
    /\ UNCHANGED <<cache, recent, generations, nextGeneration, load, caller, asked>>

------------------------------------------------------------------------------
Init ==
    /\ cache = [k \in Keys |-> None]
    /\ recent = <<>>
    /\ generations = [k \in Keys |-> 0]
    /\ nextGeneration = 0
    /\ load = [l \in Loads |-> [key |-> None, gen |-> 0, waiters |-> 0, inFlight |-> FALSE,
                                state |-> "unused", value |-> None]]
    /\ caller = [c \in Callers |-> Idle(None, 0)]
    /\ source = [k \in Keys |-> 0]
    /\ asked = [k \in Keys |-> 0]

Get(c)    == \E k \in Keys : GetCached(c, k) \/ Join(c, k) \/ StartLoad(c, k)
Finish(l) == FinishUnpublished(l) \/ FinishPublished(l)

Next ==
    \/ \E c \in Callers : Get(c) \/ Receive(c) \/ Leave(c) \/ InterruptLoad(c) \/ Left(c)
    \/ \E l \in Loads : LoadEnds(l) \/ Finish(l)
    \/ \E some \in SUBSET Keys \ {{}} : Invalidate(some)
    \/ \E k \in Keys : Expire(k) \/ Change(k)

Spec == Init /\ [][Next]_vars

\* Fibers that can run are run, and every load ends.
FairSpec ==
    /\ Spec
    /\ \A c \in Callers : WF_vars(Receive(c) \/ InterruptLoad(c) \/ Left(c))
    /\ \A l \in Loads : WF_vars(LoadEnds(l)) /\ WF_vars(Finish(l))
------------------------------------------------------------------------------
\* Properties

InFlightRecord ==
    [key : Keys \cup {None}, gen : Nat, waiters : Nat, inFlight : BOOLEAN,
     state : {"unused", "loading", "loaded", "failed", "settled"}, value : Nat \cup {None}]

CallerRecord ==
    [at : {"idle", "waiting", "interrupting", "leaving"}, key : Keys \cup {None},
     load : Loads \cup {None}, need : Nat, got : Nat \cup {None}]

\* The maps of the cache hold what they are declared to hold, and no waiter
\* count goes below zero.
TypeOK ==
    /\ cache \in [Keys -> CachedValue \cup {None}]
    /\ recent \in Seq(Keys)
    /\ generations \in [Keys -> Nat]
    /\ nextGeneration \in Nat
    /\ load \in [Loads -> InFlightRecord]
    /\ caller \in [Callers -> CallerRecord]
    /\ source \in [Keys -> Nat]
    /\ asked \in [Keys -> Nat]

\* A get that begins after an invalidation is never answered with data read
\* before it, from the map or from a load that was already running
\* (KeyedSingleFlightCache.ts:14 "Invalidates one key without allowing older work
\* to repopulate it").
AnswersFresh ==
    \A c \in Callers : caller[c].at = "idle" /\ caller[c].got # None
                            => caller[c].got >= caller[c].need

\* No two loads of a key are in flight for one generation, not even when a load
\* was abandoned, invalidated or replaced in between.
SingleFlight ==
    \A l, m \in Loads :
        /\ load[l].inFlight /\ load[m].inFlight
        /\ load[l].key = load[m].key
        /\ load[l].gen = load[m].gen
        => l = m

\* A load is only interrupted when nobody waits for it any more, and nobody joins
\* it afterwards (KeyedSingleFlightCache.ts:11 "Cancelling one caller only cancels
\* the computation when it was the final waiter").
CancelledByLastWaiter ==
    \A c, d \in Callers :
        caller[c].at \in {"interrupting", "leaving"} => ~WaitsFor(d, caller[c].load)

\* The three maps agree: a cached value is of the current generation, a generation
\* is kept only for a cached value or a load in flight, and a load in flight has
\* a waiter; so none of them grows with keys that are no longer asked for.
MapsAgree ==
    /\ \A k \in Keys :
        /\ cache[k] # None => cache[k].gen = generations[k]
        /\ generations[k] # 0 => cache[k] # None \/ InFlight(k, generations[k]) # {}
    /\ \A l \in Loads : load[l].inFlight => \E c \in Callers : WaitsFor(c, l)

\* The cache holds at most maxEntries values, whichever expire or are evicted.
Bounded ==
    /\ Len(recent) <= MaxEntries
    /\ \A k \in Keys : cache[k] # None <=> \E i \in DOMAIN recent : recent[i] = k

\* Every get returns, and every caller that is interrupted ends, when loads end.
EveryGetEnds == \A c \in Callers : caller[c].at # "idle" ~> caller[c].at = "idle"
==============================================================================
