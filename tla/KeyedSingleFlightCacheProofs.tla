--------------------- MODULE KeyedSingleFlightCacheProofs ---------------------
(***************************************************************************)
(* That a get of KeyedSingleFlightCache never returns data older than the  *)
(* last invalidation before it, for any keys, callers and loads.           *)
(*                                                                         *)
(* The argument is about generations.  One that is current was current     *)
(* ever since the last invalidation of its key, so a value read for it is  *)
(* no older; and a new one exceeds every generation that any value or load *)
(* ever had, so nothing old can pass for it.                               *)
(***************************************************************************)
EXTENDS KeyedSingleFlightCache, FilteringProofs, TLAPS

USE CacheConstants

\* The types the argument needs; the order of the map is not among them.
MapsOK ==
    /\ cache \in [Keys -> CachedValue \cup {None}]
    /\ generations \in [Keys -> Nat]
    /\ nextGeneration \in Nat

LoadRecord ==
    [key : Keys \cup {None}, gen : Nat, waiters : Int, inFlight : BOOLEAN,
     state : {"unused", "loading", "loaded", "failed", "settled"}, value : Nat \cup {None}]

FibersOK ==
    /\ load \in [Loads -> LoadRecord]
    /\ caller \in [Callers -> CallerRecord]

SourceOK ==
    /\ source \in [Keys -> Nat]
    /\ asked \in [Keys -> Nat]
    /\ \A k \in Keys : asked[k] <= source[k]

\* Generations are handed out in order, and never twice.
GenerationsOrdered ==
    /\ \A k \in Keys : generations[k] <= nextGeneration
    /\ \A k \in Keys : cache[k] # None => cache[k].gen <= nextGeneration
    /\ \A l \in Loads : load[l].gen <= nextGeneration

\* A load that runs has no value yet, and one that has begun has a key.
LoadsOK ==
    \A l \in Loads :
        /\ load[l].state = "unused" => load[l].value = None /\ ~load[l].inFlight
        /\ load[l].state # "unused" => load[l].key \in Keys /\ load[l].gen # 0
        /\ load[l].state = "loading" => load[l].value = None
        /\ load[l].state = "loaded" => load[l].value # None

\* What the current generation holds is not older than the last invalidation.
CurrentFresh ==
    /\ \A k \in Keys : /\ cache[k] # None
                       /\ cache[k].gen = generations[k]
                       => cache[k].value >= asked[k]
    /\ \A l \in Loads : /\ load[l].value # None
                        /\ load[l].gen = generations[load[l].key]
                        => load[l].value >= asked[load[l].key]

\* Whoever waits will be given nothing older than what was asked for.
WaitersFresh ==
    \A c \in Callers : caller[c].at = "waiting" =>
        LET l == caller[c].load IN
        /\ l \in Loads
        /\ load[l].state # "unused"
        /\ caller[c].need <= source[load[l].key]
        /\ load[l].value # None => load[l].value >= caller[c].need

FreshInv ==
    /\ MapsOK /\ FibersOK /\ SourceOK
    /\ GenerationsOrdered /\ LoadsOK /\ CurrentFresh /\ WaitersFresh /\ AnswersFresh

\* deleteCached forgets values and generations, and adds none.
LEMMA Dropping ==
    ASSUME MapsOK, NEW drop
    PROVE  /\ WithoutCached(drop) \in [Keys -> CachedValue \cup {None}]
           /\ Released(drop) \in [Keys -> Nat]
           /\ \A k \in Keys : WithoutCached(drop)[k] \in {cache[k], None}
           /\ \A k \in Keys : Released(drop)[k] \in {generations[k], 0}
BY DEF MapsOK, WithoutCached, Released

\* One record changes.
LEMMA LoadUpdate ==
    ASSUME FibersOK, NEW l \in Loads, NEW r \in LoadRecord, load' = [load EXCEPT ![l] = r]
    PROVE  /\ load' \in [Loads -> LoadRecord]
           /\ load'[l] = r
           /\ \A m \in Loads : m # l => load'[m] = load[m]
BY DEF FibersOK

LEMMA FreshInit == Init => FreshInv
<1> SUFFICES ASSUME Init PROVE FreshInv OBVIOUS
<1>1. MapsOK /\ SourceOK /\ GenerationsOrdered
  BY DEF Init, MapsOK, SourceOK, GenerationsOrdered
<1>2. FibersOK
  BY DEF Init, FibersOK, LoadRecord, CallerRecord, Idle
<1>3. LoadsOK /\ CurrentFresh /\ WaitersFresh /\ AnswersFresh
  BY DEF Init, LoadsOK, CurrentFresh, WaitersFresh, AnswersFresh, Idle
<1> QED
  BY <1>1, <1>2, <1>3 DEF FreshInv

\* One step per action; under it, one per part of the invariant.
LEMMA FreshNext == FreshInv /\ [Next]_vars => FreshInv'
<1> SUFFICES ASSUME FreshInv, [Next]_vars PROVE FreshInv' OBVIOUS
<1>a. /\ MapsOK /\ FibersOK /\ SourceOK
      /\ GenerationsOrdered /\ LoadsOK /\ CurrentFresh /\ WaitersFresh /\ AnswersFresh
  BY DEF FreshInv
<1>1. ASSUME NEW c \in Callers, NEW k \in Keys, GetCached(c, k)
      PROVE  FreshInv'
  <2>1. MapsOK'
    BY <1>1, <1>a DEF GetCached, Hit, Idle, MapsOK, FibersOK, CachedValue, LoadsOK
  <2>2. FibersOK'
    BY <1>1, <1>a
    DEF GetCached, Hit, Idle, FibersOK, SourceOK, MapsOK, CachedValue, CallerRecord,
        LoadsOK
  <2>3. SourceOK'
    BY <1>1, <1>a DEF GetCached, Hit, Idle, SourceOK
  <2>4. GenerationsOrdered'
    BY <1>1, <1>a
    DEF GetCached, Hit, Idle, GenerationsOrdered, MapsOK, FibersOK, CachedValue
  <2>5. LoadsOK'
    BY <1>1, <1>a DEF GetCached, Hit, Idle, LoadsOK, FibersOK, SourceOK, MapsOK
  <2>6. CurrentFresh'
    BY <1>1, <1>a
    DEF GetCached, Hit, Idle, CurrentFresh, GenerationsOrdered, LoadsOK, MapsOK,
        FibersOK, SourceOK, CachedValue
  <2>7. WaitersFresh'
    BY <1>1, <1>a
    DEF GetCached, Hit, Idle, WaitersFresh, CurrentFresh, LoadsOK, MapsOK, FibersOK,
        SourceOK, CallerRecord
  <2>8. AnswersFresh'
    BY <1>1, <1>a
    DEF GetCached, Hit, Idle, AnswersFresh, WaitersFresh, CurrentFresh, MapsOK,
        FibersOK, SourceOK, CallerRecord
  <2> QED
    BY <2>1, <2>2, <2>3, <2>4, <2>5, <2>6, <2>7, <2>8 DEF FreshInv
<1>2. ASSUME NEW c \in Callers, NEW k \in Keys, Join(c, k)
      PROVE  FreshInv'
  <2>d. /\ WithoutCached(Stale(k)) \in [Keys -> CachedValue \cup {None}]
        /\ Released(Stale(k)) \in [Keys -> Nat]
        /\ \A q \in Keys : WithoutCached(Stale(k))[q] \in {cache[q], None}
        /\ \A q \in Keys : Released(Stale(k))[q] \in {generations[q], 0}
    BY <1>a, Dropping
  <2>a. PICK l \in InFlight(k, Released(Stale(k))[k]) :
            /\ load' = [load EXCEPT ![l].waiters = @ + 1]
            /\ caller' = [caller EXCEPT ![c] = Waiting(k, l)]
    BY <1>2 DEF Join
  <2> DEFINE r == [load[l] EXCEPT !.waiters = @ + 1]
  <2>b. /\ l \in Loads /\ load[l] \in LoadRecord
        /\ load[l].key = k /\ load[l].gen = Released(Stale(k))[k]
        /\ load[l].state # "unused" /\ load[l].gen # 0
    BY <1>a DEF InFlight, FibersOK, LoadsOK
  <2>c. /\ r \in LoadRecord
        /\ r.key = load[l].key /\ r.gen = load[l].gen /\ r.value = load[l].value
        /\ r.state = load[l].state /\ r.inFlight = load[l].inFlight
    BY <2>b DEF LoadRecord
  <2>e. load' = [load EXCEPT ![l] = r]
    BY <2>a
  <2> HIDE DEF r
  <2>f. /\ load' \in [Loads -> LoadRecord]
        /\ \A m \in Loads : /\ load'[m].key = load[m].key /\ load'[m].gen = load[m].gen
                            /\ load'[m].value = load[m].value /\ load'[m].state = load[m].state
                            /\ load'[m].inFlight = load[m].inFlight
    BY <1>a, <2>b, <2>c, <2>e, LoadUpdate
  <2>g. /\ cache' = WithoutCached(Stale(k))
        /\ generations' = Released(Stale(k))
        /\ UNCHANGED <<nextGeneration, source, asked>>
    BY <1>2 DEF Join
  <2>h. /\ caller' \in [Callers -> CallerRecord]
        /\ \A d \in Callers : d # c => caller'[d] = caller[d]
        /\ caller'[c] = Waiting(k, l) /\ Waiting(k, l).at = "waiting"
        /\ Waiting(k, l).load = l /\ Waiting(k, l).need = asked[k]
    BY <1>a, <2>a, <2>b DEF FibersOK, Waiting, CallerRecord, SourceOK
  <2>1. MapsOK'
    BY <1>a, <2>d, <2>g DEF MapsOK, CachedValue
  <2>2. FibersOK'
    BY <2>f, <2>h DEF FibersOK, LoadRecord, CallerRecord
  <2>3. SourceOK'
    BY <1>a, <2>g DEF SourceOK
  <2>4. GenerationsOrdered'
    BY <1>a, <2>d, <2>f, <2>g DEF GenerationsOrdered, MapsOK
  <2>5. LoadsOK'
    BY <1>a, <2>f DEF LoadsOK
  <2>6. CurrentFresh'
    BY <1>a, <2>d, <2>f, <2>g DEF CurrentFresh, LoadsOK, MapsOK, CachedValue
  <2>7. WaitersFresh'
    <3>1. asked[k] <= source[k] /\ (load[l].value # None => load[l].value >= asked[k])
      BY <1>a, <2>b, <2>d DEF SourceOK, CurrentFresh
    <3> QED
      BY <1>a, <2>b, <2>f, <2>g, <2>h, <3>1 DEF WaitersFresh
  <2>8. AnswersFresh'
    BY <1>a, <2>h DEF AnswersFresh
  <2> QED
    BY <2>1, <2>2, <2>3, <2>4, <2>5, <2>6, <2>7, <2>8 DEF FreshInv
<1>3. ASSUME NEW c \in Callers, NEW k \in Keys, StartLoad(c, k)
      PROVE  FreshInv'
  <2>d. /\ WithoutCached(Stale(k)) \in [Keys -> CachedValue \cup {None}]
        /\ Released(Stale(k)) \in [Keys -> Nat]
        /\ \A q \in Keys : WithoutCached(Stale(k))[q] \in {cache[q], None}
        /\ \A q \in Keys : Released(Stale(k))[q] \in {generations[q], 0}
    BY <1>a, Dropping
  <2> DEFINE gens == Released(Stale(k))
             gen == GenerationFor(k, gens)
             l == CHOOSE l \in Unused : TRUE
             r == [key |-> k, gen |-> gen, waiters |-> 1, inFlight |-> TRUE,
                   state |-> "loading", value |-> None]
  <2>a. l \in Loads /\ load[l].state = "unused"
    BY <1>3 DEF StartLoad, Unused
  <2>b. /\ gen \in Nat \ {0}
        /\ gens[k] # 0 => gen = gens[k] /\ gen = generations[k]
        /\ gens[k] = 0 => gen = nextGeneration + 1
    BY <1>a, <2>d DEF GenerationFor, MapsOK
  <2>c. /\ load' = [load EXCEPT ![l] = r] /\ caller' = [caller EXCEPT ![c] = Waiting(k, l)]
        /\ cache' = WithoutCached(Stale(k))
        /\ generations' = [gens EXCEPT ![k] = gen]
        /\ nextGeneration' = IF gens[k] = 0 THEN gen ELSE nextGeneration
        /\ UNCHANGED <<source, asked>>
    BY <1>3 DEF StartLoad
  <2>e. r \in LoadRecord
    BY <2>b DEF LoadRecord
  <2>f. /\ r.key = k /\ r.gen = gen /\ r.value = None /\ r.state = "loading"
    OBVIOUS
  <2> HIDE DEF r, l, gen, gens
  <2>g. /\ load' \in [Loads -> LoadRecord]
        /\ load'[l].key = k /\ load'[l].gen = gen
        /\ load'[l].value = None /\ load'[l].state = "loading"
        /\ \A m \in Loads : m # l => load'[m] = load[m]
    BY <1>a, <2>a, <2>c, <2>e, <2>f, LoadUpdate
  <2>h. /\ caller' \in [Callers -> CallerRecord]
        /\ \A d \in Callers : d # c => caller'[d] = caller[d]
        /\ caller'[c] = Waiting(k, l) /\ Waiting(k, l).at = "waiting"
        /\ Waiting(k, l).load = l /\ Waiting(k, l).need = asked[k]
    BY <1>a, <2>a, <2>c DEF FibersOK, Waiting, CallerRecord, SourceOK
  <2>i. /\ generations' \in [Keys -> Nat] /\ generations'[k] = gen
        /\ \A q \in Keys : q # k => generations'[q] \in {generations[q], 0}
        /\ \A q \in Keys : cache'[q] \in {cache[q], None}
        /\ \/ gen = generations[k] /\ nextGeneration' = nextGeneration
           \/ gen = nextGeneration + 1 /\ nextGeneration' = gen
    <3>1. gens \in [Keys -> Nat] /\ \A q \in Keys : gens[q] \in {generations[q], 0}
      BY <2>d DEF gens
    <3>2. /\ generations' \in [Keys -> Nat] /\ generations'[k] = gen
          /\ \A q \in Keys : q # k => generations'[q] \in {generations[q], 0}
      BY <2>b, <2>c, <3>1
    <3>3. \A q \in Keys : cache'[q] \in {cache[q], None}
      BY <2>c, <2>d
    <3>4. \/ gen = generations[k] /\ nextGeneration' = nextGeneration
          \/ gen = nextGeneration + 1 /\ nextGeneration' = gen
      BY <2>b, <2>c
    <3> QED
      BY <3>2, <3>3, <3>4
  <2>1. MapsOK'
    BY <1>a, <2>b, <2>c, <2>d, <2>i DEF MapsOK, CachedValue
  <2>2. FibersOK'
    BY <2>g, <2>h DEF FibersOK, LoadRecord, CallerRecord
  <2>3. SourceOK'
    BY <1>a, <2>c DEF SourceOK
  <2>4. GenerationsOrdered'
    <3>1. /\ nextGeneration \in Nat /\ nextGeneration' \in Nat
          /\ nextGeneration <= nextGeneration' /\ gen <= nextGeneration'
      BY <1>a, <2>b, <2>i DEF MapsOK, GenerationsOrdered
    <3>2. \A q \in Keys : generations'[q] <= nextGeneration'
      BY <1>a, <2>i, <3>1 DEF MapsOK, GenerationsOrdered
    <3>3. \A q \in Keys : cache'[q] # None => cache'[q].gen <= nextGeneration'
      BY <1>a, <2>i, <3>1 DEF MapsOK, GenerationsOrdered, CachedValue
    <3>4. ASSUME NEW m \in Loads PROVE load'[m].gen <= nextGeneration'
      <4>1. load[m].gen \in Nat /\ load[m].gen <= nextGeneration
        BY <1>a DEF FibersOK, LoadRecord, GenerationsOrdered
      <4> QED
        BY <2>g, <3>1, <4>1
    <3> QED
      BY <3>2, <3>3, <3>4 DEF GenerationsOrdered
  <2>5. LoadsOK'
    BY <1>a, <2>b, <2>g DEF LoadsOK
  <2>6. CurrentFresh'
    <3>1. \A q \in Keys : /\ cache'[q] # None
                        /\ cache'[q].gen = generations'[q]
                        => cache'[q].value >= asked[q]
      BY <1>a, <2>b, <2>i DEF CurrentFresh, GenerationsOrdered, MapsOK, CachedValue
    <3>2. ASSUME NEW m \in Loads, load'[m].value # None,
                 load'[m].gen = generations'[load'[m].key]
          PROVE  load'[m].value >= asked[load'[m].key]
      <4>1. m # l /\ load'[m] = load[m]
        BY <2>g, <3>2
      <4>2. load[m].key \in Keys /\ load[m].gen \in Nat \ {0} /\ load[m].gen <= nextGeneration
        BY <1>a, <3>2, <4>1 DEF LoadsOK, GenerationsOrdered, FibersOK, LoadRecord
      <4>3. load[m].gen = generations[load[m].key]
        BY <1>a, <2>i, <3>2, <4>1, <4>2 DEF MapsOK
      <4> QED
        BY <1>a, <3>2, <4>1, <4>3 DEF CurrentFresh
    <3> QED
      BY <2>c, <3>1, <3>2 DEF CurrentFresh
  <2>7. WaitersFresh'
    BY <1>a, <2>a, <2>c, <2>g, <2>h DEF WaitersFresh, SourceOK
  <2>8. AnswersFresh'
    BY <1>a, <2>h DEF AnswersFresh
  <2> QED
    BY <2>1, <2>2, <2>3, <2>4, <2>5, <2>6, <2>7, <2>8 DEF FreshInv
<1>4. ASSUME NEW c \in Callers, Receive(c)
      PROVE  FreshInv'
  <2> DEFINE l == caller[c].load
             r == [load[l] EXCEPT !.waiters = @ - 1]
  <2>a. /\ l \in Loads /\ load[l] \in LoadRecord /\ caller[c] \in CallerRecord
        /\ caller[c].at = "waiting"
    BY <1>4, <1>a DEF Receive, WaitersFresh, FibersOK
  <2>b. /\ load' = [load EXCEPT ![l] = r]
        /\ UNCHANGED <<cache, generations, nextGeneration, source, asked>>
    BY <1>4 DEF Receive
  <2>c. /\ r \in LoadRecord
        /\ r.key = load[l].key /\ r.gen = load[l].gen /\ r.value = load[l].value
        /\ r.state = load[l].state /\ r.inFlight = load[l].inFlight
    BY <2>a DEF LoadRecord
  <2> HIDE DEF r
  <2>d. /\ load' \in [Loads -> LoadRecord]
        /\ \A m \in Loads : /\ load'[m].key = load[m].key /\ load'[m].gen = load[m].gen
                            /\ load'[m].value = load[m].value /\ load'[m].state = load[m].state
                            /\ load'[m].inFlight = load[m].inFlight
    BY <1>a, <2>a, <2>b, <2>c, LoadUpdate
  <2>e. /\ caller' \in [Callers -> CallerRecord]
        /\ \A d \in Callers : d # c => caller'[d] = caller[d]
        /\ caller'[c].at = "idle" /\ caller'[c].got = load[l].value
        /\ caller'[c].need = caller[c].need
    BY <1>4, <1>a, <2>a DEF Receive, FibersOK, Idle, CallerRecord, LoadRecord
  <2>1. MapsOK'
    BY <1>a, <2>b DEF MapsOK, CachedValue
  <2>2. FibersOK'
    BY <2>d, <2>e DEF FibersOK, LoadRecord, CallerRecord
  <2>3. SourceOK'
    BY <1>a, <2>b DEF SourceOK
  <2>4. GenerationsOrdered'
    BY <1>a, <2>b, <2>d DEF GenerationsOrdered
  <2>5. LoadsOK'
    BY <1>a, <2>d DEF LoadsOK
  <2>6. CurrentFresh'
    BY <1>a, <2>b, <2>d DEF CurrentFresh
  <2>7. WaitersFresh'
    BY <1>a, <2>b, <2>d, <2>e DEF WaitersFresh
  <2>8. AnswersFresh'
    BY <1>a, <2>a, <2>e DEF AnswersFresh, WaitersFresh
  <2> QED
    BY <2>1, <2>2, <2>3, <2>4, <2>5, <2>6, <2>7, <2>8 DEF FreshInv
<1>5. ASSUME NEW c \in Callers, Leave(c)
      PROVE  FreshInv'
  <2> DEFINE l == caller[c].load
             last == load[l].waiters = 1 /\ load[l].state # "settled"
             kept == load[l].inFlight /\ ~last
             r == [load[l] EXCEPT !.waiters = @ - 1, !.inFlight = kept]
  <2>a. l \in Loads /\ load[l] \in LoadRecord /\ caller[c] \in CallerRecord
    BY <1>5, <1>a DEF Leave, WaitersFresh, FibersOK
  <2>b. load' = [load EXCEPT ![l] = r]
    BY <1>5 DEF Leave
  <2>c. /\ r \in LoadRecord
        /\ r.key = load[l].key /\ r.gen = load[l].gen /\ r.value = load[l].value
        /\ r.state = load[l].state /\ (r.inFlight => load[l].inFlight)
    <3>1. kept \in BOOLEAN /\ (kept => load[l].inFlight)
      OBVIOUS
    <3> HIDE DEF kept
    <3>2. load[l].waiters - 1 \in Int
      BY <2>a DEF LoadRecord
    <3>3. \A w \in Int, b \in BOOLEAN :
            [load[l] EXCEPT !.waiters = w, !.inFlight = b] \in LoadRecord
      BY <2>a DEF LoadRecord
    <3>4. r \in LoadRecord
      BY <3>1, <3>2, <3>3
    <3>5. /\ r.key = load[l].key /\ r.gen = load[l].gen /\ r.value = load[l].value
          /\ r.state = load[l].state /\ r.inFlight = kept
      BY <2>a DEF LoadRecord
    <3> QED
      BY <3>1, <3>4, <3>5
  <2> HIDE DEF r
  <2>d. /\ load' \in [Loads -> LoadRecord]
        /\ \A m \in Loads : /\ load'[m].key = load[m].key /\ load'[m].gen = load[m].gen
                            /\ load'[m].value = load[m].value /\ load'[m].state = load[m].state
                            /\ (load'[m].inFlight => load[m].inFlight)
    BY <1>a, <2>a, <2>b, <2>c, LoadUpdate
  <2>e. /\ generations' \in [Keys -> Nat]
        /\ \A q \in Keys : generations'[q] \in {generations[q], 0}
        /\ UNCHANGED <<cache, nextGeneration, source, asked>>
    BY <1>5, <1>a DEF Leave, MapsOK
  <2>f. /\ caller' \in [Callers -> CallerRecord]
        /\ \A d \in Callers : d # c => caller'[d] = caller[d]
        /\ caller'[c].at # "waiting" /\ (caller'[c].got = None \/ caller'[c].at # "idle")
    BY <1>5, <1>a, <2>a DEF Leave, FibersOK, Idle, CallerRecord
  <2>1. MapsOK'
    BY <1>a, <2>e DEF MapsOK, CachedValue
  <2>2. FibersOK'
    BY <2>d, <2>f DEF FibersOK, LoadRecord, CallerRecord
  <2>3. SourceOK'
    BY <1>a, <2>e DEF SourceOK
  <2>4. GenerationsOrdered'
    BY <1>a, <2>d, <2>e DEF GenerationsOrdered, MapsOK
  <2>5. LoadsOK'
    BY <1>a, <2>d DEF LoadsOK
  <2>6. CurrentFresh'
    BY <1>a, <2>d, <2>e DEF CurrentFresh, LoadsOK, MapsOK, CachedValue
  <2>7. WaitersFresh'
    BY <1>a, <2>d, <2>e, <2>f DEF WaitersFresh
  <2>8. AnswersFresh'
    BY <1>a, <2>f DEF AnswersFresh
  <2> QED
    BY <2>1, <2>2, <2>3, <2>4, <2>5, <2>6, <2>7, <2>8 DEF FreshInv
<1>6. ASSUME NEW c \in Callers, InterruptLoad(c)
      PROVE  FreshInv'
  <2> DEFINE l == caller[c].load
  <2>a. /\ load' \in [Loads -> LoadRecord]
        /\ \A m \in Loads :
            \/ load'[m] = load[m]
            \/ load[m].state = "loading" /\ load'[m] = [load[m] EXCEPT !.state = "failed"]
    <3>1. CASE l \in Loads /\ load[l].state = "loading"
      <4>1. load' = [load EXCEPT ![l] = [load[l] EXCEPT !.state = "failed"]]
        BY <1>6, <3>1 DEF InterruptLoad
      <4>2. [load[l] EXCEPT !.state = "failed"] \in LoadRecord
        BY <1>a, <3>1 DEF FibersOK, LoadRecord
      <4> QED
        BY <1>a, <3>1, <4>1, <4>2, LoadUpdate
    <3>2. CASE ~(l \in Loads /\ load[l].state = "loading")
      <4>1. load' = load
        <5>1. \A m \in Loads : load[m] = [load[m] EXCEPT !.state = load[m].state]
          BY <1>a DEF FibersOK, LoadRecord
        <5> QED
          BY <1>6, <1>a, <3>2, <5>1 DEF InterruptLoad, FibersOK
      <4> QED
        BY <1>a, <4>1 DEF FibersOK
    <3> QED
      BY <3>1, <3>2
  <2>b. \A m \in Loads : /\ load'[m].key = load[m].key /\ load'[m].gen = load[m].gen
                        /\ load'[m].value = load[m].value
                        /\ load'[m].inFlight = load[m].inFlight
                        /\ \/ load'[m].state = load[m].state
                           \/ load[m].state = "loading" /\ load'[m].state = "failed"
    BY <1>a, <2>a DEF FibersOK, LoadRecord
  <2>c. UNCHANGED <<cache, generations, nextGeneration, source, asked>>
    BY <1>6 DEF InterruptLoad
  <2>d. /\ caller' \in [Callers -> CallerRecord]
        /\ \A d \in Callers : d # c => caller'[d] = caller[d]
        /\ caller'[c].at = "leaving"
    BY <1>6, <1>a DEF InterruptLoad, FibersOK, CallerRecord
  <2>1. MapsOK'
    BY <1>a, <2>c DEF MapsOK, CachedValue
  <2>2. FibersOK'
    BY <2>a, <2>d DEF FibersOK, LoadRecord, CallerRecord
  <2>3. SourceOK'
    BY <1>a, <2>c DEF SourceOK
  <2>4. GenerationsOrdered'
    BY <1>a, <2>b, <2>c DEF GenerationsOrdered
  <2>5. LoadsOK'
    BY <1>a, <2>b DEF LoadsOK
  <2>6. CurrentFresh'
    BY <1>a, <2>b, <2>c DEF CurrentFresh
  <2>7. WaitersFresh'
    BY <1>a, <2>b, <2>c, <2>d DEF WaitersFresh
  <2>8. AnswersFresh'
    BY <1>a, <2>d DEF AnswersFresh
  <2> QED
    BY <2>1, <2>2, <2>3, <2>4, <2>5, <2>6, <2>7, <2>8 DEF FreshInv
<1>7. ASSUME NEW c \in Callers, Left(c)
      PROVE  FreshInv'
  <2>1. MapsOK'
    BY <1>7, <1>a DEF Left, Idle, MapsOK, FibersOK, CachedValue, LoadsOK
  <2>2. FibersOK'
    BY <1>7, <1>a
    DEF Left, Idle, FibersOK, SourceOK, MapsOK, CachedValue, CallerRecord, LoadsOK
  <2>3. SourceOK'
    BY <1>7, <1>a DEF Left, Idle, SourceOK
  <2>4. GenerationsOrdered'
    BY <1>7, <1>a DEF Left, Idle, GenerationsOrdered, MapsOK, FibersOK, CachedValue
  <2>5. LoadsOK'
    BY <1>7, <1>a DEF Left, Idle, LoadsOK, FibersOK, SourceOK, MapsOK
  <2>6. CurrentFresh'
    BY <1>7, <1>a
    DEF Left, Idle, CurrentFresh, GenerationsOrdered, LoadsOK, MapsOK, FibersOK,
        SourceOK, CachedValue
  <2>7. WaitersFresh'
    BY <1>7, <1>a
    DEF Left, Idle, WaitersFresh, CurrentFresh, LoadsOK, MapsOK, FibersOK, SourceOK,
        CallerRecord
  <2>8. AnswersFresh'
    BY <1>7, <1>a
    DEF Left, Idle, AnswersFresh, WaitersFresh, CurrentFresh, MapsOK, FibersOK,
        SourceOK, CallerRecord
  <2> QED
    BY <2>1, <2>2, <2>3, <2>4, <2>5, <2>6, <2>7, <2>8 DEF FreshInv
<1>8. ASSUME NEW l \in Loads, LoadEnds(l)
      PROVE  FreshInv'
  <2>a. load[l] \in LoadRecord /\ load[l].key \in Keys /\ source[load[l].key] \in Nat
    BY <1>8, <1>a DEF LoadEnds, FibersOK, LoadsOK, SourceOK
  <2>b. PICK r : /\ load' = [load EXCEPT ![l] = r]
                 /\ \/ r = [load[l] EXCEPT !.state = "loaded", !.value = source[load[l].key]]
                    \/ r = [load[l] EXCEPT !.state = "failed"]
    <3>1. load \in [Loads -> LoadRecord]
      BY <1>a DEF FibersOK
    <3>2. CASE load' = [load EXCEPT ![l].state = "failed"]
      <4>1. load' = [load EXCEPT ![l] = [load[l] EXCEPT !.state = "failed"]]
        BY <3>1, <3>2
      <4> QED
        BY <4>1
    <3>3. CASE load' = [load EXCEPT ![l].state = "loaded", ![l].value = source[load[l].key]]
      <4>1. load' = [load EXCEPT ![l] =
                       [load[l] EXCEPT !.state = "loaded", !.value = source[load[l].key]]]
        BY <3>1, <3>3
      <4> QED
        BY <4>1
    <3> QED
      BY <1>8, <3>2, <3>3 DEF LoadEnds
  <2>c. UNCHANGED <<cache, generations, nextGeneration, caller, source, asked>>
    BY <1>8 DEF LoadEnds
  <2>d. /\ r \in LoadRecord
        /\ r.key = load[l].key /\ r.gen = load[l].gen
        /\ \/ r.state = "loaded" /\ r.value = source[load[l].key]
           \/ r.state = "failed" /\ r.value = load[l].value
    <3>1. CASE r = [load[l] EXCEPT !.state = "failed"]
      BY <2>a, <3>1 DEF LoadRecord
    <3>2. CASE r = [load[l] EXCEPT !.state = "loaded", !.value = source[load[l].key]]
      BY <2>a, <3>2 DEF LoadRecord
    <3> QED
      BY <2>b, <3>1, <3>2
  <2>e. /\ load' \in [Loads -> LoadRecord] /\ load'[l] = r
        /\ \A m \in Loads : m # l => load'[m] = load[m]
    BY <1>a, <2>b, <2>d, LoadUpdate
  <2>f. load[l].state = "loading" /\ load[l].value = None
    BY <1>8, <1>a DEF LoadEnds, LoadsOK
  <2>1. MapsOK'
    BY <1>a, <2>c DEF MapsOK, CachedValue
  <2>2. FibersOK'
    BY <1>a, <2>c, <2>e DEF FibersOK, LoadRecord, CallerRecord
  <2>3. SourceOK'
    BY <1>a, <2>c DEF SourceOK
  <2>4. GenerationsOrdered'
    BY <1>a, <2>c, <2>d, <2>e DEF GenerationsOrdered
  <2>5. LoadsOK'
    BY <1>a, <2>a, <2>d, <2>e, <2>f DEF LoadsOK
  <2>6. CurrentFresh'
    BY <1>a, <2>a, <2>c, <2>d, <2>e, <2>f DEF CurrentFresh, SourceOK
  <2>7. WaitersFresh'
    BY <1>a, <2>c, <2>d, <2>e, <2>f DEF WaitersFresh
  <2>8. AnswersFresh'
    BY <1>a, <2>c DEF AnswersFresh
  <2> QED
    BY <2>1, <2>2, <2>3, <2>4, <2>5, <2>6, <2>7, <2>8 DEF FreshInv
<1>9. ASSUME NEW l \in Loads, FinishUnpublished(l)
      PROVE  FreshInv'
  <2> DEFINE k == load[l].key
             r == [load[l] EXCEPT !.state = "settled", !.inFlight = FALSE]
  <2>a. load[l] \in LoadRecord /\ k \in Keys /\ load[l].gen # 0
    BY <1>9, <1>a DEF FinishUnpublished, FibersOK, LoadsOK
  <2>b. load' = [load EXCEPT ![l] = r]
    BY <1>9 DEF FinishUnpublished
  <2>c. /\ r \in LoadRecord /\ r.state = "settled" /\ ~r.inFlight
        /\ r.key = load[l].key /\ r.gen = load[l].gen /\ r.value = load[l].value
    BY <2>a DEF LoadRecord
  <2> HIDE DEF r
  <2>d. /\ load' \in [Loads -> LoadRecord]
        /\ \A m \in Loads : /\ load'[m].key = load[m].key /\ load'[m].gen = load[m].gen
                            /\ load'[m].value = load[m].value
                            /\ load'[m] = load[m] \/ (m = l /\ load'[m].state = "settled")
    BY <1>a, <2>b, <2>c, LoadUpdate
  <2>i. UNCHANGED cache
    BY <1>9 DEF FinishUnpublished
  <2>j. /\ generations' \in [Keys -> Nat]
        /\ \A q \in Keys : generations'[q] \in {generations[q], 0}
        /\ UNCHANGED <<nextGeneration, caller, source, asked>>
    BY <1>9, <1>a DEF FinishUnpublished, MapsOK
  <2>1. MapsOK'
    BY <1>a, <2>i, <2>j DEF MapsOK, CachedValue
  <2>2. FibersOK'
    BY <1>a, <2>d, <2>j DEF FibersOK, LoadRecord, CallerRecord
  <2>3. SourceOK'
    BY <1>a, <2>j DEF SourceOK
  <2>4. GenerationsOrdered'
    BY <1>a, <2>d, <2>i, <2>j DEF GenerationsOrdered, MapsOK
  <2>5. LoadsOK'
    BY <1>9, <1>a, <2>d DEF FinishUnpublished, LoadsOK
  <2>6. CurrentFresh'
    BY <1>a, <2>d, <2>i, <2>j DEF CurrentFresh, LoadsOK, MapsOK, CachedValue
  <2>7. WaitersFresh'
    BY <1>a, <2>d, <2>j DEF WaitersFresh
  <2>8. AnswersFresh'
    BY <1>a, <2>j DEF AnswersFresh
  <2> QED
    BY <2>1, <2>2, <2>3, <2>4, <2>5, <2>6, <2>7, <2>8 DEF FreshInv
<1>10. ASSUME NEW l \in Loads, FinishPublished(l)
      PROVE  FreshInv'
  <2> DEFINE k == load[l].key
             r == [load[l] EXCEPT !.state = "settled", !.inFlight = FALSE]
  <2>a. load[l] \in LoadRecord /\ k \in Keys /\ load[l].gen # 0
    BY <1>10, <1>a DEF FinishPublished, FibersOK, LoadsOK
  <2>b. load' = [load EXCEPT ![l] = r]
    BY <1>10 DEF FinishPublished
  <2>c. /\ r \in LoadRecord /\ r.state = "settled" /\ ~r.inFlight
        /\ r.key = load[l].key /\ r.gen = load[l].gen /\ r.value = load[l].value
    BY <2>a DEF LoadRecord
  <2> HIDE DEF r
  <2>d. /\ load' \in [Loads -> LoadRecord]
        /\ \A m \in Loads : /\ load'[m].key = load[m].key /\ load'[m].gen = load[m].gen
                            /\ load'[m].value = load[m].value
                            /\ load'[m] = load[m] \/ (m = l /\ load'[m].state = "settled")
    BY <1>a, <2>b, <2>c, LoadUpdate
  <2>e. /\ WithoutCached(Pruned) \in [Keys -> CachedValue \cup {None}]
        /\ Released(Pruned) \in [Keys -> Nat]
        /\ \A q \in Keys : WithoutCached(Pruned)[q] \in {cache[q], None}
        /\ \A q \in Keys : Released(Pruned)[q] \in {generations[q], 0}
    BY <1>a, Dropping
  <2>f. PICK fresh \in BOOLEAN :
            cache' = [WithoutCached(Pruned) EXCEPT ![k] =
                        [value |-> load[l].value, gen |-> load[l].gen, fresh |-> fresh]]
    BY <1>10 DEF FinishPublished
  <2>g. load[l].value \in Nat /\ generations[k] = load[l].gen
    BY <1>10, <1>a, <2>a DEF FinishPublished, LoadsOK, LoadRecord
  <2>h. [value |-> load[l].value, gen |-> load[l].gen, fresh |-> fresh] \in CachedValue
    BY <2>a, <2>g DEF CachedValue, LoadRecord
  <2>i. /\ cache' \in [Keys -> CachedValue \cup {None}]
        /\ \A q \in Keys : \/ cache'[q] \in {cache[q], None}
                           \/ /\ q = k
                              /\ cache'[q].value = load[l].value /\ cache'[q].gen = load[l].gen
    BY <2>a, <2>e, <2>f, <2>h
  <2>j. /\ generations' \in [Keys -> Nat]
        /\ \A q \in Keys : generations'[q] \in {generations[q], 0}
        /\ UNCHANGED <<nextGeneration, caller, source, asked>>
    BY <1>10, <2>e DEF FinishPublished
  <2>1. MapsOK'
    BY <1>a, <2>i, <2>j DEF MapsOK, CachedValue
  <2>2. FibersOK'
    BY <1>a, <2>d, <2>j DEF FibersOK, LoadRecord, CallerRecord
  <2>3. SourceOK'
    BY <1>a, <2>j DEF SourceOK
  <2>4. GenerationsOrdered'
    BY <1>a, <2>a, <2>g, <2>d, <2>i, <2>j DEF GenerationsOrdered, MapsOK
  <2>5. LoadsOK'
    BY <1>10, <1>a, <2>d DEF FinishPublished, LoadsOK
  <2>6. CurrentFresh'
    BY <1>a, <2>a, <2>g, <2>d, <2>i, <2>j DEF CurrentFresh, LoadsOK, MapsOK, CachedValue
  <2>7. WaitersFresh'
    BY <1>a, <2>d, <2>j DEF WaitersFresh
  <2>8. AnswersFresh'
    BY <1>a, <2>j DEF AnswersFresh
  <2> QED
    BY <2>1, <2>2, <2>3, <2>4, <2>5, <2>6, <2>7, <2>8 DEF FreshInv
<1>11. ASSUME NEW some \in SUBSET Keys, Invalidate(some)
      PROVE  FreshInv'
  <2>1. MapsOK'
    BY <1>11, <1>a DEF Invalidate, WithoutCached, MapsOK, FibersOK, CachedValue, LoadsOK
  <2>2. FibersOK'
    BY <1>11, <1>a
    DEF Invalidate, WithoutCached, FibersOK, SourceOK, MapsOK, CachedValue,
        CallerRecord, LoadsOK
  <2>3. SourceOK'
    BY <1>11, <1>a DEF Invalidate, WithoutCached, SourceOK
  <2>4. GenerationsOrdered'
    BY <1>11, <1>a
    DEF Invalidate, WithoutCached, GenerationsOrdered, MapsOK, FibersOK, CachedValue
  <2>5. LoadsOK'
    BY <1>11, <1>a DEF Invalidate, WithoutCached, LoadsOK, FibersOK, SourceOK, MapsOK
  <2>6. CurrentFresh'
    BY <1>11, <1>a
    DEF Invalidate, WithoutCached, CurrentFresh, GenerationsOrdered, LoadsOK, MapsOK,
        FibersOK, SourceOK, CachedValue
  <2>7. WaitersFresh'
    BY <1>11, <1>a
    DEF Invalidate, WithoutCached, WaitersFresh, CurrentFresh, LoadsOK, MapsOK,
        FibersOK, SourceOK, CallerRecord
  <2>8. AnswersFresh'
    BY <1>11, <1>a
    DEF Invalidate, WithoutCached, AnswersFresh, WaitersFresh, CurrentFresh, MapsOK,
        FibersOK, SourceOK, CallerRecord
  <2> QED
    BY <2>1, <2>2, <2>3, <2>4, <2>5, <2>6, <2>7, <2>8 DEF FreshInv
<1>12. ASSUME NEW k \in Keys, Expire(k)
      PROVE  FreshInv'
  <2>1. MapsOK'
    BY <1>12, <1>a, ZenonT(30) DEF Expire, MapsOK, FibersOK, CachedValue, LoadsOK
  <2>2. FibersOK'
    BY <1>12, <1>a
    DEF Expire, FibersOK, SourceOK, MapsOK, CachedValue, CallerRecord, LoadsOK
  <2>3. SourceOK'
    BY <1>12, <1>a DEF Expire, SourceOK
  <2>4. GenerationsOrdered'
    BY <1>12, <1>a DEF Expire, GenerationsOrdered, MapsOK, FibersOK, CachedValue
  <2>5. LoadsOK'
    BY <1>12, <1>a DEF Expire, LoadsOK, FibersOK, SourceOK, MapsOK
  <2>6. CurrentFresh'
    BY <1>12, <1>a
    DEF Expire, CurrentFresh, GenerationsOrdered, LoadsOK, MapsOK, FibersOK, SourceOK,
        CachedValue
  <2>7. WaitersFresh'
    BY <1>12, <1>a
    DEF Expire, WaitersFresh, CurrentFresh, LoadsOK, MapsOK, FibersOK, SourceOK,
        CallerRecord
  <2>8. AnswersFresh'
    BY <1>12, <1>a
    DEF Expire, AnswersFresh, WaitersFresh, CurrentFresh, MapsOK, FibersOK, SourceOK,
        CallerRecord
  <2> QED
    BY <2>1, <2>2, <2>3, <2>4, <2>5, <2>6, <2>7, <2>8 DEF FreshInv
<1>13. ASSUME NEW k \in Keys, Change(k)
      PROVE  FreshInv'
  <2>1. MapsOK'
    BY <1>13, <1>a DEF Change, MapsOK, FibersOK, CachedValue, LoadsOK
  <2>2. FibersOK'
    BY <1>13, <1>a
    DEF Change, FibersOK, SourceOK, MapsOK, CachedValue, CallerRecord, LoadsOK
  <2>3. SourceOK'
    BY <1>13, <1>a DEF Change, SourceOK
  <2>4. GenerationsOrdered'
    BY <1>13, <1>a DEF Change, GenerationsOrdered, MapsOK, FibersOK, CachedValue
  <2>5. LoadsOK'
    BY <1>13, <1>a DEF Change, LoadsOK, FibersOK, SourceOK, MapsOK
  <2>6. CurrentFresh'
    BY <1>13, <1>a
    DEF Change, CurrentFresh, GenerationsOrdered, LoadsOK, MapsOK, FibersOK, SourceOK,
        CachedValue
  <2>7. WaitersFresh'
    BY <1>13, <1>a
    DEF Change, WaitersFresh, CurrentFresh, LoadsOK, MapsOK, FibersOK, SourceOK,
        CallerRecord
  <2>8. AnswersFresh'
    BY <1>13, <1>a
    DEF Change, AnswersFresh, WaitersFresh, CurrentFresh, MapsOK, FibersOK, SourceOK,
        CallerRecord
  <2> QED
    BY <2>1, <2>2, <2>3, <2>4, <2>5, <2>6, <2>7, <2>8 DEF FreshInv
<1>14. CASE UNCHANGED vars
  BY <1>14, <1>a
  DEF vars, FreshInv, MapsOK, FibersOK, SourceOK, GenerationsOrdered, LoadsOK,
     CurrentFresh, WaitersFresh, AnswersFresh
<1> QED
  BY <1>1, <1>2, <1>3, <1>4, <1>5, <1>6, <1>7, <1>8, <1>9, <1>10, <1>11, <1>12, <1>13, <1>14
  DEF Next, Get, Finish

\* A get that begins after an invalidation is never answered with data read
\* before it, from the map or from a load that was already running, whatever
\* other callers, loads, expiries and evictions do in between.
THEOREM GetsAreFresh == Spec => []AnswersFresh
<1>1. FreshInv => AnswersFresh
  BY DEF FreshInv
<1> QED
  BY <1>1, FreshInit, FreshNext, PTL DEF Spec
------------------------------------------------------------------------------
\* The three maps and the waiters

Present    == {k \in Keys : cache[k] # None}
Waiters(l) == {c \in Callers : WaitsFor(c, l)}
Unsettled  == {"loading", "loaded", "failed"}

\* A value is of the current generation, and a generation has a value or a load.
MapsPaired ==
    \A k \in Keys :
        /\ cache[k] # None => cache[k].gen = generations[k]
        /\ generations[k] # 0 =>
              \/ cache[k] # None
              \/ \E l \in Loads : /\ load[l].inFlight /\ load[l].key = k
                                /\ load[l].gen = generations[k]

\* While a load of the current generation has not settled, it can be joined, and
\* it is what the key has instead of a value.
LoadsHeld ==
    \A l \in Loads :
        /\ load[l].inFlight => load[l].state \in Unsettled
        /\ /\ load[l].state \in Unsettled
           /\ load[l].gen = generations[load[l].key]
           => load[l].inFlight /\ cache[load[l].key] = None

\* The counts are the numbers of those who wait.
WaitersCounted ==
    \A l \in Loads : IsFiniteSet(Waiters(l)) /\ load[l].waiters = Cardinality(Waiters(l))

\* Who waits, waits for a load in flight or settled; a load in flight is waited for.
WaitersHeld ==
    /\ \A l \in Loads : load[l].inFlight => load[l].waiters # 0
    /\ \A c \in Callers : caller[c].at = "waiting" =>
        LET l == caller[c].load IN
        /\ caller[c].key = load[l].key
        /\ load[l].state # "settled" => load[l].inFlight

\* A load that is being interrupted is off the maps, and nobody waits for it.
Abandoned ==
    \A c \in Callers : caller[c].at \in {"interrupting", "leaving"} =>
        LET l == caller[c].load IN
        /\ l \in Loads
        /\ load[l].state # "unused"
        /\ ~load[l].inFlight
        /\ load[l].waiters = 0

\* The order of the map lists its keys once, and there are not too many.
RecentOK ==
    /\ recent \in Seq(Keys)
    /\ Distinct(recent)
    /\ Range(recent) = Present
    /\ Len(recent) <= MaxEntries

MapsInv ==
    /\ FreshInv
    /\ SingleFlight /\ MapsPaired /\ LoadsHeld
    /\ WaitersCounted /\ WaitersHeld /\ Abandoned /\ RecentOK

LEMMA DropFacts ==
    ASSUME MapsOK, MapsPaired, NEW drop \in SUBSET Present
    PROVE  /\ \A k \in Keys : WithoutCached(drop)[k] = IF k \in drop THEN None ELSE cache[k]
           /\ \A k \in Keys : Released(drop)[k] =
                IF k \in drop /\ InFlight(k, generations[k]) = {} THEN 0 ELSE generations[k]
BY DEF Present, WithoutCached, Released, MapsPaired, MapsOK

LEMMA StaleIsPresent == ASSUME NEW k \in Keys PROVE Stale(k) \in SUBSET Present
BY DEF Stale, Expired, Present

LEMMA WithoutFacts ==
    ASSUME RecentOK, NEW drop
    PROVE  /\ Without(recent, drop) \in Seq(Keys)
           /\ Distinct(Without(recent, drop))
           /\ Range(Without(recent, drop)) = Present \ drop
           /\ Len(Without(recent, drop)) <= Len(recent)
<1>1. /\ Without(recent, drop) \in Seq(Keys)
      /\ Range(Without(recent, drop)) = Range(recent) \cap (Keys \ drop)
      /\ Len(Without(recent, drop)) <= Len(recent)
  BY FilteredElements DEF RecentOK, Without
<1>2. Distinct(Without(recent, drop))
  BY FilteredDistinct DEF RecentOK, Without
<1>3. Range(recent) \cap (Keys \ drop) = Present \ drop
  BY DEF RecentOK, Present
<1> QED
  BY <1>1, <1>2, <1>3

\* One waiter more, or one less, of a set that is counted.
LEMMA Counting ==
    ASSUME NEW W, IsFiniteSet(W), NEW c
    PROVE  /\ IsFiniteSet(W \cup {c}) /\ IsFiniteSet(W \ {c})
           /\ c \notin W => Cardinality(W \cup {c}) = Cardinality(W) + 1
           /\ c \notin W => Cardinality(W \ {c}) = Cardinality(W)
           /\ c \in W => Cardinality(W \ {c}) = Cardinality(W) - 1
BY FS_AddElement, FS_RemoveElement

\* The last of them is the only one.
LEMMA OnlyWaiter ==
    ASSUME NEW W, IsFiniteSet(W), NEW c \in W, Cardinality(W) = 1
    PROVE  W = {c}
<1>1. PICK x : W = {x}
  BY FS_Singleton
<1> QED
  BY <1>1

\* A record whose count of waiters changes.
LEMMA CountChanges ==
    ASSUME NEW r0 \in LoadRecord, NEW n \in Int, NEW r, r = [r0 EXCEPT !.waiters = n]
    PROVE  /\ r \in LoadRecord /\ r.waiters = n
           /\ r.key = r0.key /\ r.gen = r0.gen /\ r.value = r0.value
           /\ r.state = r0.state /\ (r.inFlight <=> r0.inFlight)
BY DEF LoadRecord

\* One caller changes.
LEMMA CallerUpdate ==
    ASSUME FibersOK, NEW c \in Callers, NEW r, caller' = [caller EXCEPT ![c] = r]
    PROVE  /\ caller'[c] = r
           /\ \A d \in Callers : d # c => caller'[d] = caller[d]
BY DEF FibersOK

\* A caller begins to wait, and the load counts one more.
LEMMA CountedJoins ==
    ASSUME WaitersCounted, NEW c \in Callers, NEW l \in Loads, caller[c].at # "waiting",
           caller'[c].at = "waiting", caller'[c].load = l,
           \A d \in Callers : d # c => caller'[d] = caller[d],
           load'[l].waiters = load[l].waiters + 1,
           \A m \in Loads : m # l => load'[m].waiters = load[m].waiters
    PROVE  WaitersCounted'
<1> SUFFICES ASSUME NEW m \in Loads
             PROVE  IsFiniteSet(Waiters(m)') /\ load'[m].waiters = Cardinality(Waiters(m)')
  BY DEF WaitersCounted
<1>1. IsFiniteSet(Waiters(m)) /\ load[m].waiters = Cardinality(Waiters(m))
  BY DEF WaitersCounted
<1>2. CASE m = l
  <2>1. c \notin Waiters(m) /\ Waiters(m)' = Waiters(m) \cup {c}
    BY <1>2 DEF Waiters, WaitsFor
  <2> QED
    BY <1>1, <1>2, <2>1, Counting
<1>3. CASE m # l
  <2>1. Waiters(m)' = Waiters(m)
    BY <1>3 DEF Waiters, WaitsFor
  <2> QED
    BY <1>1, <1>3, <2>1
<1> QED
  BY <1>2, <1>3

\* A caller waits no longer, and the load counts one less.
LEMMA CountedLeaves ==
    ASSUME WaitersCounted, NEW c \in Callers, NEW l \in Loads, caller[c].at = "waiting",
           caller[c].load = l, caller'[c].at # "waiting",
           \A d \in Callers : d # c => caller'[d] = caller[d],
           load'[l].waiters = load[l].waiters - 1,
           \A m \in Loads : m # l => load'[m].waiters = load[m].waiters
    PROVE  WaitersCounted'
<1> SUFFICES ASSUME NEW m \in Loads
             PROVE  IsFiniteSet(Waiters(m)') /\ load'[m].waiters = Cardinality(Waiters(m)')
  BY DEF WaitersCounted
<1>1. IsFiniteSet(Waiters(m)) /\ load[m].waiters = Cardinality(Waiters(m))
  BY DEF WaitersCounted
<1>2. CASE m = l
  <2>1. c \in Waiters(m) /\ Waiters(m)' = Waiters(m) \ {c}
    BY <1>2 DEF Waiters, WaitsFor
  <2> QED
    BY <1>1, <1>2, <2>1, Counting
<1>3. CASE m # l
  <2>1. Waiters(m)' = Waiters(m)
    BY <1>3 DEF Waiters, WaitsFor
  <2> QED
    BY <1>1, <1>3, <2>1
<1> QED
  BY <1>2, <1>3

\* Nobody begins or ends to wait.
LEMMA CountedStays ==
    ASSUME WaitersCounted, \A m \in Loads : load'[m].waiters = load[m].waiters,
           \A d \in Callers : caller'[d] = caller[d] \/
                (caller[d].at # "waiting" /\ caller'[d].at # "waiting")
    PROVE  WaitersCounted'
<1>1. \A m \in Loads : Waiters(m)' = Waiters(m)
  BY DEF Waiters, WaitsFor
<1> QED
  BY <1>1 DEF WaitersCounted

\* Nobody waits for a load that is not used yet.
LEMMA UnusedUnwaited ==
    ASSUME WaitersFresh, NEW l \in Loads, load[l].state = "unused"
    PROVE  Waiters(l) = {}
BY DEF WaitersFresh, Waiters, WaitsFor

LEMMA MapsInit == Init => MapsInv
<1> SUFFICES ASSUME Init PROVE MapsInv
  OBVIOUS
<1>1. FreshInv
  BY FreshInit
<1>2. SingleFlight /\ MapsPaired /\ LoadsHeld /\ Abandoned /\ WaitersHeld
  BY DEF Init, SingleFlight, MapsPaired, LoadsHeld, Abandoned, WaitersHeld, Idle, Unsettled
<1>3. WaitersCounted
  <2>1. \A l \in Loads : Waiters(l) = {} /\ load[l].waiters = 0
    BY DEF Init, Waiters, WaitsFor, Idle
  <2> QED
    BY <2>1, FS_EmptySet DEF WaitersCounted
<1>4. RecentOK
  <2>1. recent = <<>> /\ Present = {}
    BY DEF Init, Present
  <2>2. recent \in Seq(Keys) /\ Len(recent) = 0 /\ Range(recent) = {}
    BY <2>1, EmptyRange
  <2> QED
    BY <2>1, <2>2 DEF RecentOK, Distinct
<1> QED
  BY <1>1, <1>2, <1>3, <1>4 DEF MapsInv

\* What the invariant says, and that the part proved above goes on to hold.
LEMMA MapsGetCached ==
    ASSUME MapsInv, NEW c \in Callers, NEW k \in Keys, GetCached(c, k), FreshInv'
    PROVE  MapsInv'
<1>a. /\ MapsOK /\ FibersOK /\ WaitersFresh
      /\ SingleFlight /\ MapsPaired /\ LoadsHeld
      /\ WaitersCounted /\ WaitersHeld /\ Abandoned /\ RecentOK
  BY DEF MapsInv, FreshInv
<1> DEFINE r == Idle(cache[k].value, asked[k])
<1>b. /\ caller[c].at = "idle" /\ k \in Present
      /\ caller' = [caller EXCEPT ![c] = r] /\ r.at = "idle"
      /\ recent' = Append(Without(recent, {k}), k)
      /\ UNCHANGED <<cache, generations, nextGeneration, load, source, asked>>
  BY DEF GetCached, Hit, Present, Idle
<1> HIDE DEF r
<1>c. /\ caller'[c].at = "idle"
      /\ \A d \in Callers : d # c => caller'[d] = caller[d]
  BY <1>a, <1>b, CallerUpdate
<1>1. SingleFlight' /\ MapsPaired' /\ LoadsHeld'
  BY <1>a, <1>b DEF SingleFlight, MapsPaired, LoadsHeld
<1>2. WaitersCounted'
  <2>1. \A d \in Callers : \/ caller'[d] = caller[d]
                           \/ caller[d].at # "waiting" /\ caller'[d].at # "waiting"
    BY <1>b, <1>c
  <2>2. \A m \in Loads : load'[m].waiters = load[m].waiters
    BY <1>b
  <2> QED
    BY <1>a, <2>1, <2>2, CountedStays
<1>3. WaitersHeld' /\ Abandoned'
  BY <1>a, <1>b, <1>c DEF WaitersHeld, Abandoned
<1>4. RecentOK'
  <2> DEFINE left == Without(recent, {k})
  <2>1. left \in Seq(Keys) /\ Distinct(left) /\ Range(left) = Present \ {k}
    BY <1>a, WithoutFacts
  <2>2. Len(left) + 1 <= MaxEntries
    <3>1. IsFiniteSet(Present) /\ Cardinality(Present) = Len(recent) /\ Len(recent) <= MaxEntries
      BY <1>a, DistinctLength DEF RecentOK
    <3>2. Cardinality(Present \ {k}) = Len(left)
      BY <2>1, DistinctLength
    <3>3. Cardinality(Present \ {k}) = Cardinality(Present) - 1
      BY <1>b, <3>1, FS_RemoveElement
    <3>4. Len(recent) \in Nat
      BY <1>a, LenProperties DEF RecentOK
    <3> QED
      BY <3>1, <3>2, <3>3, <3>4
  <2> HIDE DEF left
  <2>3. /\ Append(left, k) \in Seq(Keys) /\ Distinct(Append(left, k))
        /\ Range(Append(left, k)) = Range(left) \cup {k}
        /\ Len(Append(left, k)) = Len(left) + 1
    BY <2>1, AppendRange, AppendDistinct
  <2>4. recent' = Append(left, k) /\ Present' = Present /\ Range(recent') = Present
    BY <1>b, <2>1, <2>3 DEF left, Present
  <2> QED
    BY <2>2, <2>3, <2>4 DEF RecentOK
<1> QED
  BY <1>1, <1>2, <1>3, <1>4 DEF MapsInv

LEMMA MapsJoin ==
    ASSUME MapsInv, NEW c \in Callers, NEW k \in Keys, Join(c, k), FreshInv'
    PROVE  MapsInv'
<1>a. /\ MapsOK /\ FibersOK /\ LoadsOK /\ WaitersFresh
      /\ SingleFlight /\ MapsPaired /\ LoadsHeld
      /\ WaitersCounted /\ WaitersHeld /\ Abandoned /\ RecentOK
  BY DEF MapsInv, FreshInv
<1>b. PICK l \in InFlight(k, Released(Stale(k))[k]) :
          /\ load' = [load EXCEPT ![l].waiters = @ + 1]
          /\ caller' = [caller EXCEPT ![c] = Waiting(k, l)]
  BY DEF Join
<1>c. /\ caller[c].at = "idle"
      /\ cache' = WithoutCached(Stale(k))
      /\ recent' = Without(recent, Stale(k))
      /\ generations' = Released(Stale(k))
  BY DEF Join
<1>d. /\ \A q \in Keys : cache'[q] = IF q \in Stale(k) THEN None ELSE cache[q]
      /\ \A q \in Keys : generations'[q] =
            IF q \in Stale(k) /\ InFlight(q, generations[q]) = {} THEN 0 ELSE generations[q]
  BY <1>a, <1>c, DropFacts, StaleIsPresent
<1>e. /\ l \in Loads /\ load[l] \in LoadRecord /\ load[l].inFlight /\ load[l].key = k
      /\ load[l].gen = generations'[k] /\ load[l].state \in Unsettled
  BY <1>a, <1>b, <1>c DEF InFlight, FibersOK, LoadsHeld
<1>n. load[l].waiters \in Nat
  BY <1>a, <1>e, FS_CardinalityType DEF WaitersCounted
<1> DEFINE r == [load[l] EXCEPT !.waiters = load[l].waiters + 1]
<1>f. /\ r \in LoadRecord /\ r.waiters = load[l].waiters + 1
      /\ r.key = load[l].key /\ r.gen = load[l].gen
      /\ r.state = load[l].state /\ (r.inFlight <=> load[l].inFlight)
  <2>1. load[l].waiters + 1 \in Int
    BY <1>n
  <2> QED
    BY <1>e, <2>1, CountChanges
<1>g. load' = [load EXCEPT ![l] = r]
  BY <1>b
<1> HIDE DEF r
<1>h. /\ load'[l].waiters = load[l].waiters + 1
      /\ \A m \in Loads : m # l => load'[m] = load[m]
      /\ \A m \in Loads : /\ load'[m].key = load[m].key /\ load'[m].gen = load[m].gen
                          /\ load'[m].state = load[m].state
                          /\ (load'[m].inFlight <=> load[m].inFlight)
  BY <1>a, <1>e, <1>f, <1>g, LoadUpdate
<1> DEFINE w == Waiting(k, l)
<1>j. /\ caller' = [caller EXCEPT ![c] = w] /\ w.at = "waiting" /\ w.load = l /\ w.key = k
  BY <1>b DEF Waiting
<1> HIDE DEF w
<1>k. /\ caller'[c].at = "waiting" /\ caller'[c].load = l /\ caller'[c].key = k
      /\ \A d \in Callers : d # c => caller'[d] = caller[d]
  BY <1>a, <1>j, CallerUpdate
<1>1. SingleFlight'
  BY <1>a, <1>h DEF SingleFlight
<1>2. MapsPaired'
  <2>1. ASSUME NEW q \in Keys, cache'[q] # None
        PROVE  cache'[q].gen = generations'[q]
    BY <1>a, <1>d, <2>1 DEF MapsPaired, Stale
  <2>2. ASSUME NEW q \in Keys, generations'[q] # 0, cache'[q] = None
        PROVE  \E m \in Loads : /\ load[m].inFlight /\ load[m].key = q
                               /\ load[m].gen = generations'[q]
    <3>1. generations'[q] = generations[q]
      BY <1>d, <2>2
    <3>2. CASE q \in Stale(k)
      BY <1>d, <2>2, <3>1, <3>2 DEF InFlight
    <3>3. CASE q \notin Stale(k)
      BY <1>a, <1>d, <2>2, <3>1, <3>3 DEF MapsPaired
    <3> QED
      BY <3>2, <3>3
  <2>3. ASSUME NEW q \in Keys, generations'[q] # 0, cache'[q] = None
        PROVE  \E m \in Loads : /\ load'[m].inFlight /\ load'[m].key = q
                               /\ load'[m].gen = generations'[q]
    BY <1>h, <2>2, <2>3
  <2> QED
    BY <2>1, <2>3 DEF MapsPaired
<1>3. LoadsHeld'
  <2>1. \A m \in Loads : load[m].state \in Unsettled => load[m].key \in Keys /\ load[m].gen # 0
    BY <1>a DEF LoadsOK, Unsettled
  <2> QED
    BY <1>a, <1>d, <1>h, <2>1 DEF LoadsHeld
<1>4. WaitersCounted'
  BY <1>a, <1>c, <1>e, <1>h, <1>k, CountedJoins
<1>5. WaitersHeld'
  <2>1. \A m \in Loads : load'[m].inFlight => load'[m].waiters # 0
    BY <1>a, <1>h, <1>n DEF WaitersHeld
  <2>2. ASSUME NEW d \in Callers, caller'[d].at = "waiting"
        PROVE  /\ caller'[d].key = load'[caller'[d].load].key
               /\ load'[caller'[d].load].state # "settled" => load'[caller'[d].load].inFlight
    <3>1. CASE d = c
      BY <1>e, <1>h, <1>k, <3>1
    <3>2. CASE d # c
      BY <1>a, <1>h, <1>k, <2>2, <3>2 DEF WaitersHeld, WaitersFresh
    <3> QED
      BY <3>1, <3>2
  <2> QED
    BY <2>1, <2>2 DEF WaitersHeld
<1>6. Abandoned'
  BY <1>a, <1>e, <1>h, <1>k DEF Abandoned
<1>7. RecentOK'
  <2>1. Present' = Present \ Stale(k)
    BY <1>d DEF Present
  <2>2. Len(recent) \in Nat /\ Len(recent') \in Nat
    BY <1>a, <1>c, WithoutFacts, LenProperties DEF RecentOK
  <2> QED
    BY <1>a, <1>c, <2>1, <2>2, WithoutFacts DEF RecentOK
<1> QED
  BY <1>1, <1>2, <1>3, <1>4, <1>5, <1>6, <1>7 DEF MapsInv

LEMMA MapsStartLoad ==
    ASSUME MapsInv, NEW c \in Callers, NEW k \in Keys, StartLoad(c, k), FreshInv'
    PROVE  MapsInv'
<1>a. /\ MapsOK /\ FibersOK /\ LoadsOK /\ WaitersFresh /\ GenerationsOrdered
      /\ SingleFlight /\ MapsPaired /\ LoadsHeld
      /\ WaitersCounted /\ WaitersHeld /\ Abandoned /\ RecentOK
  BY DEF MapsInv, FreshInv
<1> DEFINE gens == Released(Stale(k))
           gen == GenerationFor(k, gens)
           l == CHOOSE l \in Unused : TRUE
           r == [key |-> k, gen |-> gen, waiters |-> 1, inFlight |-> TRUE,
                 state |-> "loading", value |-> None]
           w == Waiting(k, l)
<1>b. /\ caller[c].at = "idle" /\ ~Hit(k) /\ InFlight(k, gen) = {}
      /\ load' = [load EXCEPT ![l] = r]
      /\ caller' = [caller EXCEPT ![c] = w]
      /\ cache' = WithoutCached(Stale(k))
      /\ recent' = Without(recent, Stale(k))
      /\ generations' = [gens EXCEPT ![k] = gen]
  BY DEF StartLoad
<1>c. l \in Loads /\ load[l].state = "unused"
  BY DEF StartLoad, Unused
<1>d. /\ gens \in [Keys -> Nat]
      /\ \A q \in Keys : cache'[q] = IF q \in Stale(k) THEN None ELSE cache[q]
      /\ \A q \in Keys : gens[q] =
            IF q \in Stale(k) /\ InFlight(q, generations[q]) = {} THEN 0 ELSE generations[q]
  <2>1. Stale(k) \in SUBSET Present
    BY StaleIsPresent
  <2>2. /\ \A q \in Keys : WithoutCached(Stale(k))[q] = IF q \in Stale(k) THEN None ELSE cache[q]
        /\ \A q \in Keys : gens[q] =
              IF q \in Stale(k) /\ InFlight(q, generations[q]) = {} THEN 0 ELSE generations[q]
    BY <1>a, <2>1, DropFacts, Zenon
  <2>3. gens \in [Keys -> Nat]
    BY <1>a, Dropping
  <2> QED
    BY <1>b, <2>2, <2>3
<1>e. /\ gen \in Nat \ {0}
      /\ gen = generations[k] \/ gen = nextGeneration + 1
      /\ gens[k] # 0 => gen = gens[k]
  BY <1>a, <1>d DEF GenerationFor, MapsOK
<1>f. /\ r.key = k /\ r.gen = gen /\ r.waiters = 1 /\ r.inFlight /\ r.state = "loading"
      /\ r \in LoadRecord
  BY <1>e DEF LoadRecord
<1>g. w.at = "waiting" /\ w.load = l /\ w.key = k
  BY DEF Waiting
<1> HIDE DEF gens, gen, l, r, w
<1>h. load'[l] = r /\ \A m \in Loads : m # l => load'[m] = load[m]
  BY <1>a, <1>b, <1>c, <1>f, LoadUpdate
<1>i. /\ generations'[k] = gen /\ cache'[k] = None
      /\ \A q \in Keys : q # k => generations'[q] = generations[q] /\ cache'[q] = cache[q]
  <2>1. cache'[k] = None
    BY <1>a, <1>b, <1>d DEF Hit, Stale, Expired, MapsPaired
  <2>2. \A q \in Keys : q # k => q \notin Stale(k)
    BY DEF Stale
  <2> QED
    BY <1>b, <1>d, <2>1, <2>2
<1>j. /\ caller'[c] = w
      /\ \A d \in Callers : d # c => caller'[d] = caller[d]
  BY <1>a, <1>b, CallerUpdate
<1>n. ~load[l].inFlight
  BY <1>a, <1>c DEF LoadsOK
<1>1. SingleFlight'
  <2>1. \A m \in Loads : ~(load[m].inFlight /\ load[m].key = k /\ load[m].gen = gen)
    BY <1>b DEF InFlight
  <2> QED
    BY <1>a, <1>f, <1>h, <2>1 DEF SingleFlight
<1>2. MapsPaired'
  <2>1. \E m \in Loads : load'[m].inFlight /\ load'[m].key = k /\ load'[m].gen = gen
    BY <1>c, <1>f, <1>h
  <2>2. \A m \in Loads : load[m].inFlight => load'[m] = load[m]
    BY <1>h, <1>n
  <2>3. ASSUME NEW q \in Keys, q # k
        PROVE  /\ cache'[q] # None => cache'[q].gen = generations'[q]
               /\ generations'[q] # 0 =>
                    \/ cache'[q] # None
                    \/ \E m \in Loads : /\ load'[m].inFlight /\ load'[m].key = q
                                       /\ load'[m].gen = generations'[q]
    <3>1. generations'[q] = generations[q] /\ cache'[q] = cache[q]
      BY <1>i, <2>3
    <3> QED
      BY <1>a, <2>2, <3>1 DEF MapsPaired
  <2> QED
    BY <1>i, <2>1, <2>3 DEF MapsPaired
<1>3. LoadsHeld'
  <2> SUFFICES ASSUME NEW m \in Loads
               PROVE  /\ load'[m].inFlight => load'[m].state \in Unsettled
                      /\ /\ load'[m].state \in Unsettled
                         /\ load'[m].gen = generations'[load'[m].key]
                         => load'[m].inFlight /\ cache'[load'[m].key] = None
    BY DEF LoadsHeld
  <2>1. CASE m = l
    BY <1>f, <1>h, <1>i, <2>1 DEF Unsettled
  <2>2. CASE m # l
    <3>1. load'[m] = load[m] /\ (load[m].inFlight => load[m].state \in Unsettled)
      BY <1>a, <1>h, <2>2 DEF LoadsHeld
    <3>2. ASSUME load[m].state \in Unsettled, load[m].gen = generations'[load[m].key]
          PROVE  load[m].inFlight /\ cache'[load[m].key] = None
      <4>1. load[m].key \in Keys /\ load[m].gen \in Nat /\ load[m].gen <= nextGeneration
        BY <1>a, <3>2 DEF LoadsOK, Unsettled, GenerationsOrdered, FibersOK, LoadRecord
      <4>2. load[m].gen = generations[load[m].key]
        BY <1>a, <1>e, <1>i, <3>2, <4>1 DEF MapsOK
      <4>3. load[m].inFlight /\ cache[load[m].key] = None
        BY <1>a, <3>2, <4>2 DEF LoadsHeld
      <4> QED
        BY <1>i, <4>1, <4>3
    <3> QED
      BY <3>1, <3>2
  <2> QED
    BY <2>1, <2>2
<1>4. WaitersCounted'
  <2>1. load[l].waiters = 0
    BY <1>a, <1>c, UnusedUnwaited, FS_EmptySet DEF WaitersCounted
  <2> QED
    BY <1>a, <1>b, <1>c, <1>f, <1>g, <1>h, <1>j, <2>1, CountedJoins
<1>5. WaitersHeld'
  BY <1>a, <1>c, <1>f, <1>g, <1>h, <1>j DEF WaitersHeld, WaitersFresh
<1>6. Abandoned'
  BY <1>a, <1>c, <1>g, <1>h, <1>j DEF Abandoned
<1>7. RecentOK'
  <2>1. Present' = Present \ Stale(k)
    BY <1>d DEF Present
  <2>2. Len(recent) \in Nat /\ Len(recent') \in Nat
    BY <1>a, <1>b, WithoutFacts, LenProperties DEF RecentOK
  <2> QED
    BY <1>a, <1>b, <2>1, <2>2, WithoutFacts DEF RecentOK
<1> QED
  BY <1>1, <1>2, <1>3, <1>4, <1>5, <1>6, <1>7 DEF MapsInv

\* What moves no map: loads and callers get on, values expire, the source changes.
LEMMA MapsStay ==
    ASSUME MapsInv, FreshInv', UNCHANGED <<recent, generations>>,
           \A q \in Keys : /\ cache'[q] = None <=> cache[q] = None
                           /\ cache[q] # None => cache'[q].gen = cache[q].gen,
           \A m \in Loads : /\ load'[m].key = load[m].key /\ load'[m].gen = load[m].gen
                            /\ load'[m].inFlight <=> load[m].inFlight
                            /\ load'[m].waiters = load[m].waiters,
           \A m \in Loads : \/ load'[m].state = load[m].state
                            \/ load[m].state \in Unsettled /\ load'[m].state \in Unsettled,
           \A d \in Callers : \/ caller'[d] = caller[d]
                              \/ caller[d].at # "waiting" /\ caller'[d].at = "idle"
                              \/ /\ caller[d].at = "interrupting"
                                 /\ caller'[d].at = "leaving"
                                 /\ caller'[d].load = caller[d].load
    PROVE  MapsInv'
<1>a. /\ MapsOK /\ FibersOK /\ LoadsOK /\ WaitersFresh
      /\ SingleFlight /\ MapsPaired /\ LoadsHeld
      /\ WaitersCounted /\ WaitersHeld /\ Abandoned /\ RecentOK
  BY DEF MapsInv, FreshInv
<1>b. generations' = generations /\ recent' = recent
  OBVIOUS
<1>1. SingleFlight'
  BY <1>a DEF SingleFlight
<1>2. MapsPaired'
  BY <1>a, <1>b DEF MapsPaired
<1>3. LoadsHeld'
  <2> SUFFICES ASSUME NEW m \in Loads
               PROVE  /\ load'[m].inFlight => load'[m].state \in Unsettled
                      /\ /\ load'[m].state \in Unsettled
                         /\ load'[m].gen = generations'[load'[m].key]
                         => load'[m].inFlight /\ cache'[load'[m].key] = None
    BY DEF LoadsHeld
  <2>1. load'[m].state \in Unsettled <=> load[m].state \in Unsettled
    OBVIOUS
  <2>2. load[m].state \in Unsettled => load[m].key \in Keys
    BY <1>a DEF LoadsOK, Unsettled
  <2> QED
    BY <1>a, <1>b, <2>1, <2>2 DEF LoadsHeld
<1>4. WaitersCounted'
  <2>1. \A d \in Callers : caller'[d] = caller[d] \/
                (caller[d].at # "waiting" /\ caller'[d].at # "waiting")
    OBVIOUS
  <2>2. \A m \in Loads : load'[m].waiters = load[m].waiters
    OBVIOUS
  <2> QED
    BY <1>a, <2>1, <2>2, CountedStays
<1>5. WaitersHeld'
  <2>1. \A m \in Loads : load'[m].inFlight => load'[m].waiters # 0
    BY <1>a DEF WaitersHeld
  <2>2. ASSUME NEW d \in Callers, caller'[d].at = "waiting"
        PROVE  /\ caller'[d].key = load'[caller'[d].load].key
               /\ load'[caller'[d].load].state # "settled" => load'[caller'[d].load].inFlight
    <3>1. caller'[d] = caller[d] /\ caller[d].load \in Loads
      BY <1>a, <2>2 DEF WaitersFresh
    <3> QED
      BY <1>a, <2>2, <3>1 DEF WaitersHeld, Unsettled
  <2> QED
    BY <2>1, <2>2 DEF WaitersHeld
<1>6. Abandoned'
  <2> SUFFICES ASSUME NEW d \in Callers, caller'[d].at \in {"interrupting", "leaving"}
               PROVE  LET l == caller'[d].load IN
                      /\ l \in Loads /\ load'[l].state # "unused"
                      /\ ~load'[l].inFlight /\ load'[l].waiters = 0
    BY DEF Abandoned
  <2>1. caller[d].at \in {"interrupting", "leaving"} /\ caller'[d].load = caller[d].load
    OBVIOUS
  <2> QED
    BY <1>a, <2>1 DEF Abandoned, Unsettled
<1>7. RecentOK'
  <2>1. Present' = Present
    BY DEF Present
  <2> QED
    BY <1>a, <1>b, <2>1 DEF RecentOK
<1> QED
  BY <1>1, <1>2, <1>3, <1>4, <1>5, <1>6, <1>7 DEF MapsInv

LEMMA MapsInterruptLoad ==
    ASSUME MapsInv, NEW c \in Callers, InterruptLoad(c), FreshInv'
    PROVE  MapsInv'
<1>a. FibersOK /\ Abandoned
  BY DEF MapsInv, FreshInv
<1> DEFINE l == caller[c].load
           s == IF load[l].state = "loading" THEN "failed" ELSE load[l].state
           r == [load[l] EXCEPT !.state = s]
           w == [caller[c] EXCEPT !.at = "leaving"]
<1>b. /\ caller[c].at = "interrupting"
      /\ load' = [load EXCEPT ![l] = r]
      /\ caller' = [caller EXCEPT ![c] = w]
      /\ UNCHANGED <<cache, recent, generations>>
  BY DEF InterruptLoad
<1>c. l \in Loads /\ load[l] \in LoadRecord
  BY <1>a, <1>b DEF Abandoned, FibersOK
<1>d. /\ r \in LoadRecord /\ r.state = s /\ r.key = load[l].key /\ r.gen = load[l].gen
      /\ r.waiters = load[l].waiters /\ (r.inFlight <=> load[l].inFlight)
  BY <1>c DEF LoadRecord
<1>e. w.at = "leaving" /\ w.load = l
  BY <1>a DEF FibersOK, CallerRecord
<1>f. s = load[l].state \/ (load[l].state \in Unsettled /\ s \in Unsettled)
  BY DEF Unsettled
<1> HIDE DEF l, s, r, w
<1>g. load'[l] = r /\ \A m \in Loads : m # l => load'[m] = load[m]
  BY <1>a, <1>b, <1>c, <1>d, LoadUpdate
<1>h. caller'[c] = w /\ \A d \in Callers : d # c => caller'[d] = caller[d]
  BY <1>a, <1>b, CallerUpdate
<1>1. \A m \in Loads : /\ load'[m].key = load[m].key /\ load'[m].gen = load[m].gen
                       /\ load'[m].inFlight <=> load[m].inFlight
                       /\ load'[m].waiters = load[m].waiters
  BY <1>d, <1>g
<1>2. \A m \in Loads : \/ load'[m].state = load[m].state
                       \/ load[m].state \in Unsettled /\ load'[m].state \in Unsettled
  BY <1>d, <1>f, <1>g
<1>3. \A d \in Callers : \/ caller'[d] = caller[d]
                         \/ /\ caller[d].at = "interrupting"
                            /\ caller'[d].at = "leaving"
                            /\ caller'[d].load = caller[d].load
  BY <1>b, <1>e, <1>h DEF l
<1> QED
  BY <1>b, <1>1, <1>2, <1>3, MapsStay

LEMMA MapsLeft ==
    ASSUME MapsInv, NEW c \in Callers, Left(c), FreshInv'
    PROVE  MapsInv'
<1>a. FibersOK
  BY DEF MapsInv, FreshInv
<1> DEFINE w == Idle(None, 0)
<1>b. /\ caller[c].at = "leaving" /\ w.at = "idle"
      /\ caller' = [caller EXCEPT ![c] = w]
      /\ UNCHANGED <<cache, recent, generations, load>>
  BY DEF Left, Idle
<1> HIDE DEF w
<1>1. \A d \in Callers : \/ caller'[d] = caller[d]
                         \/ caller[d].at # "waiting" /\ caller'[d].at = "idle"
  BY <1>a, <1>b, CallerUpdate
<1> QED
  BY <1>b, <1>1, MapsStay

LEMMA MapsLoadEnds ==
    ASSUME MapsInv, NEW l \in Loads, LoadEnds(l), FreshInv'
    PROVE  MapsInv'
<1>a. FibersOK /\ load[l] \in LoadRecord
  BY DEF MapsInv, FreshInv, FibersOK
<1>b. load[l].state \in Unsettled /\ UNCHANGED <<cache, recent, generations, caller>>
  BY DEF LoadEnds, Unsettled
<1>c. /\ \A m \in Loads : m # l => load'[m] = load[m]
      /\ load'[l].key = load[l].key /\ load'[l].gen = load[l].gen
      /\ load'[l].inFlight <=> load[l].inFlight
      /\ load'[l].waiters = load[l].waiters
      /\ load'[l].state \in Unsettled
  <2>1. CASE load' = [load EXCEPT ![l].state = "loaded", ![l].value = source[load[l].key]]
    BY <1>a, <2>1 DEF FibersOK, LoadRecord, Unsettled
  <2>2. CASE load' = [load EXCEPT ![l].state = "failed"]
    BY <1>a, <2>2 DEF FibersOK, LoadRecord, Unsettled
  <2> QED
    BY <2>1, <2>2 DEF LoadEnds
<1>1. \A m \in Loads : /\ load'[m].key = load[m].key /\ load'[m].gen = load[m].gen
                       /\ load'[m].inFlight <=> load[m].inFlight
                       /\ load'[m].waiters = load[m].waiters
  BY <1>c
<1>2. \A m \in Loads : \/ load'[m].state = load[m].state
                       \/ load[m].state \in Unsettled /\ load'[m].state \in Unsettled
  BY <1>b, <1>c
<1> QED
  BY <1>b, <1>1, <1>2, MapsStay

LEMMA MapsExpire ==
    ASSUME MapsInv, NEW k \in Keys, Expire(k), FreshInv'
    PROVE  MapsInv'
<1>a. MapsOK
  BY DEF MapsInv, FreshInv
<1>b. UNCHANGED <<recent, generations, load, caller>> /\ cache[k] # None
  BY DEF Expire
<1>1. \A q \in Keys : /\ cache'[q] = None <=> cache[q] = None
                      /\ cache[q] # None => cache'[q].gen = cache[q].gen
  <2>1. /\ \A q \in Keys : q # k => cache'[q] = cache[q]
        /\ cache'[k] = [cache[k] EXCEPT !.fresh = FALSE]
    BY <1>a DEF Expire, MapsOK
  <2>2. cache'[k] \in CachedValue /\ cache'[k].gen = cache[k].gen
    <3>1. cache[k] \in CachedValue
      BY <1>a, <1>b DEF MapsOK
    <3>2. /\ [cache[k] EXCEPT !.fresh = FALSE] \in CachedValue
          /\ [cache[k] EXCEPT !.fresh = FALSE].gen = cache[k].gen
      BY <3>1 DEF CachedValue
    <3> QED
      BY <2>1, <3>2
  <2>3. cache'[k] # None
    BY <2>2
  <2>4. ASSUME NEW q \in Keys
        PROVE  /\ cache'[q] = None <=> cache[q] = None
               /\ cache[q] # None => cache'[q].gen = cache[q].gen
    <3>1. CASE q = k
      BY <1>b, <2>2, <2>3, <3>1
    <3>2. CASE q # k
      BY <2>1, <3>2
    <3> QED
      BY <3>1, <3>2
  <2> QED
    BY <2>4
<1> QED
  BY <1>b, <1>1, MapsStay

\* A waiter ends while the load is done or others wait: nothing else changes.
LEMMA MapsWaiterLeaves ==
    ASSUME MapsInv, FreshInv', NEW c \in Callers, NEW l \in Loads,
           caller[c].at = "waiting", caller[c].load = l,
           load[l].state = "settled" \/ load[l].waiters # 1,
           caller'[c].at = "idle",
           \A d \in Callers : d # c => caller'[d] = caller[d],
           load'[l].key = load[l].key, load'[l].gen = load[l].gen,
           load'[l].state = load[l].state, load'[l].inFlight <=> load[l].inFlight,
           load'[l].waiters = load[l].waiters - 1,
           \A m \in Loads : m # l => load'[m] = load[m],
           UNCHANGED <<cache, recent, generations>>
    PROVE  MapsInv'
<1>a. /\ MapsOK /\ FibersOK /\ LoadsOK /\ WaitersFresh
      /\ SingleFlight /\ MapsPaired /\ LoadsHeld
      /\ WaitersCounted /\ WaitersHeld /\ Abandoned /\ RecentOK
  BY DEF MapsInv, FreshInv
<1>b. UNCHANGED <<cache, recent, generations>>
  OBVIOUS
<1>c. load[l].waiters \in Nat /\ load[l].waiters # 0
  <2>1. IsFiniteSet(Waiters(l)) /\ c \in Waiters(l) /\ load[l].waiters = Cardinality(Waiters(l))
    BY <1>a DEF WaitersCounted, Waiters, WaitsFor
  <2> QED
    BY <2>1, FS_CardinalityType, FS_EmptySet
<1>d. \A m \in Loads : /\ load'[m].key = load[m].key /\ load'[m].gen = load[m].gen
                       /\ load'[m].state = load[m].state
                       /\ load'[m].inFlight <=> load[m].inFlight
  OBVIOUS
<1>1. SingleFlight'
  BY <1>a, <1>d DEF SingleFlight
<1>2. MapsPaired'
  BY <1>a, <1>b, <1>d DEF MapsPaired
<1>3. LoadsHeld'
  BY <1>a, <1>b, <1>d DEF LoadsHeld
<1>4. WaitersCounted'
  BY <1>a, CountedLeaves
<1>5. WaitersHeld'
  <2>1. \A m \in Loads : load'[m].inFlight => load'[m].waiters # 0
    <3>1. load[l].inFlight => load[l].waiters # 1
      BY <1>a DEF LoadsHeld, Unsettled
    <3> QED
      BY <1>a, <1>c, <3>1 DEF WaitersHeld
  <2>2. ASSUME NEW d \in Callers, caller'[d].at = "waiting"
        PROVE  /\ caller'[d].key = load'[caller'[d].load].key
               /\ load'[caller'[d].load].state # "settled" => load'[caller'[d].load].inFlight
    <3>1. caller'[d] = caller[d] /\ caller[d].load \in Loads
      BY <1>a, <2>2 DEF WaitersFresh
    <3> QED
      BY <1>a, <1>d, <2>2, <3>1 DEF WaitersHeld
  <2> QED
    BY <2>1, <2>2 DEF WaitersHeld
<1>6. Abandoned'
  <2> SUFFICES ASSUME NEW d \in Callers, caller'[d].at \in {"interrupting", "leaving"}
               PROVE  LET m == caller'[d].load IN
                      /\ m \in Loads /\ load'[m].state # "unused"
                      /\ ~load'[m].inFlight /\ load'[m].waiters = 0
    BY DEF Abandoned
  <2>1. caller'[d] = caller[d]
    OBVIOUS
  <2>2. caller[d].load # l
    BY <1>a, <1>c, <2>1 DEF Abandoned
  <2> QED
    BY <1>a, <2>1, <2>2 DEF Abandoned
<1>7. RecentOK'
  <2>1. Present' = Present
    BY <1>b DEF Present
  <2> QED
    BY <1>a, <1>b, <2>1 DEF RecentOK
<1> QED
  BY <1>1, <1>2, <1>3, <1>4, <1>5, <1>6, <1>7 DEF MapsInv

LEMMA MapsReceive ==
    ASSUME MapsInv, NEW c \in Callers, Receive(c), FreshInv'
    PROVE  MapsInv'
<1>a. FibersOK /\ WaitersFresh
  BY DEF MapsInv, FreshInv
<1> DEFINE l == caller[c].load
           n == load[l].waiters - 1
           r == [load[l] EXCEPT !.waiters = n]
           w == Idle(load[l].value, caller[c].need)
<1>b. /\ caller[c].at = "waiting" /\ load[l].state = "settled" /\ w.at = "idle"
      /\ load' = [load EXCEPT ![l] = r]
      /\ caller' = [caller EXCEPT ![c] = w]
      /\ UNCHANGED <<cache, recent, generations>>
  BY DEF Receive, Idle
<1>c. l \in Loads /\ load[l] \in LoadRecord
  BY <1>a, <1>b DEF WaitersFresh, FibersOK
<1>d. n \in Int
  BY <1>c DEF LoadRecord
<1>e. /\ r \in LoadRecord /\ r.waiters = n /\ r.key = load[l].key /\ r.gen = load[l].gen
      /\ r.state = load[l].state /\ (r.inFlight <=> load[l].inFlight)
  <2> HIDE DEF n
  <2> QED
    BY <1>c, <1>d, CountChanges
<1> HIDE DEF r, w
<1>f. load'[l] = r /\ \A m \in Loads : m # l => load'[m] = load[m]
  BY <1>a, <1>b, <1>c, <1>e, LoadUpdate
<1>g. caller'[c] = w /\ \A d \in Callers : d # c => caller'[d] = caller[d]
  BY <1>a, <1>b, CallerUpdate
<1> QED
  BY <1>b, <1>c, <1>e, <1>f, <1>g, MapsWaiterLeaves

\* A load goes off the maps, and the generation it kept with it.
LEMMA LoadGoes ==
    ASSUME MapsInv, NEW l \in Loads, load[l].state \in Unsettled,
           ~load'[l].inFlight, load'[l].key = load[l].key, load'[l].gen = load[l].gen,
           \A m \in Loads : m # l => load'[m] = load[m],
           \A q \in Keys : generations'[q] =
                IF q = load[l].key /\ generations[q] = load[l].gen THEN 0 ELSE generations[q],
           cache' = cache
    PROVE  SingleFlight' /\ MapsPaired' /\ LoadsHeld'
<1>a. /\ MapsOK /\ LoadsOK /\ SingleFlight /\ MapsPaired /\ LoadsHeld
  BY DEF MapsInv, FreshInv
<1>b. load[l].key \in Keys /\ load[l].gen # 0
  BY <1>a DEF LoadsOK, Unsettled
<1>1. SingleFlight'
  BY <1>a DEF SingleFlight
<1>2. MapsPaired'
  <2>1. ASSUME NEW q \in Keys, cache'[q] # None
        PROVE  cache'[q].gen = generations'[q]
    BY <1>a, <2>1 DEF MapsPaired, LoadsHeld
  <2>2. ASSUME NEW q \in Keys, generations'[q] # 0, cache'[q] = None
        PROVE  \E m \in Loads : /\ load'[m].inFlight /\ load'[m].key = q
                               /\ load'[m].gen = generations'[q]
    <3>1. generations'[q] = generations[q] /\ ~(q = load[l].key /\ generations[q] = load[l].gen)
      BY <2>2
    <3>2. PICK m \in Loads : load[m].inFlight /\ load[m].key = q /\ load[m].gen = generations[q]
      BY <1>a, <2>2, <3>1 DEF MapsPaired
    <3>3. m # l
      BY <3>1, <3>2
    <3> QED
      BY <3>1, <3>2, <3>3
  <2> QED
    BY <2>1, <2>2 DEF MapsPaired
<1>3. LoadsHeld'
  <2>1. \A m \in Loads : load[m].state \in Unsettled => load[m].key \in Keys /\ load[m].gen # 0
    BY <1>a DEF LoadsOK, Unsettled
  <2> SUFFICES ASSUME NEW m \in Loads
               PROVE  /\ load'[m].inFlight => load'[m].state \in Unsettled
                      /\ /\ load'[m].state \in Unsettled
                         /\ load'[m].gen = generations'[load'[m].key]
                         => load'[m].inFlight /\ cache'[load'[m].key] = None
    BY DEF LoadsHeld
  <2>2. CASE m = l
    BY <1>b, <2>2
  <2>3. CASE m # l
    BY <1>a, <2>1, <2>3 DEF LoadsHeld
  <2> QED
    BY <2>2, <2>3
<1> QED
  BY <1>1, <1>2, <1>3

LEMMA MapsLeave ==
    ASSUME MapsInv, NEW c \in Callers, Leave(c), FreshInv'
    PROVE  MapsInv'
<1>a. /\ MapsOK /\ FibersOK /\ LoadsOK /\ WaitersFresh
      /\ SingleFlight /\ MapsPaired /\ LoadsHeld
      /\ WaitersCounted /\ WaitersHeld /\ Abandoned /\ RecentOK
  BY DEF MapsInv, FreshInv
<1> DEFINE l == caller[c].load
           k == caller[c].key
           last == load[l].waiters = 1 /\ load[l].state # "settled"
           n == load[l].waiters - 1
           r == [load[l] EXCEPT !.waiters = n, !.inFlight = @ /\ ~last]
           w == IF last THEN [caller[c] EXCEPT !.at = "interrupting"] ELSE Idle(None, 0)
<1>b. /\ caller[c].at = "waiting"
      /\ load' = [load EXCEPT ![l] = r]
      /\ caller' = [caller EXCEPT ![c] = w]
      /\ generations' = IF last /\ generations[k] = load[l].gen
                        THEN [generations EXCEPT ![k] = 0] ELSE generations
      /\ UNCHANGED <<cache, recent>>
  BY DEF Leave
<1>c. /\ l \in Loads /\ load[l] \in LoadRecord /\ load[l].state # "unused"
      /\ k = load[l].key /\ k \in Keys
      /\ load[l].state # "settled" => load[l].inFlight
  BY <1>a, <1>b DEF WaitersFresh, FibersOK, WaitersHeld, LoadsOK
<1>d. n \in Int
  BY <1>c DEF LoadRecord
<1>e. /\ r \in LoadRecord /\ r.waiters = n /\ r.key = load[l].key /\ r.gen = load[l].gen
      /\ r.state = load[l].state /\ (r.inFlight <=> load[l].inFlight /\ ~last)
  <2> HIDE DEF n, last
  <2> QED
    BY <1>c, <1>d DEF LoadRecord
<1>f. /\ last => w.at = "interrupting" /\ w.load = l
      /\ ~last => w.at = "idle"
  <2>1. [caller[c] EXCEPT !.at = "interrupting"].at = "interrupting"
        /\ [caller[c] EXCEPT !.at = "interrupting"].load = l
    BY <1>a DEF FibersOK, CallerRecord
  <2>2. Idle(None, 0).at = "idle"
    BY DEF Idle
  <2> HIDE DEF last, l
  <2> QED
    BY <2>1, <2>2
<1> HIDE DEF r, w
<1>g. load'[l] = r /\ \A m \in Loads : m # l => load'[m] = load[m]
  BY <1>a, <1>b, <1>c, <1>e, LoadUpdate
<1>h. caller'[c] = w /\ \A d \in Callers : d # c => caller'[d] = caller[d]
  BY <1>a, <1>b, CallerUpdate
<1>1. CASE ~last
  <2>1. generations' = generations /\ (r.inFlight <=> load[l].inFlight)
    BY <1>1, <1>b, <1>e
  <2>2. /\ caller[c].at = "waiting" /\ caller[c].load = l
        /\ load[l].state = "settled" \/ load[l].waiters # 1
        /\ caller'[c].at = "idle"
    BY <1>1, <1>b, <1>f, <1>h
  <2>3. \A d \in Callers : d # c => caller'[d] = caller[d]
    BY <1>h
  <2>4. /\ load'[l].key = load[l].key /\ load'[l].gen = load[l].gen
        /\ load'[l].state = load[l].state /\ (load'[l].inFlight <=> load[l].inFlight)
        /\ load'[l].waiters = load[l].waiters - 1
    BY <1>e, <1>g, <2>1, Zenon
  <2>5. l \in Loads /\ \A m \in Loads : m # l => load'[m] = load[m]
    BY <1>c, <1>g, Zenon
  <2>6. UNCHANGED <<cache, recent, generations>>
    BY <1>b, <2>1
  <2> HIDE DEF l, last, n
  <2> QED
    BY <2>2, <2>3, <2>4, <2>5, <2>6, MapsWaiterLeaves
<1>2. CASE last
  <2>1. /\ load[l].waiters = 1 /\ load[l].state \in Unsettled /\ ~r.inFlight /\ n = 0
        /\ w.at = "interrupting" /\ w.load = l
    BY <1>2, <1>c, <1>e, <1>f DEF LoadRecord, Unsettled
  <2>2. SingleFlight' /\ MapsPaired' /\ LoadsHeld'
    <3>1. \A q \in Keys : generations'[q] =
              IF q = load[l].key /\ generations[q] = load[l].gen THEN 0 ELSE generations[q]
      BY <1>2, <1>a, <1>b, <1>c DEF MapsOK
    <3> QED
      BY <1>b, <1>c, <1>e, <1>g, <2>1, <3>1, LoadGoes, SMTT(30), ZenonT(60)
  <2>3. WaitersCounted'
    BY <1>a, <1>b, <1>c, <1>e, <1>g, <1>h, <2>1, CountedLeaves
  <2>4. \A d \in Callers : caller[d].at = "waiting" /\ caller[d].load = l => d = c
    <3>1. c \in Waiters(l) /\ IsFiniteSet(Waiters(l)) /\ Cardinality(Waiters(l)) = 1
      BY <1>a, <1>b, <1>c, <2>1 DEF WaitersCounted, Waiters, WaitsFor
    <3>2. Waiters(l) = {c}
      BY <3>1, OnlyWaiter
    <3> QED
      BY <3>2 DEF Waiters, WaitsFor
  <2>5. WaitersHeld'
    <3>1. \A m \in Loads : load'[m].inFlight => load'[m].waiters # 0
      BY <1>a, <1>g, <2>1 DEF WaitersHeld
    <3>2. ASSUME NEW d \in Callers, caller'[d].at = "waiting"
          PROVE  /\ caller'[d].key = load'[caller'[d].load].key
                 /\ load'[caller'[d].load].state # "settled" => load'[caller'[d].load].inFlight
      <4>1. d # c /\ caller'[d] = caller[d] /\ caller[d].load # l /\ caller[d].load \in Loads
        BY <1>a, <1>h, <2>1, <2>4, <3>2 DEF WaitersFresh
      <4> QED
        BY <1>a, <1>g, <3>2, <4>1 DEF WaitersHeld
    <3> QED
      BY <3>1, <3>2 DEF WaitersHeld
  <2>6. Abandoned'
    <3> SUFFICES ASSUME NEW d \in Callers, caller'[d].at \in {"interrupting", "leaving"}
                 PROVE  LET m == caller'[d].load IN
                        /\ m \in Loads /\ load'[m].state # "unused"
                        /\ ~load'[m].inFlight /\ load'[m].waiters = 0
      BY DEF Abandoned
    <3>1. CASE d = c
      BY <1>c, <1>e, <1>g, <1>h, <2>1, <3>1
    <3>2. CASE d # c
      <4>1. caller'[d] = caller[d] /\ caller[d].load # l
        BY <1>a, <1>h, <2>1, <3>2 DEF Abandoned
      <4> QED
        BY <1>a, <1>g, <4>1 DEF Abandoned
    <3> QED
      BY <3>1, <3>2
  <2>7. RecentOK'
    <3>1. Present' = Present
      BY <1>b DEF Present
    <3> QED
      BY <1>a, <1>b, <3>1 DEF RecentOK
  <2> QED
    BY <2>2, <2>3, <2>5, <2>6, <2>7 DEF MapsInv
<1> QED
  BY <1>1, <1>2

\* A load settles; its waiters stay until they are told.
LEMMA WaitersOfSettled ==
    ASSUME MapsInv, NEW l \in Loads, load[l].state \in Unsettled,
           load'[l].state = "settled", ~load'[l].inFlight, load'[l].key = load[l].key,
           load'[l].waiters = load[l].waiters,
           \A m \in Loads : m # l => load'[m] = load[m],
           caller' = caller
    PROVE  WaitersCounted' /\ WaitersHeld' /\ Abandoned'
<1>a. WaitersFresh /\ WaitersCounted /\ WaitersHeld /\ Abandoned
  BY DEF MapsInv, FreshInv
<1>1. WaitersCounted'
  <2>1. \A d \in Callers : caller'[d] = caller[d] \/
                (caller[d].at # "waiting" /\ caller'[d].at # "waiting")
    OBVIOUS
  <2>2. \A m \in Loads : load'[m].waiters = load[m].waiters
    OBVIOUS
  <2> QED
    BY <1>a, <2>1, <2>2, CountedStays
<1>2. WaitersHeld'
  <2>1. \A m \in Loads : load'[m].inFlight => load'[m].waiters # 0
    BY <1>a DEF WaitersHeld
  <2>2. ASSUME NEW d \in Callers, caller'[d].at = "waiting"
        PROVE  /\ caller'[d].key = load'[caller'[d].load].key
               /\ load'[caller'[d].load].state # "settled" => load'[caller'[d].load].inFlight
    <3>1. caller'[d] = caller[d] /\ caller[d].load \in Loads
      BY <1>a, <2>2 DEF WaitersFresh
    <3> QED
      BY <1>a, <2>2, <3>1 DEF WaitersHeld
  <2> QED
    BY <2>1, <2>2 DEF WaitersHeld
<1>3. Abandoned'
  BY <1>a DEF Abandoned
<1> QED
  BY <1>1, <1>2, <1>3

\* A load that settles, unpublished or not.
LEMMA Settles ==
    ASSUME FibersOK, NEW l \in Loads,
           load' = [load EXCEPT ![l].state = "settled", ![l].inFlight = FALSE]
    PROVE  /\ load'[l].state = "settled" /\ ~load'[l].inFlight
           /\ load'[l].key = load[l].key /\ load'[l].gen = load[l].gen
           /\ load'[l].waiters = load[l].waiters
           /\ \A m \in Loads : m # l => load'[m] = load[m]
<1>1. load[l] \in LoadRecord
  BY DEF FibersOK
<1> DEFINE r == [load[l] EXCEPT !.state = "settled", !.inFlight = FALSE]
<1>2. /\ r \in LoadRecord /\ r.state = "settled" /\ ~r.inFlight
      /\ r.key = load[l].key /\ r.gen = load[l].gen /\ r.waiters = load[l].waiters
  BY <1>1 DEF LoadRecord
<1>3. load' = [load EXCEPT ![l] = r]
  OBVIOUS
<1> HIDE DEF r
<1> QED
  BY <1>2, <1>3, LoadUpdate

LEMMA MapsFinishUnpublished ==
    ASSUME MapsInv, NEW l \in Loads, FinishUnpublished(l), FreshInv'
    PROVE  MapsInv'
<1>a. /\ MapsOK /\ FibersOK /\ LoadsOK /\ SingleFlight /\ LoadsHeld /\ RecentOK
  BY DEF MapsInv, FreshInv
<1> DEFINE k == load[l].key
           g == load[l].gen
<1>b. /\ load[l].state \in Unsettled /\ k \in Keys /\ UNCHANGED <<cache, recent, caller>>
      /\ generations' =
                IF generations[k] = g /\ (cache[k] = None \/ cache[k].gen # g)
                   /\ InFlight(k, g) \subseteq {l}
                THEN [generations EXCEPT ![k] = 0] ELSE generations
  BY <1>a DEF FinishUnpublished, Unsettled, LoadsOK
<1>c. /\ load'[l].state = "settled" /\ ~load'[l].inFlight
      /\ load'[l].key = load[l].key /\ load'[l].gen = load[l].gen
      /\ load'[l].waiters = load[l].waiters
      /\ \A m \in Loads : m # l => load'[m] = load[m]
  BY <1>a, Settles DEF FinishUnpublished
<1>1. \A q \in Keys : generations'[q] =
          IF q = load[l].key /\ generations[q] = load[l].gen THEN 0 ELSE generations[q]
  <2>1. generations[k] = g => cache[k] = None /\ load[l].inFlight
    BY <1>a, <1>b DEF LoadsHeld
  <2>2. load[l].inFlight => InFlight(k, g) \subseteq {l}
    BY <1>a DEF SingleFlight, InFlight
  <2> QED
    BY <1>a, <1>b, <2>1, <2>2 DEF MapsOK
<1>2. SingleFlight' /\ MapsPaired' /\ LoadsHeld'
  BY <1>b, <1>c, <1>1, LoadGoes
<1>3. WaitersCounted' /\ WaitersHeld' /\ Abandoned'
  BY <1>b, <1>c, WaitersOfSettled
<1>4. RecentOK'
  <2>1. Present' = Present
    BY <1>b DEF Present
  <2> QED
    BY <1>a, <1>b, <2>1 DEF RecentOK
<1> QED
  BY <1>2, <1>3, <1>4 DEF MapsInv

\* pruneForInsert drops entries the map has, and makes room for one.
LEMMA Pruning ==
    ASSUME RecentOK
    PROVE  /\ Pruned \in SUBSET Present
           /\ Len(Without(recent, Pruned)) + 1 <= MaxEntries
<1> DEFINE expired == {k \in Keys : Expired(k)}
           left    == Without(recent, expired)
           surplus == Len(left) + 1 - MaxEntries
           oldest  == {left[i] : i \in {j \in DOMAIN left : j <= surplus}}
           kept    == Without(recent, Pruned)
<1>1. Pruned = expired \cup oldest
  BY DEF Pruned
<1>2. expired \in SUBSET Present
  BY DEF Expired, Present
<1>3. /\ left \in Seq(Keys) /\ Distinct(left) /\ Range(left) = Present \ expired
      /\ Len(left) <= Len(recent) /\ Len(recent) <= MaxEntries
  BY WithoutFacts DEF RecentOK
<1> HIDE DEF expired, left
<1>4. Len(left) \in Nat /\ Len(recent) \in Nat /\ DOMAIN left = 1..Len(left)
  BY <1>3, LenProperties DEF RecentOK
<1>5. Len(left) <= MaxEntries
  BY <1>3, <1>4
<1>6. kept \in Seq(Keys) /\ Distinct(kept) /\ Range(kept) = Present \ Pruned
  BY WithoutFacts
<1>7. Len(kept) = Cardinality(Present \ Pruned)
  BY <1>6, DistinctLength
<1>8. IsFiniteSet(Present \ expired) /\ Cardinality(Present \ expired) = Len(left)
  BY <1>3, DistinctLength
<1> HIDE DEF kept
<1>9. ASSUME Len(left) < MaxEntries
      PROVE  oldest = {} /\ Cardinality(Present \ Pruned) < MaxEntries
  <2>1. oldest = {}
    BY <1>4, <1>9
  <2>2. Present \ Pruned = Present \ expired
    BY <1>1, <2>1
  <2> QED
    BY <1>8, <1>9, <2>1, <2>2
<1>10. ASSUME Len(left) = MaxEntries
       PROVE  oldest \in SUBSET Present /\ Cardinality(Present \ Pruned) < MaxEntries
  <2>1. surplus = 1 /\ 1 \in DOMAIN left
    BY <1>4, <1>10
  <2>2. oldest = {left[1]}
    <3>1. {j \in DOMAIN left : j <= surplus} = {1}
      BY <1>4, <2>1
    <3> QED
      BY <3>1
  <2>3. left[1] \in Present \ expired
    BY <1>3, <2>1 DEF Range
  <2> HIDE DEF oldest
  <2>4. Present \ Pruned = (Present \ expired) \ {left[1]}
    BY <1>1, <2>2
  <2>5. Cardinality(Present \ Pruned) = Len(left) - 1
    <3> DEFINE P == Present \ expired
    <3>1. IsFiniteSet(P) /\ Cardinality(P) = Len(left) /\ left[1] \in P
      BY <1>8, <2>3
    <3> HIDE DEF P
    <3>2. Cardinality(P \ {left[1]}) = Cardinality(P) - 1
      BY <3>1, FS_RemoveElement
    <3> QED
      BY <2>4, <3>1, <3>2 DEF P
  <2>6. Cardinality(Present \ Pruned) < MaxEntries
    BY <1>4, <1>10, <2>5
  <2> QED
    BY <2>2, <2>3, <2>6
<1> HIDE DEF oldest
<1>11. Len(left) < MaxEntries \/ Len(left) = MaxEntries
  <2>1. Len(left) \in Nat
    BY <1>4
  <2> QED
    BY <1>5, <2>1
<1>12. oldest \in SUBSET Present /\ Cardinality(Present \ Pruned) < MaxEntries
  BY <1>9, <1>10, <1>11
<1>13. Pruned \in SUBSET Present
  BY <1>1, <1>2, <1>12
<1>14. Len(kept) \in Nat
  BY <1>6, LenProperties
<1>15. Len(kept) + 1 <= MaxEntries
  BY <1>7, <1>12, <1>14
<1> QED
  BY <1>13, <1>15 DEF kept

LEMMA MapsFinishPublished ==
    ASSUME MapsInv, NEW l \in Loads, FinishPublished(l), FreshInv'
    PROVE  MapsInv'
<1>a. /\ MapsOK /\ FibersOK /\ LoadsOK /\ SingleFlight /\ MapsPaired /\ LoadsHeld /\ RecentOK
  BY DEF MapsInv, FreshInv
<1> DEFINE k == load[l].key
           g == load[l].gen
<1>b. /\ load[l].state \in Unsettled /\ load[l].state # "unused" /\ generations[k] = g
      /\ recent' = Append(Without(recent, Pruned), k)
      /\ generations' = Released(Pruned)
      /\ caller' = caller
  BY DEF FinishPublished, Unsettled
<1>c. /\ load'[l].state = "settled" /\ ~load'[l].inFlight
      /\ load'[l].key = load[l].key /\ load'[l].gen = load[l].gen
      /\ load'[l].waiters = load[l].waiters
      /\ \A m \in Loads : m # l => load'[m] = load[m]
  BY <1>a, Settles DEF FinishPublished
<1>d. /\ k \in Keys /\ g \in Nat \ {0} /\ load[l].inFlight /\ cache[k] = None
      /\ load[l].value \in Nat
  <2>1. k \in Keys /\ g # 0 /\ load[l].value # None
    BY <1>a, <1>b DEF LoadsOK, FinishPublished
  <2>2. load[l].inFlight /\ cache[k] = None
    BY <1>a, <1>b DEF LoadsHeld
  <2>3. load[l] \in LoadRecord
    BY <1>a DEF FibersOK
  <2> QED
    BY <2>1, <2>2, <2>3 DEF LoadRecord
<1>e. Pruned \in SUBSET Present /\ k \notin Pruned
  BY <1>a, <1>d, Pruning DEF Present
<1>f. /\ \A q \in Keys : WithoutCached(Pruned)[q] = IF q \in Pruned THEN None ELSE cache[q]
      /\ \A q \in Keys : Released(Pruned)[q] =
            IF q \in Pruned /\ InFlight(q, generations[q]) = {} THEN 0 ELSE generations[q]
      /\ WithoutCached(Pruned) \in [Keys -> CachedValue \cup {None}]
  BY <1>a, <1>e, DropFacts, Dropping
<1>g. /\ cache'[k] # None /\ cache'[k].gen = g
      /\ \A q \in Keys : q # k => cache'[q] = IF q \in Pruned THEN None ELSE cache[q]
  <2>1. PICK fresh \in BOOLEAN :
            cache' = [WithoutCached(Pruned) EXCEPT ![k] =
                          [value |-> load[l].value, gen |-> g, fresh |-> fresh]]
    BY DEF FinishPublished
  <2> DEFINE v == [value |-> load[l].value, gen |-> g, fresh |-> fresh]
  <2>2. v \in CachedValue /\ v.gen = g
    BY <1>d DEF CachedValue
  <2>3. v # None
    BY <2>2
  <2>4. cache' = [WithoutCached(Pruned) EXCEPT ![k] = v]
    BY <2>1
  <2> HIDE DEF v
  <2>5. cache'[k] = v /\ \A q \in Keys : q # k => cache'[q] = WithoutCached(Pruned)[q]
    BY <1>d, <1>f, <2>4
  <2> QED
    BY <1>f, <2>2, <2>3, <2>5
<1>h. /\ generations'[k] = g
      /\ \A q \in Keys : generations'[q] = 0 \/ generations'[q] = generations[q]
      /\ \A q \in Keys : q \notin Pruned => generations'[q] = generations[q]
      /\ \A q \in Keys : q \in Pruned /\ generations'[q] # 0
                            => InFlight(q, generations[q]) # {}
  BY <1>b, <1>d, <1>e, <1>f
<1>1. SingleFlight'
  BY <1>a, <1>c DEF SingleFlight
<1>2. MapsPaired'
  <2>1. ASSUME NEW q \in Keys, cache'[q] # None
        PROVE  cache'[q].gen = generations'[q]
    <3>1. CASE q = k
      BY <1>g, <1>h, <3>1
    <3>2. CASE q # k
      BY <1>a, <1>g, <1>h, <2>1, <3>2 DEF MapsPaired
    <3> QED
      BY <3>1, <3>2
  <2>2. ASSUME NEW q \in Keys, generations'[q] # 0, cache'[q] = None
        PROVE  \E m \in Loads : /\ load'[m].inFlight /\ load'[m].key = q
                               /\ load'[m].gen = generations'[q]
    <3>1. q # k /\ generations'[q] = generations[q]
      BY <1>g, <1>h, <2>2
    <3>2. PICK m \in Loads : load[m].inFlight /\ load[m].key = q /\ load[m].gen = generations[q]
      <4>1. CASE q \in Pruned
        BY <1>h, <2>2, <4>1 DEF InFlight
      <4>2. CASE q \notin Pruned
        BY <1>a, <1>g, <2>2, <3>1, <4>2 DEF MapsPaired
      <4> QED
        BY <4>1, <4>2
    <3>3. m # l
      BY <3>1, <3>2
    <3> QED
      BY <1>c, <3>1, <3>2, <3>3
  <2> QED
    BY <2>1, <2>2 DEF MapsPaired
<1>3. LoadsHeld'
  <2> SUFFICES ASSUME NEW m \in Loads
               PROVE  /\ load'[m].inFlight => load'[m].state \in Unsettled
                      /\ /\ load'[m].state \in Unsettled
                         /\ load'[m].gen = generations'[load'[m].key]
                         => load'[m].inFlight /\ cache'[load'[m].key] = None
    BY DEF LoadsHeld
  <2>1. CASE m = l
    BY <1>c, <2>1 DEF Unsettled
  <2>2. CASE m # l
    <3>1. load'[m] = load[m] /\ (load[m].inFlight => load[m].state \in Unsettled)
      BY <1>a, <1>c, <2>2 DEF LoadsHeld
    <3>2. ASSUME load[m].state \in Unsettled, load[m].gen = generations'[load[m].key]
          PROVE  load[m].inFlight /\ cache'[load[m].key] = None
      <4>1. load[m].key \in Keys /\ load[m].gen # 0
        BY <1>a, <3>2 DEF LoadsOK, Unsettled
      <4>2. load[m].gen = generations[load[m].key]
        BY <1>h, <3>2, <4>1
      <4>3. load[m].inFlight /\ cache[load[m].key] = None
        BY <1>a, <3>2, <4>2 DEF LoadsHeld
      <4>4. load[m].key # k
        BY <1>a, <1>b, <1>d, <2>2, <4>2, <4>3 DEF SingleFlight
      <4> QED
        BY <1>g, <4>1, <4>3, <4>4
    <3> QED
      BY <3>1, <3>2
  <2> QED
    BY <2>1, <2>2
<1>4. WaitersCounted' /\ WaitersHeld' /\ Abandoned'
  BY <1>b, <1>c, WaitersOfSettled
<1>5. RecentOK'
  <2> DEFINE left == Without(recent, Pruned)
  <2>1. left \in Seq(Keys) /\ Distinct(left) /\ Range(left) = Present \ Pruned
    BY <1>a, WithoutFacts
  <2>2. Len(left) + 1 <= MaxEntries
    BY <1>a, Pruning
  <2>3. recent' = Append(left, k)
    BY <1>b
  <2> HIDE DEF left
  <2>4. k \notin Range(left)
    BY <1>d, <2>1 DEF Present
  <2>5. /\ Append(left, k) \in Seq(Keys) /\ Distinct(Append(left, k))
        /\ Range(Append(left, k)) = Range(left) \cup {k}
        /\ Len(Append(left, k)) = Len(left) + 1
    BY <1>d, <2>1, <2>4, AppendRange, AppendDistinct
  <2>6. Present' = (Present \ Pruned) \cup {k}
    BY <1>d, <1>e, <1>g DEF Present
  <2> QED
    BY <2>1, <2>2, <2>3, <2>5, <2>6 DEF RecentOK
<1> QED
  BY <1>1, <1>2, <1>3, <1>4, <1>5 DEF MapsInv

LEMMA MapsInvalidate ==
    ASSUME MapsInv, NEW some \in SUBSET Keys, Invalidate(some), FreshInv'
    PROVE  MapsInv'
<1>a. /\ MapsOK /\ FibersOK /\ LoadsOK /\ SingleFlight /\ MapsPaired /\ LoadsHeld
      /\ WaitersCounted /\ WaitersHeld /\ Abandoned /\ RecentOK
  BY DEF MapsInv, FreshInv
<1>b. /\ recent' = Without(recent, some) /\ load' = load /\ caller' = caller
      /\ \A q \in Keys : cache'[q] = IF q \in some THEN None ELSE cache[q]
      /\ \A q \in Keys : generations'[q] = IF q \in some THEN 0 ELSE generations[q]
  BY DEF Invalidate, WithoutCached
<1>1. SingleFlight' /\ WaitersCounted' /\ WaitersHeld' /\ Abandoned'
  BY <1>a, <1>b DEF SingleFlight, WaitersCounted, WaitersHeld, Abandoned, Waiters, WaitsFor
<1>2. MapsPaired'
  BY <1>a, <1>b DEF MapsPaired
<1>3. LoadsHeld'
  <2>1. \A m \in Loads : load[m].state \in Unsettled => load[m].key \in Keys /\ load[m].gen # 0
    BY <1>a DEF LoadsOK, Unsettled
  <2> QED
    BY <1>a, <1>b, <2>1 DEF LoadsHeld
<1>4. RecentOK'
  <2>1. Present' = Present \ some
    BY <1>b DEF Present
  <2>2. Len(recent) \in Nat /\ Len(recent') \in Nat
    BY <1>a, <1>b, WithoutFacts, LenProperties DEF RecentOK
  <2> QED
    BY <1>a, <1>b, <2>1, <2>2, WithoutFacts DEF RecentOK
<1> QED
  BY <1>1, <1>2, <1>3, <1>4 DEF MapsInv

LEMMA MapsUnchanged ==
    ASSUME MapsInv, FreshInv', UNCHANGED <<cache, recent, generations, load, caller>>
    PROVE  MapsInv'
<1>1. \A m \in Loads : load'[m].state = load[m].state
  OBVIOUS
<1> QED
  BY <1>1, MapsStay

\* One step per action.
LEMMA MapsNext == MapsInv /\ [Next]_vars => MapsInv'
<1> SUFFICES ASSUME MapsInv, [Next]_vars PROVE MapsInv'
  OBVIOUS
<1>f. FreshInv'
  BY FreshNext DEF MapsInv
<1>1. ASSUME NEW c \in Callers, Get(c) \/ Receive(c) \/ Leave(c) \/ InterruptLoad(c) \/ Left(c)
      PROVE  MapsInv'
  <2>1. CASE Get(c)
    BY <1>f, <2>1, MapsGetCached, MapsJoin, MapsStartLoad DEF Get
  <2> QED
    BY <1>1, <1>f, <2>1, MapsReceive, MapsLeave, MapsInterruptLoad, MapsLeft
<1>2. ASSUME NEW l \in Loads, LoadEnds(l) \/ Finish(l)
      PROVE  MapsInv'
  BY <1>2, <1>f, MapsLoadEnds, MapsFinishUnpublished, MapsFinishPublished DEF Finish
<1>3. ASSUME NEW some \in SUBSET Keys, Invalidate(some)
      PROVE  MapsInv'
  BY <1>3, <1>f, MapsInvalidate
<1>4. ASSUME NEW k \in Keys, Expire(k) \/ Change(k)
      PROVE  MapsInv'
  <2>1. CASE Change(k)
    BY <1>f, <2>1, MapsUnchanged DEF Change
  <2> QED
    BY <1>4, <1>f, <2>1, MapsExpire
<1>5. CASE UNCHANGED vars
  BY <1>5, <1>f, MapsUnchanged DEF vars
<1> QED
  BY <1>1, <1>2, <1>3, <1>4, <1>5 DEF Next

LEMMA MapsAlways == Spec => []MapsInv
BY MapsInit, MapsNext, PTL DEF Spec

\* The maps hold what they are declared to hold, and no count of waiters is negative.
THEOREM CacheTypeCorrect == Spec => []TypeOK
<1>1. MapsInv => TypeOK
  <2> SUFFICES ASSUME MapsInv PROVE TypeOK
    OBVIOUS
  <2>1. MapsOK /\ FibersOK /\ SourceOK /\ WaitersCounted /\ RecentOK
    BY DEF MapsInv, FreshInv
  <2>2. \A l \in Loads : load[l] \in LoadRecord /\ load[l].waiters \in Nat
    BY <2>1, FS_CardinalityType DEF WaitersCounted, FibersOK
  <2>3. \A l \in Loads : load[l] \in InFlightRecord
    BY <2>2 DEF LoadRecord, InFlightRecord
  <2>4. load \in [Loads -> InFlightRecord]
    BY <2>1, <2>3 DEF FibersOK
  <2> QED
    BY <2>1, <2>4 DEF TypeOK, MapsOK, FibersOK, SourceOK, RecentOK
<1> QED
  BY <1>1, MapsAlways, PTL

\* No two loads of a key are in flight for one generation, whichever loads were
\* abandoned, invalidated or replaced.
THEOREM NoDuplicateLoads == Spec => []SingleFlight
<1>1. MapsInv => SingleFlight
  BY DEF MapsInv
<1> QED
  BY <1>1, MapsAlways, PTL

\* A load is interrupted only when nobody waits for it, and nobody joins it after.
THEOREM OnlyLastWaiterCancels == Spec => []CancelledByLastWaiter
<1>1. MapsInv => CancelledByLastWaiter
  <2> SUFFICES ASSUME MapsInv, NEW c \in Callers, NEW d \in Callers,
                      caller[c].at \in {"interrupting", "leaving"}
               PROVE  ~WaitsFor(d, caller[c].load)
    BY DEF CancelledByLastWaiter
  <2> DEFINE l == caller[c].load
  <2>1. l \in Loads /\ load[l].waiters = 0
    BY DEF MapsInv, Abandoned
  <2>2. IsFiniteSet(Waiters(l)) /\ Cardinality(Waiters(l)) = 0
    BY <2>1 DEF MapsInv, WaitersCounted
  <2>3. Waiters(l) = {}
    BY <2>2, FS_EmptySet
  <2> QED
    BY <2>3 DEF Waiters
<1> QED
  BY <1>1, MapsAlways, PTL

\* A value is of the current generation, a generation has a value or a load, and
\* a load in flight has a waiter: no map outlives what it is for.
THEOREM NothingOutlivesItsUse == Spec => []MapsAgree
<1>1. MapsInv => MapsAgree
  <2> SUFFICES ASSUME MapsInv PROVE MapsAgree
    OBVIOUS
  <2>1. MapsPaired /\ WaitersCounted /\ WaitersHeld
    BY DEF MapsInv
  <2>2. \A l \in Loads : load[l].inFlight => \E c \in Callers : WaitsFor(c, l)
    <3> SUFFICES ASSUME NEW l \in Loads, load[l].inFlight
                 PROVE  \E c \in Callers : WaitsFor(c, l)
      OBVIOUS
    <3>1. IsFiniteSet(Waiters(l)) /\ Cardinality(Waiters(l)) # 0
      BY <2>1 DEF WaitersCounted, WaitersHeld
    <3>2. Waiters(l) # {}
      BY <3>1, FS_EmptySet
    <3> QED
      BY <3>2 DEF Waiters
  <2>3. \A k \in Keys : generations[k] # 0 =>
            cache[k] # None \/ InFlight(k, generations[k]) # {}
    BY <2>1 DEF MapsPaired, InFlight
  <2>4. \A k \in Keys : cache[k] # None => cache[k].gen = generations[k]
    BY <2>1 DEF MapsPaired
  <2> QED
    BY <2>2, <2>3, <2>4 DEF MapsAgree
<1> QED
  BY <1>1, MapsAlways, PTL

\* The cache never holds more than MaxEntries values, and its order lists exactly
\* the keys that have one.
THEOREM CacheBounded == Spec => []Bounded
<1>1. MapsInv => Bounded
  <2> SUFFICES ASSUME MapsInv PROVE Bounded
    OBVIOUS
  <2>1. RecentOK
    BY DEF MapsInv
  <2>2. \A k \in Keys : cache[k] # None <=> k \in Range(recent)
    BY <2>1 DEF RecentOK, Present
  <2>3. \A k \in Keys : k \in Range(recent) <=> \E i \in DOMAIN recent : recent[i] = k
    BY DEF Range
  <2> QED
    BY <2>1, <2>2, <2>3 DEF Bounded, RecentOK
<1> QED
  BY <1>1, MapsAlways, PTL
==============================================================================
