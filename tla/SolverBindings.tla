---------------------------- MODULE SolverBindings ----------------------------
(***************************************************************************)
(* The binding remembered for each network: BindingCache.kt, the manager   *)
(* that the rotation pass calls (SolverCacheManager.kt) and its durable    *)
(* mirror (solver_bindings.rs).  The cache is the LinkedHashMap in access  *)
(* order, least recently used first.  A rotation pass probes its servers   *)
(* on the network of that moment and commits or invalidates later, under   *)
(* the fingerprint of the network it then finds.                           *)
(***************************************************************************)
EXTENDS Integers, Sequences

CONSTANTS Networks, Resolvers,
          capacity, ttl,
          MaxClock                  \* bound on the clock

VARIABLES
    cache,          \* sequence of [fp, binding]
    nand,           \* the rows of the durable record, oldest first
    store,          \* the SolverBindingStore is open
    solver,         \* the preference DNS_ENGINE_SOLVER
    network,        \* the network under the tunnel
    pass,           \* a rotation pass between its probe and its commit
    clock,
    latest,         \* ghost: network -> the last binding observed, or None
    unsaved         \* ghost: a write was refused or made without a store

bindingVars == <<cache, nand, store, solver, network, pass, clock, latest, unsaved>>

None    == [resolver |-> "none", at |-> 0, on |-> "nowhere"]
Binding == [resolver : Resolvers, at : 0..MaxClock, on : Networks]
Row     == [fp : Networks, binding : Binding]
NoPass  == [pc |-> "none", resolver |-> "none", on |-> "nowhere"]

SolverInit ==
    /\ cache = <<>> /\ nand = <<>> /\ store = FALSE /\ solver = TRUE
    /\ network \in Networks /\ pass = NoPass /\ clock = 0
    /\ latest = [n \in Networks |-> None] /\ unsaved = FALSE

------------------------------------------------------------------------------
Holds(rows, n) == \E i \in DOMAIN rows : rows[i].fp = n
Fresh(b)       == clock - b.at < ttl

\* map.remove(key): a network has one entry at most.
Without(rows, n) ==
    IF Holds(rows, n)
    THEN LET i == CHOOSE i \in DOMAIN rows : rows[i].fp = n
         IN  [k \in 1..(Len(rows) - 1) |-> IF k < i THEN rows[k] ELSE rows[k + 1]]
    ELSE rows

\* map[key] = binding: the entry becomes the youngest, and the eldest goes
\* when there are too many.
insert(rows, n, b) ==
    LET put == Append(Without(rows, n), [fp |-> n, binding |-> b])
    IN  IF Len(put) > capacity THEN Tail(put) ELSE put

\* One row of rehydrateFrom.
admit(rows, row) == IF Fresh(row.binding) THEN insert(rows, row.fp, row.binding) ELSE rows

rehydrateFrom(rows) ==
    LET f[i \in 0..Len(nand)] == IF i = 0 THEN rows ELSE admit(f[i - 1], nand[i])
    IN  f[Len(nand)]

\* The engine-start edge.
start ==
    /\ solver
    /\ store' = TRUE /\ cache' = rehydrateFrom(cache)
    /\ UNCHANGED <<nand, solver, network, pass, clock, latest, unsaved>>

\* persistThrough: the whole cache, when there is a store and the write is
\* not refused.
persistThrough(rows, written) ==
    /\ nand' = IF store /\ written THEN rows ELSE nand
    /\ unsaved' = (unsaved \/ ~store \/ ~written)

\* probeReachable: on which network, and what is fastest there.
probe(r, found) ==
    /\ pass = NoPass
    /\ pass' = [pc |-> IF found THEN "applied" ELSE "dead", resolver |-> r, on |-> network]
    /\ UNCHANGED <<cache, nand, store, solver, network, clock, latest, unsaved>>

\* onPoolApplied; with the solver switched off nothing is recorded.
onPoolApplied(written) ==
    /\ pass.pc = "applied" /\ pass' = NoPass
    /\ LET b == [resolver |-> pass.resolver, at |-> clock, on |-> pass.on]
       IN  IF solver
           THEN /\ cache' = insert(cache, network, b)
                /\ latest' = [latest EXCEPT ![network] = b]
                /\ persistThrough(cache', written)
           ELSE UNCHANGED <<cache, nand, latest, unsaved>>
    /\ UNCHANGED <<store, solver, network, clock>>

\* Slip: the removal is not written through.
onPoolUnreachableInRam(written) ==
    /\ pass.pc = "dead" /\ pass' = NoPass
    /\ IF solver /\ Holds(cache, network)
       THEN /\ cache' = Without(cache, network)
            /\ latest' = [latest EXCEPT ![network] = None]
       ELSE UNCHANGED <<cache, latest>>
    /\ UNCHANGED <<nand, unsaved, store, solver, network, clock>>

\* onPoolUnreachable: nothing is written when nothing was cached.
onPoolUnreachable(written) ==
    /\ pass.pc = "dead" /\ pass' = NoPass
    /\ IF solver /\ Holds(cache, network)
       THEN /\ cache' = Without(cache, network)
            /\ latest' = [latest EXCEPT ![network] = None]
            /\ persistThrough(cache', written)
       ELSE UNCHANGED <<cache, nand, latest, unsaved>>
    /\ UNCHANGED <<store, solver, network, clock>>

toggleSolver ==
    /\ solver' = ~solver
    /\ UNCHANGED <<cache, nand, store, network, pass, clock, latest, unsaved>>

roam(n) ==
    /\ n # network /\ network' = n
    /\ UNCHANGED <<cache, nand, store, solver, pass, clock, latest, unsaved>>

clockTicks ==
    /\ clock < MaxClock /\ clock' = clock + 1
    /\ UNCHANGED <<cache, nand, store, solver, network, pass, latest, unsaved>>

processDies ==
    /\ cache' = <<>> /\ store' = FALSE /\ pass' = NoPass
    /\ UNCHANGED <<nand, solver, network, clock, latest, unsaved>>

SolverNext ==
    \/ start \/ toggleSolver \/ clockTicks \/ processDies
    \/ \E r \in Resolvers, found \in BOOLEAN : probe(r, found)
    \/ \E written \in BOOLEAN : onPoolApplied(written) \/ onPoolUnreachable(written)
    \/ \E n \in Networks : roam(n)

SolverSpec == SolverInit /\ [][SolverNext]_bindingVars

------------------------------------------------------------------------------
\* What is remembered for a network is the last thing observed under its
\* fingerprint, and nothing after an invalidation, over any number of engine
\* starts and process deaths; an older row comes back only when a write was
\* refused or made before the store was open (rehydrateFrom replaces what
\* the cache holds).
CacheIsLatest ==
    \A i \in DOMAIN cache : \/ cache[i].binding = latest[cache[i].fp]
                            \/ unsaved

\* "the best path on THIS network": a binding was measured on the network it
\* is remembered for.  onPoolApplied takes the fingerprint at the commit, so
\* a device that moves after the probe breaks it.
MeasuredHere == \A i \in DOMAIN cache : cache[i].binding.on = cache[i].fp
==============================================================================
