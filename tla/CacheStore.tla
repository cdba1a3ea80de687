----------------------------- MODULE CacheStore -----------------------------
(***************************************************************************)
(* The cache behind its backend interface: selectBackendForTier puts a tier  *)
(* on the local directory of DiskCache or on the helper of CacheProgClient,  *)
(* and either one has to keep the promise of BackendContract.                *)
(***************************************************************************)
EXTENDS DiskCache, Integers

CONSTANTS
    Callers, Actions, Nobody, Declared, MaxCalls   \* of CacheProgClient

ASSUME StoreAssumption ==
    /\ IsFiniteSet(Callers) /\ Nobody \notin Callers /\ MaxCalls \in Nat
    /\ Processes \cap Callers = {}

VARIABLES
    backend,    \* "local", "gocacheprog", or "error" when none can be opened
    client, known, readLoop, nextID, inFlight, flight, call, closing, closer, stdin, helper,
    garbled, wire, intact,
    put         \* what was published through the helper

Prog == INSTANCE CacheProgClient WITH Keys <- Actions, published <- put

progVars == <<client, known, readLoop, nextID, inFlight, flight, call, closing, closer, stdin,
              helper, garbled, wire, intact, put>>
storeVars == <<backend, diskVars, progVars>>

Tiers == {"", "l0", "l1", "l2"}
Settings == {"", "local", "gocacheprog", "other"}

\* PLAID_<TIER>_CACHE_BACKEND, then PLAID_CACHE_BACKEND, which does not move L1
\* to a helper, then "local".
backendForTier(tier, override, global) ==
    IF tier # "" /\ override # "" THEN override
    ELSE IF global = "" \/ (tier = "l1" /\ global = "gocacheprog") THEN "local"
    ELSE global

\* An unknown name, or a helper that is not named, fails loudly.
selectBackendForTier(tier, override, global, cacheprog) ==
    LET name == backendForTier(tier, override, global)
    IN IF name = "local" \/ (name = "gocacheprog" /\ cacheprog) THEN name ELSE "error"

StoreInit ==
    /\ \E tier \in Tiers, override, global \in Settings, cacheprog \in BOOLEAN :
         backend = selectBackendForTier(tier, override, global, cacheprog)
    /\ Init
    /\ Prog!Init

StoreNext ==
    \/ backend = "local" /\ Next /\ UNCHANGED <<backend, progVars>>
    \/ backend = "gocacheprog" /\ Prog!Next /\ UNCHANGED <<backend, diskVars>>

StoreSpec == StoreInit /\ [][StoreNext]_storeVars /\ WF_progVars(backend = "gocacheprog" /\ Prog!Progress)
----------------------------------------------------------------------------
\* Types of both backends.
StoreTypeOK == TypeOK /\ Prog!TypeOK

\* Either backend keeps the promise of the interface: a lookup is answered with
\* a body that was published whole under its key, or not at all, whatever
\* processes, purges, collections, power failures, reordered responses, damaged
\* files and shared round trips come between.
Contract == INSTANCE BackendContract WITH
    Clients <- Processes \cup Callers, Keys <- Keys \cup Actions, Bodies <- Versions \cup Actions,
    NoAnswer <- NoVersion,
    published <- published \cup put,
    answer <- [c \in Processes \cup Callers |->
                 CASE c \in Processes -> DiskAnswer(c)
                   [] c \in Callers /\ Prog!At(c, "hit") -> Prog!ProgAnswer(c)
                   [] OTHER -> NoVersion]
ImplementsContract == Contract!Spec

\* The calls of a client return, whether the helper answers them, fails them or
\* dies between any two of their steps, and so does Close, with the helper
\* reaped (CacheProgClient).
ClientReturns == Prog!CallsReturn /\ Prog!CloseReturns
============================================================================
