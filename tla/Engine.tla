------------------------------- MODULE Engine -------------------------------
(***************************************************************************)
(* The on-device chart engine of a page.  AlmaMeshRuntimeProvider.tsx asks  *)
(* for a boot, retries a failed one and publishes the engine; the runtime   *)
(* (packages/browser/src/pyodide/runtime.ts) boots it in two workers, one   *)
(* that syncs the signed bundle and one that runs Pyodide; the client       *)
(* (chartEngineClient.ts) sends the second one requests.  The workers, the  *)
(* network and SQLite's storage are the environment.  Generations of the    *)
(* runtime are kept as the set of boots the current one covers.             *)
(***************************************************************************)
EXTENDS Naturals, FiniteSets

CONSTANTS Boots, None,  \* boots under way or remembered; a name is used again
          Policies,     \* may Pyodide warm during the sync?  TRUE, FALSE or either
          MaxRetries    \* the length of REPORTED_ONLINE_RETRY_DELAYS_MS

ASSUME EngineAssumption == /\ None \notin Boots /\ "storage" \notin Boots /\ Policies \subseteq BOOLEAN /\ MaxRetries \in Nat

VARIABLES
  \* the provider
  started, inFlight, fault, error, engine,
  fresh,     \* an online transition is not consumed yet
  retries, timer,
  due,       \* the retry effect has to run: error or onlineEpoch changed
  rebooting, \* reboots that clear the stale caches
  \* the runtime
  phase,     \* of every boot
  again,     \* boots in their second build
  current,   \* boots of the runtime's generation
  promise, ready, syncRef, chartRef,
  syncs, charts, \* the workers that live, by their boot
  \* the client: one request that is followed
  call,
  \* the environment
  online, storage,
  back       \* history: the network came back since the last boot began

provider == <<started, inFlight, fault, error, engine, fresh, retries, timer, due, rebooting>>
runtime == <<phase, again, current, promise, ready, syncRef, chartRef, syncs, charts>>
environment == <<online, storage>>
vars == <<provider, runtime, call, environment, back>>

Running == {"sync", "assets", "boot"}
NoCall == [on |-> None, state |-> "none"]

Init ==
  /\ started = FALSE /\ inFlight = None /\ fault = "none" /\ error = FALSE /\ engine = None
  /\ fresh = FALSE /\ retries = 0 /\ timer = FALSE /\ due = FALSE /\ rebooting = 0
  /\ phase = [b \in Boots |-> "none"] /\ again = {} /\ current = {}
  /\ promise = None /\ ready = None /\ syncRef = None /\ chartRef = None
  /\ syncs = {} /\ charts = {} /\ call = NoCall
  /\ online = TRUE /\ storage = "pending" /\ back = FALSE

-----------------------------------------------------------------------------
(* The runtime: bootstrap and #build. *)

Free == {b \in Boots : phase[b] \in {"none", "failed", "stopped"} /\ b \notin {inFlight, engine}}

Ref(old, b) == IF old = b THEN None ELSE old

\* A build of b starts: the sync worker, and Pyodide's if they overlap.
Spawn(b) ==
  /\ phase' = [phase EXCEPT ![b] = "sync"]
  /\ syncs' = syncs \cup {b} /\ syncRef' = b
  /\ \E overlap \in Policies :
       IF overlap THEN charts' = charts \cup {b} /\ chartRef' = b
       ELSE charts' = charts \ {b} /\ chartRef' = Ref(chartRef, b)

\* The boot that every caller of bootstrap shares.
Shared == promise

(* bootstrap, called by the provider's current attempt.  The effect is due    *)
(* again (d) when the error (e) is taken back.                               *)
Bootstrap(e, d, tries) ==
  IF Shared # None
  THEN /\ inFlight' = Shared /\ UNCHANGED <<runtime, back>>
       /\ IF phase[Shared] = "ready"
          THEN engine' = Shared /\ error' = FALSE /\ due' = (d \/ e) /\ retries' = 0
          ELSE UNCHANGED engine /\ error' = e /\ due' = d /\ retries' = tries
  ELSE \E b \in Free :
         /\ b = CHOOSE x \in Free : TRUE
         /\ Spawn(b) /\ again' = again \ {b} /\ current' = current \cup {b}
         /\ promise' = b /\ inFlight' = b /\ back' = FALSE
         /\ UNCHANGED <<ready, engine>> /\ error' = e /\ due' = d /\ retries' = tries

\* runBootstrap: the engine never boots before SQLite is durable.
RunBootstrap(e, d, tries) ==
  /\ fault' = "none"
  /\ IF storage = "opfs" THEN Bootstrap(e, d, tries)
     ELSE /\ inFlight' = "storage" /\ error' = e /\ due' = d /\ retries' = tries
          /\ UNCHANGED <<engine, runtime, back>>

\* Mutant of Released: the rejected promise stays latched.
Latched(b) == b

\* The provider forgets the attempt that failed.
Released(b) == None

\* The error reaches the provider; only its current attempt counts.
Report(b, kind) ==
  IF inFlight # b THEN UNCHANGED provider
  ELSE IF kind = "blocked"
  THEN inFlight' = "storage" /\ fault' = "none"
       /\ UNCHANGED <<started, error, engine, fresh, retries, timer, due, rebooting>>
  ELSE inFlight' = Released(b) /\ started' = FALSE /\ fault' = kind /\ error' = TRUE /\ due' = TRUE
       /\ UNCHANGED <<engine, fresh, retries, timer, rebooting>>

\* Mutant of Discards: a boot that was superseded discards the newer one.
AlwaysDiscards(b) == TRUE

\* A superseded boot must not clear what belongs to a newer one.
Discards(b) == b \in current

\* What a failed build terminates.
Killed(b) == charts' = charts \ {b} /\ syncs' = syncs \ {b}

FailAs(b, kind) ==
  /\ phase' = [phase EXCEPT ![b] = "failed"] /\ Killed(b) /\ again' = again \ {b}
  /\ IF Discards(b)
     THEN current' = {} /\ promise' = None /\ ready' = None /\ syncRef' = None /\ chartRef' = None
     ELSE UNCHANGED <<current, promise, ready>> /\ syncRef' = Ref(syncRef, b)
          /\ chartRef' = Ref(chartRef, b)
  /\ Report(b, kind)

\* Why a build fails, by its phase; "closed" and "superseded" count as fatal.
Faults(b) == CASE phase[b] = "sync" -> {"network", "worker", "fatal", "blocked"}
               [] phase[b] = "assets" -> {"worker", "fatal", "blocked"}
               [] phase[b] = "boot" -> {"network", "fatal"}

Fail(b) ==
  /\ phase[b] \in Running
  /\ \E kind \in Faults(b) :
       /\ FailAs(b, kind)
       /\ storage' = IF kind = "blocked" /\ inFlight = b THEN "pending" ELSE storage
  /\ UNCHANGED <<call, online, back>>

\* Mutant of MayRebuild: it is tried again and again.
Rebuilds(b) == b \in current

MayRebuild(b) == b \in current \ again

(* A WebAssembly trap: once more, in fresh workers (#buildWithOneRetry).      *)
Trap(b) ==
  /\ phase[b] = "boot"
  /\ IF MayRebuild(b)
     THEN /\ Spawn(b) /\ again' = again \cup {b}
          /\ UNCHANGED <<provider, current, promise, ready>>
     ELSE FailAs(b, "fatal")
  /\ UNCHANGED <<call, environment, back>>

\* #assertCurrent
IsCurrent(b) == b \in current

\* A reply that came before its worker was stopped is still acted upon.
Synced(b) ==
  /\ phase[b] = "sync"
  /\ IF IsCurrent(b) THEN phase' = [phase EXCEPT ![b] = "assets"]
                          /\ UNCHANGED <<provider, again, current, promise, ready, syncRef, chartRef,
                                         syncs, charts>>
                     ELSE FailAs(b, "fatal")
  /\ UNCHANGED <<call, environment, back>>

Assembled(b) ==
  /\ phase[b] = "assets"
  /\ IF IsCurrent(b)
     THEN /\ phase' = [phase EXCEPT ![b] = "boot"]
          /\ syncs' = syncs \ {b} /\ syncRef' = Ref(syncRef, b)
          /\ charts' = charts \cup {b} /\ chartRef' = b
          /\ UNCHANGED <<provider, again, current, promise, ready>>
     ELSE FailAs(b, "fatal")
  /\ UNCHANGED <<call, environment, back>>

\* The engine is ready; the current attempt publishes it.
Booted(b) ==
  /\ phase[b] = "boot"
  /\ IF IsCurrent(b)
     THEN /\ phase' = [phase EXCEPT ![b] = "ready"] /\ ready' = b
          /\ IF inFlight = b
             THEN /\ engine' = b /\ fault' = "none" /\ error' = FALSE /\ due' = (due \/ error)
                  /\ retries' = 0 /\ UNCHANGED <<started, inFlight, fresh, timer, rebooting>>
             ELSE UNCHANGED provider
          /\ UNCHANGED <<again, current, promise, syncRef, chartRef, syncs, charts>>
     ELSE FailAs(b, "fatal")
  /\ UNCHANGED <<call, environment, back>>

\* Mutant of Closed: the request that waits is not told.
Silently(dead) == call

\* #close: every pending request of the worker is rejected.
Closed(dead) == IF call.on \in dead THEN NoCall ELSE call

(* registerEngineTeardown: dispose, for a reset of the bundle cache.          *)
Teardown ==
  /\ promise # None
  /\ current' = {} /\ promise' = None /\ ready' = None /\ syncRef' = None /\ chartRef' = None
  /\ syncs' = syncs \ {syncRef} /\ charts' = charts \ {chartRef}
  /\ phase' = [b \in Boots |-> IF phase[b] = "ready" THEN "stopped" ELSE phase[b]]
  /\ call' = Closed({chartRef})
  /\ UNCHANGED <<provider, again, environment, back>>

-----------------------------------------------------------------------------
(* The provider. *)

Engaged == UNCHANGED <<call, environment>>

\* startBootstrap, on intent: at most once.
StartBootstrap ==
  /\ ~started /\ started' = TRUE
  /\ RunBootstrap(error, due, retries)
  /\ UNCHANGED <<fresh, timer, rebooting>> /\ Engaged

WhenReady ==
  /\ inFlight = None /\ started' = TRUE
  /\ RunBootstrap(error, due, retries)
  /\ UNCHANGED <<fresh, timer, rebooting>> /\ Engaged

\* Bound: one reboot at a time.
Reboot ==
  /\ rebooting = 0 /\ rebooting' = 1
  /\ started' = TRUE /\ engine' = None /\ error' = FALSE /\ due' = (due \/ error) /\ retries' = 0
  /\ fault' = IF fault = "worker" THEN "network" ELSE fault
  /\ UNCHANGED <<inFlight, fresh, timer, runtime, back>> /\ Engaged

\* The stale caches are cleared.
Rebooted ==
  /\ rebooting = 1 /\ rebooting' = 0
  /\ RunBootstrap(error, due, retries)
  /\ UNCHANGED <<started, fresh, timer>> /\ Engaged

StorageIsDurable ==
  /\ storage = "pending" /\ storage' = "opfs"
  /\ IF inFlight = "storage" THEN Bootstrap(error, due, retries)
     ELSE UNCHANGED <<inFlight, engine, error, due, retries, runtime, back>>
  /\ UNCHANGED <<started, fault, fresh, timer, rebooting, call, online>>

Retryable == fault \in {"network", "worker"}

\* Mutant of Consumes: an online transition is consumed whatever happens.
ConsumesAnyway == fresh

Consumes == fresh /\ Retryable

\* Mutant of MayRetry: one retry too many.
RetriesOnce == retries <= MaxRetries

MayRetry == retries < MaxRetries

(* The retry effect; its cleanup stops the timer.                             *)
Effect ==
  /\ due /\ fresh' = (fresh /\ ~Consumes)
  /\ IF Retryable /\ fresh
     THEN /\ timer' = FALSE
          /\ IF started THEN /\ due' = FALSE /\ retries' = 0
                             /\ UNCHANGED <<started, inFlight, fault, error, engine, runtime, back>>
                        ELSE started' = TRUE /\ RunBootstrap(error, FALSE, 0)
     ELSE /\ due' = FALSE
          /\ timer' = (Retryable /\ (online \/ fault = "worker") /\ MayRetry)
          /\ retries' = IF timer' THEN retries + 1 ELSE retries
          /\ UNCHANGED <<started, inFlight, fault, error, engine, runtime, back>>
  /\ UNCHANGED rebooting /\ Engaged

TimerFires ==
  /\ timer /\ timer' = FALSE
  /\ IF started THEN UNCHANGED <<started, inFlight, fault, error, engine, retries, due, runtime, back>>
     ELSE started' = TRUE /\ RunBootstrap(error, due, retries)
  /\ UNCHANGED <<fresh, rebooting>> /\ Engaged

-----------------------------------------------------------------------------
(* Requests, and connectivity. *)

\* A closed client rejects a request at once: then nothing waits.
Request ==
  /\ call = NoCall /\ engine # None /\ engine \in charts
  /\ call' = [on |-> engine, state |-> "pending"]
  /\ UNCHANGED <<provider, runtime, environment, back>>

Reply ==
  /\ call.state = "pending" /\ call.on \in charts /\ call' = NoCall
  /\ UNCHANGED <<provider, runtime, environment, back>>

(* A request's time is up, or the worker fails: the client closes.            *)
Close(b) ==
  /\ phase[b] = "ready" /\ b \in charts /\ charts' = charts \ {b}
  /\ call' = Closed({b})
  /\ UNCHANGED <<provider, phase, again, current, promise, ready, syncRef, chartRef, syncs,
                 environment, back>>

GoOnline ==
  /\ ~online /\ online' = TRUE /\ fresh' = TRUE /\ due' = TRUE /\ back' = TRUE
  /\ UNCHANGED <<started, inFlight, fault, error, engine, retries, timer, rebooting, runtime, call,
                 storage>>

GoOffline == online /\ online' = FALSE /\ UNCHANGED <<provider, runtime, call, storage, back>>

-----------------------------------------------------------------------------
Build(b) == Fail(b) \/ Trap(b) \/ Synced(b) \/ Assembled(b) \/ Booted(b)

Next == \/ \E b \in Boots : Build(b) \/ Close(b)
        \/ Teardown \/ StartBootstrap \/ WhenReady \/ Reboot \/ Rebooted \/ StorageIsDurable
        \/ Effect \/ TimerFires \/ Request \/ Reply \/ GoOnline \/ GoOffline

(* A build goes on or meets its idle deadline, a request is answered or meets *)
(* its own; React runs its effects, and timers fire.                          *)
Spec == /\ Init /\ [][Next]_vars
        /\ \A b \in Boots : WF_vars(Build(b))
        /\ WF_vars(Rebooted) /\ WF_vars(Effect) /\ WF_vars(TimerFires)
        /\ WF_vars(Reply \/ \E b \in Boots : Close(b) /\ call.on = b)

-----------------------------------------------------------------------------
(* Properties. *)

Boot == Boots \cup {None}

TypeOK ==
  /\ started \in BOOLEAN /\ inFlight \in Boot \cup {"storage"}
  /\ fault \in {"none", "network", "worker", "fatal"} /\ error \in BOOLEAN /\ engine \in Boot
  /\ fresh \in BOOLEAN /\ retries \in 0 .. MaxRetries /\ timer \in BOOLEAN /\ due \in BOOLEAN
  /\ rebooting \in {0, 1} /\ phase \in [Boots -> Running \cup {"none", "ready", "failed", "stopped"}]
  /\ again \subseteq Boots /\ current \subseteq Boots /\ promise \in Boot /\ ready \in Boot
  /\ syncRef \in Boot /\ chartRef \in Boot /\ syncs \subseteq Boots /\ charts \subseteq Boots
  /\ call \in [on : Boot, state : {"none", "pending"}]
  /\ online \in BOOLEAN /\ storage \in {"pending", "opfs"} /\ back \in BOOLEAN

(* However retries, reboots, resets and faults interleave, the page never    *)
(* runs a worker that the runtime has lost sight of: at most one of each     *)
(* kind lives, and a disposal stops it.                                      *)
NoStrayWorker == syncs \subseteq {syncRef} /\ charts \subseteq {chartRef}

(* A failed boot is never what later callers wait for, and whoever publishes *)
(* an engine publishes the runtime's.                                        *)
NoLatchedFailure ==
  /\ inFlight \in Boots => phase[inFlight] # "failed"
  /\ promise # None => phase[promise] # "failed" /\ promise \in current
  /\ engine # None /\ ready # None => engine = ready

(* A boot that failed for a passing reason is tried again once the network   *)
(* is back, even if it came back while the boot was still failing.           *)
OnlineIsNotMissed == (back /\ Retryable) ~> ~Retryable

(* Every boot ends, and every request is settled: no caller waits forever.   *)
NobodyWaits ==
  /\ \A b \in Boots : (phase[b] \in Running) ~> (phase[b] \notin Running)
  /\ (call.state = "pending") ~> (call.state # "pending")

(* "reboot: reset state and run a FRESH bootstrap.  Resolves with the ready  *)
(* engine" (chartEngineContext.ts:41): the engine a reboot resolves with     *)
(* answers.  The code does not do this after a request ran out of time.      *)
RebootRevives == [][rebooting' < rebooting /\ engine' # None => engine' \in charts']_vars
=============================================================================
