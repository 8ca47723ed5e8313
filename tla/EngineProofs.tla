---------------------------- MODULE EngineProofs ----------------------------
(***************************************************************************)
(* Types and safety of Engine, for any number of boots and of retries.     *)
(* NoStrayWorker and NoLatchedFailure rest on EngineInv: the runtime knows *)
(* of one boot at a time, which is the one the provider waits for, and all *)
(* it refers to is of that boot.                                           *)
(***************************************************************************)
EXTENDS Engine, TLAPS

ProviderTyped ==
  /\ started \in BOOLEAN /\ inFlight \in Boot \cup {"storage"}
  /\ fault \in {"none", "network", "worker", "fatal"} /\ error \in BOOLEAN /\ engine \in Boot
  /\ fresh \in BOOLEAN /\ retries \in 0 .. MaxRetries /\ timer \in BOOLEAN /\ due \in BOOLEAN
  /\ rebooting \in {0, 1}

RuntimeTyped ==
  /\ phase \in [Boots -> Running \cup {"none", "ready", "failed", "stopped"}]
  /\ again \subseteq Boots /\ current \subseteq Boots /\ promise \in Boot /\ ready \in Boot
  /\ syncRef \in Boot /\ chartRef \in Boot /\ syncs \subseteq Boots /\ charts \subseteq Boots

OthersTyped ==
  /\ call \in [on : Boot, state : {"none", "pending"}]
  /\ online \in BOOLEAN /\ storage \in {"pending", "opfs"} /\ back \in BOOLEAN

\* The three parts of the type invariant.
LEMMA TypeParts == TypeOK <=> ProviderTyped /\ RuntimeTyped /\ OthersTyped
  BY DEF TypeOK, ProviderTyped, RuntimeTyped, OthersTyped

\* The same of the state after a step.
LEMMA NextParts == ProviderTyped' /\ RuntimeTyped' /\ OthersTyped' => TypeOK'
  BY DEF TypeOK, ProviderTyped, RuntimeTyped, OthersTyped

\* A build that starts, and a failed one that is cleared away.
LEMMA SpawnType ==
  ASSUME RuntimeTyped, NEW b \in Boots, Spawn(b), again' \subseteq Boots, current' \subseteq Boots,
         promise' \in Boot, ready' \in Boot
  PROVE  RuntimeTyped'
<1>1. /\ phase' = [phase EXCEPT ![b] = "sync"] /\ syncs' = syncs \cup {b} /\ syncRef' = b
      /\ charts' \subseteq charts \cup {b} /\ chartRef' \in Boot
  BY DEF Spawn, RuntimeTyped, Boot, Ref
<1> QED
  BY <1>1 DEF RuntimeTyped, Boot, Running

\* What a bootstrap of the provider leaves has its types.
LEMMA BootstrapType ==
  ASSUME TypeOK, NEW e \in BOOLEAN, NEW d \in BOOLEAN, NEW tries \in 0 .. MaxRetries,
         Bootstrap(e, d, tries)
  PROVE  /\ RuntimeTyped' /\ (inFlight \in Boot)' /\ (engine \in Boot)'
         /\ (error \in BOOLEAN)' /\ (due \in BOOLEAN)' /\ (retries \in 0 .. MaxRetries)'
         /\ (back \in BOOLEAN)'
<1>a. RuntimeTyped /\ ProviderTyped /\ OthersTyped /\ 0 \in 0 .. MaxRetries
  BY TypeParts, EngineAssumption
<1>1. CASE Shared # None
  <2>1. UNCHANGED <<runtime, back>> /\ inFlight' = promise
    BY <1>1 DEF Bootstrap, Shared
  <2>2. /\ engine' \in {promise, engine} /\ error' \in BOOLEAN /\ due' \in BOOLEAN /\ retries' \in {0, tries}
    <3>1. CASE phase[Shared] = "ready"
      BY <1>1, <3>1 DEF Bootstrap, Shared
    <3>2. CASE phase[Shared] # "ready"
      BY <1>1, <3>2 DEF Bootstrap, Shared
    <3> QED
      BY <3>1, <3>2
  <2>3. RuntimeTyped' /\ back' \in BOOLEAN
    BY <1>a, <2>1 DEF runtime, RuntimeTyped, OthersTyped
  <2> QED
    BY <1>a, <2>1, <2>2, <2>3 DEF RuntimeTyped, ProviderTyped
<1>2. CASE Shared = None
  <2>1. PICK b \in Boots : /\ Spawn(b) /\ again' = again \ {b} /\ current' = current \cup {b}
                           /\ promise' = b /\ inFlight' = b /\ back' = FALSE
                           /\ UNCHANGED <<ready, engine>> /\ error' = e /\ due' = d /\ retries' = tries
    BY <1>2 DEF Bootstrap, Free
  <2>2. RuntimeTyped'
    BY <1>a, <2>1, SpawnType DEF RuntimeTyped, Boot
  <2> QED
    BY <1>a, <2>1, <2>2 DEF ProviderTyped, Boot
<1> QED
  BY <1>1, <1>2

\* So has what is left when it has to wait for storage.
LEMMA RunType ==
  ASSUME TypeOK, NEW e \in BOOLEAN, NEW d \in BOOLEAN, NEW tries \in 0 .. MaxRetries,
         RunBootstrap(e, d, tries)
  PROVE  /\ RuntimeTyped' /\ (inFlight \in Boot \cup {"storage"})' /\ (engine \in Boot)'
         /\ (error \in BOOLEAN)' /\ (due \in BOOLEAN)' /\ (retries \in 0 .. MaxRetries)'
         /\ (back \in BOOLEAN)' /\ fault' = "none"
<1>1. CASE storage = "opfs"
  BY <1>1, BootstrapType DEF RunBootstrap
<1>2. CASE storage # "opfs"
  BY <1>2, TypeParts DEF RunBootstrap, runtime, RuntimeTyped, ProviderTyped, OthersTyped
<1> QED
  BY <1>1, <1>2

\* And what a failed build leaves.
LEMMA FailType ==
  ASSUME TypeOK, NEW b \in Boots, NEW kind \in {"network", "worker", "fatal", "blocked"}, FailAs(b, kind)
  PROVE  RuntimeTyped' /\ ProviderTyped'
<1>a. RuntimeTyped /\ ProviderTyped
  BY TypeParts
<1>1. /\ (phase \in [Boots -> Running \cup {"none", "ready", "failed", "stopped"}])'
      /\ charts' \subseteq charts /\ syncs' \subseteq syncs /\ again' \subseteq again
      /\ current' \subseteq Boots /\ promise' \in Boot /\ ready' \in Boot
      /\ syncRef' \in Boot /\ chartRef' \in Boot
  BY <1>a DEF FailAs, Killed, RuntimeTyped, Boot, Ref
<1>2. RuntimeTyped'
  BY <1>a, <1>1 DEF RuntimeTyped
<1>3. ProviderTyped'
  BY <1>a DEF FailAs, Report, provider, ProviderTyped, Released, Boot
<1> QED
  BY <1>2, <1>3

\* Each step of a build keeps the types.
LEMMA BuildType ==
  ASSUME TypeOK, NEW b \in Boots, Build(b)
  PROVE  TypeOK'
<1>a. RuntimeTyped /\ ProviderTyped /\ OthersTyped
  BY TypeParts
<1>1. CASE Fail(b)
  <2>1. PICK kind \in Faults(b) : /\ FailAs(b, kind) /\ UNCHANGED <<call, online, back>>
                                  /\ storage' = IF kind = "blocked" /\ inFlight = b THEN "pending" ELSE storage
    BY <1>1 DEF Fail
  <2>2. kind \in {"network", "worker", "fatal", "blocked"}
    BY <1>1 DEF Fail, Faults, Running
  <2> QED
    BY <1>a, <2>1, <2>2, FailType, NextParts DEF OthersTyped
<1>2. CASE Trap(b)
  <2>1. CASE MayRebuild(b)
    <3>1. /\ Spawn(b) /\ again' = again \cup {b}
          /\ UNCHANGED <<provider, current, promise, ready, call, environment, back>>
      BY <1>2, <2>1 DEF Trap
    <3>2. RuntimeTyped'
      BY <1>a, <3>1, SpawnType DEF RuntimeTyped
    <3> QED
      BY <1>a, <3>1, <3>2, NextParts DEF ProviderTyped, OthersTyped, provider, environment
  <2>2. CASE ~MayRebuild(b)
    BY <1>a, <1>2, <2>2, FailType, NextParts DEF Trap, OthersTyped, environment
  <2> QED
    BY <2>1, <2>2
<1>3. CASE Synced(b) /\ IsCurrent(b)
  <2>1. RuntimeTyped'
    BY <1>a, <1>3 DEF Synced, RuntimeTyped, Running
  <2> QED
    BY <1>a, <1>3, <2>1, NextParts DEF Synced, ProviderTyped, OthersTyped, provider, environment
<1>4. CASE Assembled(b) /\ IsCurrent(b)
  <2>1. RuntimeTyped'
    BY <1>a, <1>4 DEF Assembled, RuntimeTyped, Running, Boot, Ref
  <2> QED
    BY <1>a, <1>4, <2>1, NextParts DEF Assembled, ProviderTyped, OthersTyped, provider, environment
<1>5. CASE Booted(b) /\ IsCurrent(b)
  <2>1. RuntimeTyped'
    BY <1>a, <1>5 DEF Booted, RuntimeTyped, Boot
  <2>2. ProviderTyped'
    <3>1. CASE inFlight = b
      <4>1. /\ engine' = b /\ fault' = "none" /\ error' = FALSE /\ due' \in BOOLEAN /\ retries' = 0
            /\ UNCHANGED <<started, inFlight, fresh, timer, rebooting>>
        BY <1>5, <3>1 DEF Booted
      <4>2. 0 \in 0 .. MaxRetries
        BY EngineAssumption
      <4> QED
        BY <1>a, <4>1, <4>2 DEF ProviderTyped, Boot
    <3>2. CASE inFlight # b
      BY <1>a, <1>5, <3>2 DEF Booted, ProviderTyped, provider
    <3> QED
      BY <3>1, <3>2
  <2> QED
    BY <1>a, <1>5, <2>1, <2>2, NextParts DEF Booted, OthersTyped, environment
<1>6. CASE ~IsCurrent(b) /\ (Synced(b) \/ Assembled(b) \/ Booted(b))
  <2>1. FailAs(b, "fatal") /\ UNCHANGED <<call, environment, back>>
    BY <1>6 DEF Synced, Assembled, Booted
  <2> QED
    BY <1>a, <2>1, FailType, NextParts DEF OthersTyped, environment
<1> QED
  BY <1>1, <1>2, <1>3, <1>4, <1>5, <1>6 DEF Build

\* So does each step of the provider.
LEMMA ProviderType ==
  ASSUME TypeOK,
         StartBootstrap \/ WhenReady \/ Reboot \/ Rebooted \/ StorageIsDurable \/ Effect \/ TimerFires
  PROVE  TypeOK'
<1>a. /\ RuntimeTyped /\ ProviderTyped /\ OthersTyped
      /\ error \in BOOLEAN /\ due \in BOOLEAN /\ retries \in 0 .. MaxRetries /\ 0 \in 0 .. MaxRetries
  BY TypeParts, EngineAssumption DEF ProviderTyped
<1>b. ASSUME RunBootstrap(error, due, retries), started' \in BOOLEAN, fresh' = fresh, timer' \in BOOLEAN,
             rebooting' \in {0, 1}, Engaged
      PROVE  TypeOK'
  <2>1. /\ RuntimeTyped' /\ (inFlight \in Boot \cup {"storage"})' /\ (engine \in Boot)'
        /\ (error \in BOOLEAN)' /\ (due \in BOOLEAN)' /\ (retries \in 0 .. MaxRetries)'
        /\ (back \in BOOLEAN)' /\ fault' = "none"
    BY <1>a, <1>b, RunType
  <2> QED
    BY <1>a, <1>b, <2>1, NextParts DEF ProviderTyped, OthersTyped, Engaged, environment
<1>1. CASE StartBootstrap
  BY <1>a, <1>b, <1>1 DEF StartBootstrap, ProviderTyped
<1>2. CASE WhenReady
  BY <1>a, <1>b, <1>2 DEF WhenReady, ProviderTyped
<1>3. CASE Reboot
  <2>1. /\ started' = TRUE /\ engine' = None /\ error' = FALSE /\ due' \in BOOLEAN /\ retries' = 0 /\ rebooting' = 1
        /\ fault' \in {"network", fault} /\ UNCHANGED <<inFlight, fresh, timer, runtime, back>> /\ Engaged
    BY <1>3 DEF Reboot
  <2>2. ProviderTyped'
    BY <1>a, <2>1 DEF ProviderTyped, Boot
  <2>3. RuntimeTyped' /\ OthersTyped'
    BY <1>a, <2>1 DEF RuntimeTyped, OthersTyped, runtime, Engaged, environment
  <2> QED
    BY <2>2, <2>3, NextParts
<1>4. CASE Rebooted
  BY <1>a, <1>b, <1>4 DEF Rebooted, ProviderTyped
<1>5. CASE StorageIsDurable
  <2>1. /\ UNCHANGED <<started, fault, fresh, timer, rebooting, call, online>> /\ storage' = "opfs"
    BY <1>5 DEF StorageIsDurable
  <2>2. CASE inFlight = "storage"
    <3>1. /\ RuntimeTyped' /\ (inFlight \in Boot)' /\ (engine \in Boot)'
          /\ (error \in BOOLEAN)' /\ (due \in BOOLEAN)' /\ (retries \in 0 .. MaxRetries)'
          /\ (back \in BOOLEAN)'
      BY <1>a, <1>5, <2>2, BootstrapType DEF StorageIsDurable
    <3> QED
      BY <1>a, <2>1, <3>1, NextParts DEF ProviderTyped, OthersTyped
  <2>3. CASE inFlight # "storage"
    BY <1>a, <1>5, <2>1, <2>3, NextParts DEF StorageIsDurable, ProviderTyped, RuntimeTyped, OthersTyped, runtime
  <2> QED
    BY <2>2, <2>3
<1>6. CASE Effect
  <2>1. fresh' \in BOOLEAN /\ UNCHANGED <<rebooting, call, online, storage>>
    BY <1>6 DEF Effect, Engaged, environment
  <2>2. CASE Retryable /\ fresh /\ ~started
    <3>1. /\ RunBootstrap(error, FALSE, 0) /\ started' = TRUE /\ timer' = FALSE
      BY <1>6, <2>2 DEF Effect
    <3>2. /\ RuntimeTyped' /\ (inFlight \in Boot \cup {"storage"})' /\ (engine \in Boot)'
          /\ (error \in BOOLEAN)' /\ (due \in BOOLEAN)' /\ (retries \in 0 .. MaxRetries)'
          /\ (back \in BOOLEAN)' /\ fault' = "none"
      BY <1>a, <3>1, RunType
    <3> QED
      BY <1>a, <2>1, <3>1, <3>2, NextParts DEF ProviderTyped, OthersTyped
  <2>3. CASE ~(Retryable /\ fresh /\ ~started)
    <3>1. /\ UNCHANGED <<started, inFlight, fault, error, engine, runtime, back>> /\ due' = FALSE
          /\ timer' \in BOOLEAN
      BY <1>6, <2>3 DEF Effect
    <3>2. retries' \in 0 .. MaxRetries
      <4>1. retries' = 0 \/ retries' = retries \/ (retries' = retries + 1 /\ MayRetry)
        BY <1>6, <2>3 DEF Effect
      <4> QED
        BY <1>a, <4>1, EngineAssumption DEF MayRetry
    <3> QED
      BY <1>a, <2>1, <3>1, <3>2, NextParts DEF ProviderTyped, RuntimeTyped, OthersTyped, runtime
  <2> QED
    BY <2>2, <2>3
<1>7. CASE TimerFires
  <2>1. timer' = FALSE /\ UNCHANGED <<fresh, rebooting>> /\ Engaged
    BY <1>7 DEF TimerFires
  <2>2. CASE started
    BY <1>a, <1>7, <2>1, <2>2, NextParts
       DEF TimerFires, ProviderTyped, RuntimeTyped, OthersTyped, runtime, Engaged, environment
  <2>3. CASE ~started
    BY <1>a, <1>b, <1>7, <2>1, <2>3 DEF TimerFires, ProviderTyped
  <2> QED
    BY <2>2, <2>3
<1> QED
  BY <1>1, <1>2, <1>3, <1>4, <1>5, <1>6, <1>7

\* And so do disposal, requests and connectivity.
LEMMA ClientType ==
  ASSUME TypeOK, Teardown \/ Request \/ Reply \/ (\E b \in Boots : Close(b)) \/ GoOnline \/ GoOffline
  PROVE  TypeOK'
<1>a. RuntimeTyped /\ ProviderTyped /\ OthersTyped /\ NoCall \in [on : Boot, state : {"none", "pending"}]
  BY TypeParts DEF NoCall, Boot
<1>1. CASE Teardown
  <2>1. RuntimeTyped'
    BY <1>a, <1>1 DEF Teardown, RuntimeTyped, Boot
  <2>2. OthersTyped'
    BY <1>a, <1>1 DEF Teardown, OthersTyped, Closed, environment
  <2> QED
    BY <1>a, <1>1, <2>1, <2>2, NextParts DEF Teardown, ProviderTyped, provider
<1>2. CASE Request \/ Reply
  <2>1. OthersTyped' /\ UNCHANGED <<provider, runtime>>
    BY <1>a, <1>2 DEF Request, Reply, OthersTyped, ProviderTyped, environment
  <2> QED
    BY <1>a, <2>1, NextParts DEF ProviderTyped, RuntimeTyped, provider, runtime
<1>3. CASE \E b \in Boots : Close(b)
  <2>1. OthersTyped' /\ RuntimeTyped'
    BY <1>a, <1>3 DEF Close, OthersTyped, RuntimeTyped, Closed, environment
  <2> QED
    BY <1>a, <1>3, <2>1, NextParts DEF Close, ProviderTyped, provider
<1>4. CASE GoOnline \/ GoOffline
  <2>1. ProviderTyped'
    BY <1>a, <1>4 DEF GoOnline, GoOffline, ProviderTyped, provider
  <2>2. RuntimeTyped' /\ OthersTyped'
    BY <1>a, <1>4 DEF GoOnline, GoOffline, RuntimeTyped, OthersTyped, runtime
  <2> QED
    BY <2>1, <2>2, NextParts
<1> QED
  BY <1>1, <1>2, <1>3, <1>4

\* Every step keeps the types.
LEMMA NextType == TypeOK /\ [Next]_vars => TypeOK'
<1>1. TypeOK /\ UNCHANGED vars => TypeOK'
  BY TypeParts, NextParts DEF vars, provider, runtime, environment, ProviderTyped, RuntimeTyped, OthersTyped
<1> QED
  BY <1>1, BuildType, ProviderType, ClientType DEF Next

\* Provider, runtime, client and environment keep their types, and the retries
\* of a boot their bound.
THEOREM EngineTypes == Spec => []TypeOK
<1>1. ASSUME Init PROVE TypeOK
  <2>a. 0 \in 0 .. MaxRetries
    BY EngineAssumption
  <2>1. ProviderTyped
    BY <1>1, <2>a DEF Init, ProviderTyped, Boot
  <2>2. RuntimeTyped
    BY <1>1 DEF Init, RuntimeTyped, Boot
  <2>3. OthersTyped
    BY <1>1 DEF Init, OthersTyped, NoCall, Boot
  <2> QED
    BY <2>1, <2>2, <2>3, TypeParts
<1> QED
  BY <1>1, NextType, PTL DEF Spec

-----------------------------------------------------------------------------
(* What NoStrayWorker and NoLatchedFailure rest on. *)

\* The runtime's generation is of the one boot it has promised; the provider
\* waits for that boot, and every reference is to it.
OneGeneration ==
  /\ current = {promise} \ {None}
  /\ promise # None => inFlight = promise /\ storage = "opfs"
  /\ {ready, syncRef, chartRef} \subseteq {None, promise}

EngineInv == OneGeneration /\ NoStrayWorker /\ NoLatchedFailure

\* A boot that is promised has not failed, and an engine that is ready is it.
LEMMA PromiseIs ==
  ASSUME EngineInv, TypeOK
  PROVE  /\ promise = None => current = {} /\ ready = None /\ syncs = {} /\ charts = {}
         /\ \A b \in Boots : b \in current <=> b = promise
         /\ \A b \in Boots : b \in current => inFlight = b /\ storage = "opfs"
  BY EngineAssumption DEF EngineInv, OneGeneration, NoStrayWorker, TypeOK, Boot

\* A build that starts is the one all refers to.
LEMMA SpawnFits ==
  ASSUME TypeOK, EngineInv, NEW b \in Boots, Spawn(b), syncs \subseteq {b}, charts \subseteq {b},
         {ready', chartRef} \subseteq {None, b}, promise' = b, inFlight' = b, current' = {b}, storage' = "opfs",
         engine' # None /\ ready' # None => engine' = ready'
  PROVE  EngineInv'
<1>1. /\ phase' = [phase EXCEPT ![b] = "sync"] /\ syncs' = {b} /\ syncRef' = b
      /\ \/ charts' = {b} /\ chartRef' = b
         \/ charts' = {} /\ chartRef' \in {None, b}
  BY DEF Spawn, Ref
<1>2. b # None /\ phase'[b] = "sync" /\ promise \in Boot
  BY <1>1, EngineAssumption DEF TypeOK
<1>3. OneGeneration'
  BY <1>1, <1>2 DEF OneGeneration
<1>4. NoStrayWorker'
  BY <1>1 DEF NoStrayWorker
<1>5. NoLatchedFailure'
  BY <1>2 DEF NoLatchedFailure
<1> QED
  BY <1>3, <1>4, <1>5 DEF EngineInv

\* A bootstrap shares the boot that is promised or starts the only one.
LEMMA BootstrapFits ==
  ASSUME TypeOK, EngineInv, NEW e, NEW d, NEW tries, Bootstrap(e, d, tries), storage' = "opfs"
  PROVE  EngineInv'
<1>1. CASE promise # None
  <2>1. UNCHANGED <<runtime, back>> /\ inFlight' = promise
    BY <1>1 DEF Bootstrap, Shared
  <2>2. engine' = engine \/ engine' = promise
    BY <1>1 DEF Bootstrap, Shared
  <2>3. OneGeneration' /\ NoStrayWorker'
    BY <2>1 DEF EngineInv, OneGeneration, NoStrayWorker, runtime
  <2>4. NoLatchedFailure'
    BY <1>1, <2>1, <2>2 DEF EngineInv, OneGeneration, NoLatchedFailure, runtime
  <2> QED
    BY <2>3, <2>4 DEF EngineInv
<1>2. CASE promise = None
  <2>1. PICK b \in Boots : /\ Spawn(b) /\ current' = current \cup {b} /\ promise' = b /\ inFlight' = b
                           /\ UNCHANGED <<ready, engine>>
    BY <1>2 DEF Bootstrap, Shared, Free
  <2>2. /\ syncs = {} /\ charts = {} /\ ready = None /\ current = {} /\ chartRef = None
    BY <1>2, PromiseIs DEF EngineInv, OneGeneration
  <2> QED
    BY <2>1, <2>2, SpawnFits
<1> QED
  BY <1>1, <1>2

\* Nothing is promised while storage is not durable.
LEMMA RunFits ==
  ASSUME TypeOK, EngineInv, NEW e, NEW d, NEW tries, RunBootstrap(e, d, tries), UNCHANGED storage
  PROVE  EngineInv'
<1>1. CASE storage = "opfs"
  BY <1>1, BootstrapFits DEF RunBootstrap
<1>2. CASE storage # "opfs"
  <2>1. inFlight' = "storage" /\ UNCHANGED <<engine, runtime, storage>>
    BY <1>2 DEF RunBootstrap
  <2>2. promise = None
    BY <1>2 DEF EngineInv, OneGeneration
  <2>3. OneGeneration' /\ NoStrayWorker'
    BY <2>1, <2>2 DEF EngineInv, OneGeneration, NoStrayWorker, runtime
  <2>4. NoLatchedFailure'
    BY <2>1, <2>2, EngineAssumption DEF EngineInv, NoLatchedFailure, runtime
  <2> QED
    BY <2>3, <2>4 DEF EngineInv
<1> QED
  BY <1>1, <1>2

\* A build that fails takes its workers and, if it is of the current generation,
\* every reference with it.
LEMMA FailFits ==
  ASSUME TypeOK, EngineInv, NEW b \in Boots, phase[b] \in Running, NEW kind, FailAs(b, kind),
         storage' = storage \/ inFlight = b
  PROVE  EngineInv'
<1>1. /\ phase' = [phase EXCEPT ![b] = "failed"] /\ charts' = charts \ {b} /\ syncs' = syncs \ {b}
      /\ Report(b, kind)
  BY DEF FailAs, Killed
<1>2. engine' = engine /\ inFlight' = (IF inFlight # b THEN inFlight ELSE IF kind = "blocked" THEN "storage" ELSE None)
  BY <1>1 DEF Report, provider, Released
<1>3. \A x \in Boots : phase'[x] = (IF x = b THEN "failed" ELSE phase[x])
  BY <1>1 DEF TypeOK
<1>4. inFlight' # b /\ (inFlight' \in Boots => inFlight' = inFlight)
  BY <1>2, EngineAssumption
<1>5. CASE b \in current
  <2>1. current' = {} /\ promise' = None /\ ready' = None /\ syncRef' = None /\ chartRef' = None
    BY <1>5 DEF FailAs, Discards
  <2>2. b = promise
    BY <1>5, PromiseIs
  <2>3. syncs' = {} /\ charts' = {}
    BY <1>1, <2>2, EngineAssumption DEF EngineInv, OneGeneration, NoStrayWorker, TypeOK
  <2>4. OneGeneration' /\ NoStrayWorker'
    BY <2>1, <2>3 DEF OneGeneration, NoStrayWorker
  <2>5. NoLatchedFailure'
    BY <1>3, <1>4, <2>1 DEF EngineInv, NoLatchedFailure
  <2> QED
    BY <2>4, <2>5 DEF EngineInv
<1>6. CASE b \notin current
  <2>1. /\ UNCHANGED <<current, promise, ready>>
        /\ syncRef' = Ref(syncRef, b) /\ chartRef' = Ref(chartRef, b)
    BY <1>6 DEF FailAs, Discards
  <2>2. b # promise /\ b # None
    BY <1>6, PromiseIs, EngineAssumption
  <2>3. syncRef' = syncRef /\ chartRef' = chartRef
    BY <2>1, <2>2 DEF Ref, EngineInv, OneGeneration
  <2>4. promise # None => inFlight # b
    BY <2>2 DEF EngineInv, OneGeneration
  <2>5. OneGeneration' /\ NoStrayWorker'
    BY <1>1, <1>2, <2>1, <2>3, <2>4 DEF EngineInv, OneGeneration, NoStrayWorker
  <2>6. NoLatchedFailure'
    BY <1>2, <1>3, <1>4, <2>1, <2>2 DEF EngineInv, NoLatchedFailure, TypeOK, Boot
  <2> QED
    BY <2>5, <2>6 DEF EngineInv
<1> QED
  BY <1>5, <1>6

\* Each step of a build.
LEMMA BuildFits ==
  ASSUME TypeOK, EngineInv, NEW b \in Boots, Build(b)
  PROVE  EngineInv'
<1>a. /\ b \in current <=> b = promise
      /\ b \in current => inFlight = b /\ storage = "opfs"
      /\ b # None /\ phase \in [Boots -> Running \cup {"none", "ready", "failed", "stopped"}]
  BY PromiseIs, EngineAssumption DEF TypeOK
<1>1. CASE Fail(b)
  BY <1>1, FailFits DEF Fail
<1>2. CASE Trap(b)
  <2>1. CASE MayRebuild(b)
    <3>1. Spawn(b) /\ UNCHANGED <<provider, current, promise, ready, storage>> /\ b \in current
      BY <1>2, <2>1 DEF Trap, MayRebuild, environment
    <3>2. /\ syncs \subseteq {b} /\ charts \subseteq {b} /\ {ready, chartRef} \subseteq {None, b} /\ current = {b}
          /\ inFlight' = b /\ engine' = engine
      BY <1>a, <3>1, EngineAssumption DEF EngineInv, OneGeneration, NoStrayWorker, TypeOK, provider
    <3>3. engine' # None /\ ready' # None => engine' = ready'
      BY <3>1, <3>2 DEF EngineInv, NoLatchedFailure
    <3> QED
      BY <1>a, <3>1, <3>2, <3>3, SpawnFits
  <2>2. CASE ~MayRebuild(b)
    BY <1>2, <2>2, FailFits DEF Trap, environment, Running
  <2> QED
    BY <2>1, <2>2
<1>3. CASE Synced(b) /\ IsCurrent(b)
  <2>1. /\ phase' = [phase EXCEPT ![b] = "assets"]
        /\ UNCHANGED <<provider, current, promise, ready, syncRef, chartRef, syncs, charts, storage>>
    BY <1>3 DEF Synced, environment
  <2> QED
    BY <1>a, <2>1 DEF EngineInv, OneGeneration, NoStrayWorker, NoLatchedFailure, provider, TypeOK, Boot
<1>4. CASE Assembled(b) /\ IsCurrent(b)
  <2>1. /\ phase' = [phase EXCEPT ![b] = "boot"]
        /\ UNCHANGED <<provider, current, promise, ready, storage>>
        /\ syncs' = syncs \ {b} /\ syncRef' = Ref(syncRef, b)
        /\ charts' = charts \cup {b} /\ chartRef' = b /\ b \in current
    BY <1>4 DEF Assembled, environment, IsCurrent
  <2>2. OneGeneration'
    BY <1>a, <2>1 DEF EngineInv, OneGeneration, provider, Ref
  <2>3. NoStrayWorker'
    BY <1>a, <2>1, EngineAssumption DEF EngineInv, OneGeneration, NoStrayWorker, Ref, TypeOK
  <2>4. NoLatchedFailure'
    BY <1>a, <2>1 DEF EngineInv, NoLatchedFailure, provider, TypeOK, Boot
  <2> QED
    BY <2>2, <2>3, <2>4 DEF EngineInv
<1>5. CASE Booted(b) /\ IsCurrent(b)
  <2>1. /\ phase' = [phase EXCEPT ![b] = "ready"] /\ ready' = b /\ engine' = b
        /\ UNCHANGED <<inFlight, current, promise, syncRef, chartRef, syncs, charts, storage>>
    BY <1>5, <1>a DEF Booted, environment, IsCurrent
  <2>2. b = promise
    BY <1>5, <1>a DEF IsCurrent
  <2>3. OneGeneration' /\ NoStrayWorker'
    BY <2>1, <2>2 DEF EngineInv, OneGeneration, NoStrayWorker
  <2>4. NoLatchedFailure'
    BY <1>a, <2>1, <2>2 DEF EngineInv, NoLatchedFailure
  <2> QED
    BY <2>3, <2>4 DEF EngineInv
<1>6. CASE ~IsCurrent(b) /\ (Synced(b) \/ Assembled(b) \/ Booted(b))
  <2>1. FailAs(b, "fatal") /\ UNCHANGED <<call, environment, back>> /\ phase[b] \in Running
    BY <1>6 DEF Synced, Assembled, Booted, Running
  <2> QED
    BY <2>1, FailFits DEF environment
<1> QED
  BY <1>1, <1>2, <1>3, <1>4, <1>5, <1>6 DEF Build

\* Each step of provider, client and environment.
LEMMA OthersFit ==
  ASSUME TypeOK, EngineInv,
         \/ StartBootstrap \/ WhenReady \/ Reboot \/ Rebooted \/ StorageIsDurable \/ Effect \/ TimerFires
         \/ Teardown \/ Request \/ Reply \/ (\E b \in Boots : Close(b)) \/ GoOnline \/ GoOffline \/ UNCHANGED vars
  PROVE  EngineInv'
<1>1. ASSUME UNCHANGED <<inFlight, engine, runtime, storage>> PROVE EngineInv'
  BY <1>1 DEF EngineInv, OneGeneration, NoStrayWorker, NoLatchedFailure, runtime
<1>2. CASE StartBootstrap \/ WhenReady \/ Rebooted
  BY <1>2, RunFits DEF StartBootstrap, WhenReady, Rebooted, Engaged, environment
<1>3. CASE Reboot
  <2>1. engine' = None /\ UNCHANGED <<inFlight, runtime, storage>>
    BY <1>3 DEF Reboot, Engaged, environment
  <2> QED
    BY <2>1 DEF EngineInv, OneGeneration, NoStrayWorker, NoLatchedFailure, runtime
<1>4. CASE StorageIsDurable
  <2>1. CASE inFlight = "storage"
    BY <1>4, <2>1, BootstrapFits DEF StorageIsDurable
  <2>2. CASE inFlight # "storage"
    <3>1. UNCHANGED <<inFlight, engine, runtime>> /\ storage' = "opfs"
      BY <1>4, <2>2 DEF StorageIsDurable
    <3> QED
      BY <3>1 DEF EngineInv, OneGeneration, NoStrayWorker, NoLatchedFailure, runtime
  <2> QED
    BY <2>1, <2>2
<1>5. CASE Effect
  <2>1. CASE Retryable /\ fresh /\ ~started
    BY <1>5, <2>1, RunFits DEF Effect, Engaged, environment
  <2>2. CASE ~(Retryable /\ fresh /\ ~started)
    BY <1>5, <1>1, <2>2 DEF Effect, Engaged, environment
  <2> QED
    BY <2>1, <2>2
<1>6. CASE TimerFires
  BY <1>6, <1>1, RunFits DEF TimerFires, Engaged, environment
<1>7. CASE Teardown
  <2>1. /\ current' = {} /\ promise' = None /\ ready' = None /\ syncRef' = None /\ chartRef' = None
        /\ syncs' = syncs \ {syncRef} /\ charts' = charts \ {chartRef} /\ UNCHANGED <<inFlight, engine, storage>>
        /\ phase' = [b \in Boots |-> IF phase[b] = "ready" THEN "stopped" ELSE phase[b]]
    BY <1>7 DEF Teardown, provider, environment
  <2>2. OneGeneration' /\ NoStrayWorker'
    BY <2>1 DEF EngineInv, OneGeneration, NoStrayWorker
  <2>3. NoLatchedFailure'
    BY <2>1 DEF EngineInv, NoLatchedFailure
  <2> QED
    BY <2>2, <2>3 DEF EngineInv
<1>8. CASE \E b \in Boots : Close(b)
  <2>1. /\ charts' \subseteq charts
        /\ UNCHANGED <<inFlight, engine, storage, phase, again, current, promise, ready, syncRef, chartRef, syncs>>
    BY <1>8 DEF Close, provider, environment
  <2> QED
    BY <2>1 DEF EngineInv, OneGeneration, NoStrayWorker, NoLatchedFailure
<1>9. CASE Request \/ Reply \/ GoOnline \/ GoOffline \/ UNCHANGED vars
  BY <1>1, <1>9 DEF Request, Reply, GoOnline, GoOffline, vars, provider, environment
<1> QED
  BY <1>2, <1>3, <1>4, <1>5, <1>6, <1>7, <1>8, <1>9

\* The inductive invariant holds throughout.
LEMMA EngineInvHolds == Spec => []EngineInv
<1>1. Init => EngineInv
  BY DEF Init, EngineInv, OneGeneration, NoStrayWorker, NoLatchedFailure
<1>2. TypeOK /\ EngineInv /\ [Next]_vars => EngineInv'
  BY BuildFits, OthersFit DEF Next
<1> QED
  BY <1>1, <1>2, EngineTypes, PTL DEF Spec

\* In whatever order boots, retries, reboots, disposals, faults and late replies
\* come, the page runs at most one sync worker and one engine, both of them the
\* ones the runtime would stop (runtime.ts).
THEOREM NoWorkerIsLost == Spec => []NoStrayWorker
  BY EngineInvHolds, PTL DEF EngineInv

\* A failed boot is never what the provider waits for or the runtime shares with
\* later callers, and a published engine is the runtime's.
THEOREM NoFailureIsKept == Spec => []NoLatchedFailure
  BY EngineInvHolds, PTL DEF EngineInv
=============================================================================
