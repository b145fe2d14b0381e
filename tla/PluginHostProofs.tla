-------------------------- MODULE PluginHostProofs --------------------------
(***************************************************************************)
(* Proofs about PluginHost, for any directory of plugins and whatever      *)
(* their subprocesses do: the database outlives the collector, and which   *)
(* subprocesses an orderly exit leaves behind.                             *)
(***************************************************************************)
EXTENDS PluginHost, TLAPS

\* A file is being loaded while its metadata is asked for; it has told its name
\* before it is asked for the rest.
NamesAreTold ==
    /\ asked # 0 => loading <= Len(Dir)
    /\ asked > 1 => meta[Dir[loading]].name \in Names
    /\ \A f \in Files : meta[f].detected => meta[f].name \in Names

\* A name nobody has is in no state.
NobodyRuns == \A n \in Names : plugins[n] = None => states[n] = "none"

\* The store is closed last.
ClosedLast == store = "closed" => main = "exited" /\ collector.at = "done"

\* The plugins that are there to be used: detected, and in the registry.
Used(f) == meta[f].detected /\ plugins[meta[f].name] = f

\* They run once the start-up is over, and are dead once StopAll is.
UsedRun ==
    \A f \in Files : Used(f) =>
        /\ main \in {"running", "stopping"} => states[meta[f].name] = "running"
        /\ main \in {"returning", "exited"} => sub[f] = "dead"

IInv == TypeOK /\ NamesAreTold /\ NobodyRuns /\ ClosedLast /\ UsedRun

\* The files in the order of the directory.
LEMMA DirFiles == \A i \in 1..Len(Dir) : Dir[i] \in Files
BY PluginHostAssumption DEF Files

LEMMA DirLength == Len(Dir) \in Nat
BY PluginHostAssumption

\* What DetectAndStart does to the states.
LEMMA DetectStates ==
  ASSUME TypeOK, DetectAndStart
  PROVE  /\ states' \in [Names -> {"none", "running", "skipped", "failed"}]
         /\ \A n \in Names : plugins[n] = None => states'[n] = "none"
         /\ \A n \in Names : plugins[n] \in Files /\ meta[plugins[n]].detected
                               => states'[n] = "running"
BY PluginHostAssumption DEF TypeOK, DetectAndStart, Detected

\* The running observers are plugins.
LEMMA ObserversType ==
  ASSUME TypeOK, NobodyRuns
  PROVE  RunningObservers \subseteq Files \cup Builtins
BY DEF TypeOK, NobodyRuns, RunningObservers

\* Every step keeps the types.
LEMMA TypeStep == TypeOK /\ NamesAreTold /\ NobodyRuns /\ [Next]_vars => TypeOK'
<1> SUFFICES ASSUME TypeOK, NamesAreTold, NobodyRuns, [Next]_vars PROVE TypeOK'
  OBVIOUS
<1> USE DirFiles, DirLength, PluginHostAssumption DEF TypeOK
<1>1. CASE StartBuiltins
  BY <1>1, DetectStates DEF StartBuiltins
<1>2. CASE Spawn
  BY <1>2 DEF Spawn
<1>3. CASE Learn
  <2>1. Dir[loading] \in Files
    BY <1>3 DEF Learn, NamesAreTold
  <2>2. meta' \in [Files -> [name : Names \cup {None}, detected : BOOLEAN,
                            type : {None, "observer", "scanner", "other"}]]
    BY <1>3, <2>1 DEF Learn
  <2>3. QED
    BY <1>3, <2>1, <2>2 DEF Learn
<1>4. CASE LoadFails
  BY <1>4 DEF LoadFails, NamesAreTold
<1>5. CASE Loaded
  <2> DEFINE f == Dir[loading]
  <2>1. f \in Files /\ meta[f].name \in Names /\ loading + 1 \in 1..(Len(Dir) + 1)
    BY <1>5 DEF Loaded, NamesAreTold
  <2>2. CASE meta[f].type = "other"
    BY <1>5, <2>1, <2>2 DEF Loaded
  <2>3. CASE meta[f].type # "other"
    <3>1. Register(meta[f].name, f) /\ UNCHANGED sub
      BY <1>5, <2>3 DEF Loaded
    <3>2. /\ plugins' \in [Names -> Files \cup Builtins \cup {None}]
          /\ states' \in [Names -> {"none", "registered", "running", "skipped", "failed", "stopped"}]
      BY <2>1, <3>1 DEF Register
    <3>3. QED
      BY <1>5, <2>1, <3>1, <3>2 DEF Loaded
  <2>4. QED
    BY <2>2, <2>3
<1>6. CASE StartLoaded
  BY <1>6, DetectStates DEF StartLoaded
<1>7. CASE CollectBegin
  BY <1>7, ObserversType DEF CollectBegin
<1>8. ASSUME NEW p \in collector.left, CollectBuiltin(p) PROVE TypeOK'
  BY <1>8 DEF CollectBuiltin
<1>9. ASSUME NEW p \in collector.left, CollectCall(p) PROVE TypeOK'
  BY <1>9 DEF CollectCall
<1>10. CASE CollectReturn
  BY <1>10 DEF CollectReturn
<1>11. CASE CollectInsert \/ CollectTick \/ CollectDone
  BY <1>11 DEF CollectInsert, CollectTick, CollectDone
<1>12. CASE StopPlugins
  BY <1>12 DEF StopPlugins, StopAll
<1>13. CASE Return
  BY <1>13 DEF Return
<1>14. CASE Signal
  BY <1>14 DEF Signal
<1>15. ASSUME NEW f \in Files, Answer(f) \/ Die(f) PROVE TypeOK'
  <2>1. sub' \in [Files -> {"none", "idle", "asked", "answered", "dead"}]
    BY <1>15 DEF Answer, Die
  <2>2. QED
    BY <1>15, <2>1 DEF Answer, Die
<1>16. CASE UNCHANGED vars
  BY <1>16 DEF vars
<1>17. QED
  BY <1>1, <1>2, <1>3, <1>4, <1>5, <1>6, <1>7, <1>8, <1>9, <1>10, <1>11, <1>12, <1>13,
     <1>14, <1>15, <1>16 DEF Next, Boot, Collect, Shutdown

\* The initial state meets the invariant.
LEMMA InitInv == Init => IInv
<1> SUFFICES ASSUME Init PROVE IInv
  OBVIOUS
<1> USE PluginHostAssumption, DirLength DEF Init
<1>1. TypeOK
  <2>1. loading \in 1..(Len(Dir) + 1)
    OBVIOUS
  <2>2. meta \in [Files -> [name : Names \cup {None}, detected : BOOLEAN,
                           type : {None, "observer", "scanner", "other"}]]
    BY DEF NoMeta
  <2>3. /\ plugins \in [Names -> Files \cup Builtins \cup {None}]
        /\ states \in [Names -> {"none", "registered", "running", "skipped", "failed", "stopped"}]
        /\ sub \in [Files -> {"none", "idle", "asked", "answered", "dead"}]
    OBVIOUS
  <2>4. collector \in [at : {"off", "begin", "collect", "calling", "select", "done"},
                       left : SUBSET (Files \cup Builtins), cur : Files \cup {None}]
    OBVIOUS
  <2>5. /\ main \in {"builtin", "load", "running", "stopping", "returning", "exited", "killed"}
        /\ asked \in 0..5 /\ store \in {"open", "closed"}
    OBVIOUS
  <2>6. done \in BOOLEAN
    OBVIOUS
  <2>7. QED
    BY <2>1, <2>2, <2>3, <2>4, <2>5, <2>6, Zenon DEF TypeOK
<1>2. NamesAreTold /\ NobodyRuns
  BY DEF NamesAreTold, NobodyRuns, NoMeta
<1>3. ClosedLast /\ UsedRun
  BY DEF ClosedLast, UsedRun
<1>4. QED
  BY <1>1, <1>2, <1>3 DEF IInv

\* The collector and the subprocesses change nothing of the registry.
LEMMA ElsewhereOnly ==
  ASSUME Collect \/ CollectTick \/ CollectDone \/ \E f \in Files : Answer(f) \/ Die(f)
  PROVE  UNCHANGED <<main, loading, asked, meta, plugins, states, done, store>>
BY DEF Collect, CollectBegin, CollectBuiltin, CollectCall, CollectReturn, CollectInsert,
       CollectTick, CollectDone, Answer, Die

\* What Learn knows of a file afterwards.
LEMMA NamesStep == TypeOK /\ NamesAreTold /\ [Next]_vars => NamesAreTold'
<1> SUFFICES ASSUME TypeOK, NamesAreTold, [Next]_vars PROVE NamesAreTold'
  OBVIOUS
<1> USE DirFiles, DirLength DEF TypeOK, NamesAreTold
<1>1. CASE Learn
  <2>1. Dir[loading] \in Files
    BY <1>1 DEF Learn
  <2>2. PICK n \in Names, d \in BOOLEAN :
           /\ meta'[Dir[loading]].name = IF asked = 1 THEN n ELSE meta[Dir[loading]].name
           /\ meta'[Dir[loading]].detected = IF asked = 3 THEN d ELSE meta[Dir[loading]].detected
           /\ \A g \in Files \ {Dir[loading]} : meta'[g] = meta[g]
    BY <1>1, <2>1 DEF Learn
  <2>3. asked \in 1..4 /\ asked' = asked + 1 /\ UNCHANGED loading
    BY <1>1 DEF Learn
  <2>4. QED
    BY <2>1, <2>2, <2>3
<1>2. CASE Spawn
  BY <1>2 DEF Spawn
<1>3. CASE LoadFails \/ Loaded
  BY <1>3 DEF LoadFails, Loaded
<1>4. CASE StartBuiltins \/ StartLoaded \/ Shutdown \/ Signal \/ UNCHANGED vars
  BY <1>4 DEF StartBuiltins, StartLoaded, Shutdown, StopPlugins, Return, Signal, vars
<1>5. CASE Collect \/ CollectTick \/ CollectDone \/ \E f \in Files : Answer(f) \/ Die(f)
  BY <1>5, ElsewhereOnly
<1>6. QED
  BY <1>1, <1>2, <1>3, <1>4, <1>5 DEF Next, Boot

LEMMA NobodyStep == TypeOK /\ NamesAreTold /\ NobodyRuns /\ [Next]_vars => NobodyRuns'
<1> SUFFICES ASSUME TypeOK, NamesAreTold, NobodyRuns, [Next]_vars PROVE NobodyRuns'
  OBVIOUS
<1> USE PluginHostAssumption DEF TypeOK, NobodyRuns
<1>1. CASE StartBuiltins \/ StartLoaded
  <2>1. DetectAndStart /\ UNCHANGED plugins
    BY <1>1 DEF StartBuiltins, StartLoaded
  <2>2. QED
    BY <2>1, DetectStates
<1>2. CASE Loaded
  <2>1. Dir[loading] \in Files
    BY <1>2, DirFiles, DirLength DEF Loaded, NamesAreTold
  <2>2. \/ UNCHANGED <<plugins, states>>
        \/ Register(meta[Dir[loading]].name, Dir[loading])
    BY <1>2 DEF Loaded
  <2>3. QED
    BY <2>1, <2>2 DEF Register
<1>3. CASE StopPlugins
  BY <1>3 DEF StopPlugins, StopAll
<1>4. CASE Spawn \/ Learn \/ LoadFails \/ Return \/ Signal \/ UNCHANGED vars
  BY <1>4 DEF Spawn, Learn, LoadFails, Return, Signal, vars
<1>5. CASE Collect \/ CollectTick \/ CollectDone \/ \E f \in Files : Answer(f) \/ Die(f)
  BY <1>5, ElsewhereOnly
<1>6. QED
  BY <1>1, <1>2, <1>3, <1>4, <1>5 DEF Next, Boot, Shutdown

\* Nothing runs in a process that has ended.
LEMMA ClosedStep == ClosedLast /\ [Next]_vars => ClosedLast'
<1> SUFFICES ASSUME ClosedLast, [Next]_vars PROVE ClosedLast'
  OBVIOUS
<1> USE DEF ClosedLast
<1>1. CASE Return
  BY <1>1 DEF Return
<1>2. CASE main = "exited" /\ ~Return
  BY <1>2 DEF Next, Shutdown, StopPlugins, Signal, Answer, Die, vars
<1>3. CASE main # "exited" /\ ~Return
  <2>1. CASE Boot
    BY <1>3, <2>1 DEF Boot, StartBuiltins, Spawn, Learn, LoadFails, Loaded, StartLoaded
  <2>2. CASE Collect \/ CollectTick \/ CollectDone \/ \E f \in Files : Answer(f) \/ Die(f)
    BY <1>3, <2>2, ElsewhereOnly
  <2>3. CASE StopPlugins \/ Signal \/ UNCHANGED vars
    BY <1>3, <2>3 DEF StopPlugins, Signal, vars
  <2>4. QED
    BY <1>3, <2>1, <2>2, <2>3 DEF Next, Shutdown
<1>4. QED
  BY <1>1, <1>2, <1>3

\* StopAll reaches every plugin in use, and the dead stay dead.
LEMMA UsedStep == IInv /\ [Next]_vars => UsedRun'
<1> SUFFICES ASSUME IInv, [Next]_vars PROVE UsedRun'
  OBVIOUS
<1>0. TypeOK /\ NamesAreTold /\ UsedRun
  BY DEF IInv
<1> USE <1>0 DEF UsedRun, Used
<1>1. CASE StartBuiltins \/ Spawn \/ Learn \/ LoadFails \/ Loaded
  <2>1. main' = "load"
    BY <1>1 DEF StartBuiltins, Spawn, Learn, LoadFails, Loaded
  <2>2. QED
    BY <2>1
<1>2. CASE StartLoaded
  <2>1. DetectAndStart /\ UNCHANGED <<meta, plugins>> /\ main' = "running"
    BY <1>2 DEF StartLoaded
  <2>2. ASSUME NEW f \in Files, Used(f) PROVE states'[meta[f].name] = "running"
    <3>1. meta[f].name \in Names
      BY <2>2 DEF NamesAreTold
    <3>2. QED
      BY <2>1, <2>2, <3>1, DetectStates
  <2>3. QED
    BY <2>1, <2>2
<1>3. CASE StopPlugins
  <2>1. \A f \in Files : meta[f].detected => meta[f].name \in Names
    BY DEF NamesAreTold
  <2>2. main = "stopping" /\ main' = "returning" /\ UNCHANGED <<meta, plugins>>
    BY <1>3 DEF StopPlugins
  <2>3. \A f \in Files :
           (\E n \in Names : plugins[n] = f /\ states[n] = "running") => sub'[f] = "dead"
    BY <1>3 DEF StopPlugins, StopAll
  <2>4. QED
    BY <2>1, <2>2, <2>3
<1>4. CASE Return \/ Signal \/ UNCHANGED vars
  BY <1>4 DEF Return, Signal, vars
<1>5. CASE Collect \/ CollectTick \/ CollectDone \/ \E f \in Files : Answer(f) \/ Die(f)
  <2>1. UNCHANGED <<main, meta, plugins, states>>
    BY <1>5, ElsewhereOnly
  <2>2. \A f \in Files : sub[f] = "dead" => sub'[f] = "dead"
    <3>1. CASE UNCHANGED sub
      BY <3>1
    <3>2. CASE \E p \in collector.left : CollectCall(p)
      BY <3>2 DEF TypeOK, CollectCall
    <3>3. CASE CollectReturn
      BY <3>3 DEF TypeOK, CollectReturn
    <3>4. CASE \E f \in Files : Answer(f) \/ Die(f)
      BY <3>4 DEF TypeOK, Answer, Die
    <3>5. QED
      BY <1>5, <3>1, <3>2, <3>3, <3>4
        DEF Collect, CollectBegin, CollectBuiltin, CollectInsert, CollectTick, CollectDone
  <2>3. QED
    BY <2>1, <2>2
<1>6. QED
  BY <1>1, <1>2, <1>3, <1>4, <1>5 DEF Next, Boot, Shutdown

LEMMA Invariant == Spec => []IInv
<1>1. IInv /\ [Next]_vars => IInv'
  BY TypeStep, NamesStep, NobodyStep, ClosedStep, UsedStep DEF IInv
<1>2. QED
  BY InitInv, <1>1, PTL DEF Spec

\* The variables keep their types.
THEOREM TypeCorrect == Spec => []TypeOK
<1>1. IInv => TypeOK
  BY DEF IInv
<1>2. QED
  BY <1>1, Invariant, PTL

\* The collector never works on a closed database, for any plugins: the deferred
\* Stop of the collector runs before the deferred Close of the store, and waits
\* (run.go:108, 216, collector.go:58-64).
THEOREM StoreCorrect == Spec => []StoreOutlivesCollector
<1>1. IInv => StoreOutlivesCollector
  BY DEF IInv, TypeOK, ClosedLast, StoreOutlivesCollector
<1>2. QED
  BY <1>1, Invariant, PTL

\* After an orderly exit a live subprocess is one that said it is not detected or
\* whose name was taken over (registry.go:28-35, 119-133), for any directory.
THEOREM ProcessesCorrect == Spec => []OnlyUnusedProcessesStay
<1>1. IInv => OnlyUnusedProcessesStay
  BY DEF IInv, UsedRun, Used, OnlyUnusedProcessesStay, Alive
<1>2. QED
  BY <1>1, Invariant, PTL

=============================================================================
