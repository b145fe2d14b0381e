----------------------------- MODULE PluginHost -----------------------------
(***************************************************************************)
(* The life of one agent process from the start of its plugins to its      *)
(* exit: the registry, the external plugins with the subprocess behind     *)
(* each, the collector that calls the running observers, and the shutdown  *)
(* (runAgent's last lines and its deferred calls).                         *)
(*                                                                         *)
(* A subprocess answers the line it was sent, or an error, or dies, or     *)
(* never answers: only those in Prompt are trusted to react.               *)
(***************************************************************************)
EXTENDS Integers, Sequences, FiniteSets

CONSTANTS Dir,       \* the files of <data-dir>/plugins, in the order of os.ReadDir
          Builtins,  \* built-in observers
          Names,     \* names a plugin can report; a built-in is named after itself
          Prompt,    \* the files whose subprocess always answers
          None

Files == {Dir[i] : i \in DOMAIN Dir}

ASSUME PluginHostAssumption ==
    /\ Dir \in Seq(Files)
    /\ \A i, j \in DOMAIN Dir : Dir[i] = Dir[j] => i = j
    /\ Builtins \subseteq Names
    /\ Files \cap Names = {}
    /\ Prompt \subseteq Files
    /\ None \notin Files \cup Names

VARIABLES main,      \* where runAgent is
          loading,   \* position in Dir of the file being loaded
          asked,     \* how many of the four metadata calls were made for it
          meta,      \* what the ExternalPlugin of a file knows of it
          sub,       \* the subprocess of each file
          plugins,   \* Registry.plugins: the plugin under each name
          states,    \* Registry.states
          collector, \* the collector's goroutine
          done,      \* is the context cancelled?
          store      \* is the database open?

vars == <<main, loading, asked, meta, sub, plugins, states, collector, done, store>>

Alive(f) == sub[f] \in {"idle", "asked", "answered"}
LoadsFile(f) == main = "load" /\ loading <= Len(Dir) /\ Dir[loading] = f
NoMeta == [name |-> None, type |-> None, detected |-> FALSE]

Init ==
    /\ main = "builtin" /\ loading = 1 /\ asked = 0
    /\ meta = [f \in Files |-> NoMeta]
    /\ sub = [f \in Files |-> "none"]
    /\ plugins = [n \in Names |-> IF n \in Builtins THEN n ELSE None]
    /\ states = [n \in Names |-> IF n \in Builtins THEN "registered" ELSE "none"]
    /\ collector = [at |-> "off", left |-> {}, cur |-> None]
    /\ done = FALSE
    /\ store = "open"

-----------------------------------------------------------------------------
(* Registry                                                                *)

\* Detect and Start of one plugin: an external one reports what it said when
\* it was loaded and its Start does nothing; a built-in one looks for itself.
Detected(p) ==
    IF p \in Files THEN {IF meta[p].detected THEN "running" ELSE "skipped"}
    ELSE {"running", "skipped", "failed"}

\* DetectAndStart: every plugin that is not running is tried, again if it was.
DetectAndStart ==
    states' \in {s \in [Names -> {"none", "running", "skipped", "failed"}] :
                   \A n \in Names :
                       s[n] \in IF plugins[n] = None THEN {"none"}
                                ELSE IF states[n] = "running" THEN {"running"}
                                ELSE Detected(plugins[n])}

\* Register: the name is taken over from whoever had it.
Register(name, p) ==
    /\ plugins' = [plugins EXCEPT ![name] = p]
    /\ states' = [states EXCEPT ![name] = "registered"]

\* Is the plugin an Observer, and not a scanner?
IsObserver(p) == p \in Builtins \/ meta[p].type = "observer"

RunningObservers ==
    {plugins[n] : n \in {m \in Names : states[m] = "running" /\ IsObserver(plugins[m])}}

\* Mutant: stops the observers and forgets the scanners.
StopObservers ==
    /\ sub' = [f \in Files |-> IF f \in RunningObservers THEN "dead" ELSE sub[f]]
    /\ states' = [n \in Names |-> IF states[n] = "running" THEN "stopped" ELSE states[n]]

\* StopAll: the running plugins only; Stop kills the subprocess and waits for it.
\* It takes no lock of the plugin, so it does not wait for a call under way.
StopAll ==
    /\ sub' = [f \in Files |->
                 IF \E n \in Names : plugins[n] = f /\ states[n] = "running" THEN "dead" ELSE sub[f]]
    /\ states' = [n \in Names |-> IF states[n] = "running" THEN "stopped" ELSE states[n]]

-----------------------------------------------------------------------------
(* The subprocesses                                                        *)

Answer(f) ==
    /\ sub[f] = "asked"
    /\ sub' = [sub EXCEPT ![f] = "answered"]
    /\ UNCHANGED <<main, loading, asked, meta, plugins, states, collector, done, store>>

\* What was written before is still read: an answer on its way is not lost.
Die(f) ==
    /\ sub[f] \in {"idle", "asked"}
    /\ sub' = [sub EXCEPT ![f] = "dead"]
    /\ UNCHANGED <<main, loading, asked, meta, plugins, states, collector, done, store>>

-----------------------------------------------------------------------------
(* Start-up                                                                *)

StartBuiltins ==
    /\ main = "builtin"
    /\ main' = "load"
    /\ DetectAndStart
    /\ UNCHANGED <<loading, asked, meta, sub, plugins, collector, done, store>>

\* LoadExternalPlugin: exec, which can fail; then the metadata.
Spawn ==
    /\ main = "load" /\ loading <= Len(Dir) /\ asked = 0
    /\ \/ /\ sub[Dir[loading]] = "none"
          /\ sub' = [sub EXCEPT ![Dir[loading]] = "asked"]
          /\ asked' = 1
          /\ UNCHANGED loading
       \/ /\ loading' = loading + 1
          /\ UNCHANGED <<sub, asked>>
    /\ UNCHANGED <<main, meta, plugins, states, collector, done, store>>

\* Mutant: the next request is not sent.
LearnWithoutAsking ==
    /\ main = "load" /\ asked \in 1..4
    /\ sub[Dir[loading]] = "answered"
    /\ sub' = [sub EXCEPT ![Dir[loading]] = "idle"]
    /\ asked' = asked + 1
    /\ UNCHANGED <<main, loading, meta, plugins, states, collector, done, store>>

\* The answers to name, type, detect and interval, one after the other.
Learn ==
    /\ main = "load" /\ asked \in 1..4
    /\ LET f == Dir[loading] IN
       /\ sub[f] = "answered"
       /\ \E n \in Names, t \in {"observer", "scanner", "other"}, d \in BOOLEAN :
            meta' = [meta EXCEPT ![f] =
               [name |-> IF asked = 1 THEN n ELSE @.name,
                type |-> IF asked = 2 THEN t ELSE @.type,
                detected |-> IF asked = 3 THEN d ELSE @.detected]]
       /\ sub' = [sub EXCEPT ![f] = IF asked = 4 THEN "idle" ELSE "asked"]
       /\ asked' = asked + 1
    /\ UNCHANGED <<main, loading, plugins, states, collector, done, store>>

\* An error, or a closed pipe, in any of the calls: killed, and not loaded.
LoadFails ==
    /\ main = "load" /\ asked \in 1..4
    /\ sub[Dir[loading]] \in {"answered", "dead"}
    /\ sub' = [sub EXCEPT ![Dir[loading]] = "dead"]
    /\ loading' = loading + 1
    /\ asked' = 0
    /\ UNCHANGED <<main, meta, plugins, states, collector, done, store>>

\* A type that is neither observer nor scanner is killed, the others registered.
Loaded ==
    /\ main = "load" /\ asked = 5
    /\ LET f == Dir[loading] IN
       IF meta[f].type = "other"
       THEN sub' = [sub EXCEPT ![f] = "dead"] /\ UNCHANGED <<plugins, states>>
       ELSE Register(meta[f].name, f) /\ UNCHANGED sub
    /\ loading' = loading + 1
    /\ asked' = 0
    /\ UNCHANGED <<main, meta, collector, done, store>>

\* The second DetectAndStart; the collector starts with a collection.
StartLoaded ==
    /\ main = "load" /\ loading > Len(Dir)
    /\ DetectAndStart
    /\ main' = "running"
    /\ collector' = [collector EXCEPT !.at = "begin"]
    /\ UNCHANGED <<loading, asked, meta, sub, plugins, done, store>>

-----------------------------------------------------------------------------
(* The collector                                                           *)

\* collect asks the registry for the running observers once.
CollectBegin ==
    /\ collector.at = "begin"
    /\ collector' = [at |-> "collect", left |-> RunningObservers, cur |-> None]
    /\ UNCHANGED <<main, loading, asked, meta, sub, plugins, states, done, store>>

\* A built-in observer returns, with a result or an error.
CollectBuiltin(p) ==
    /\ collector.at = "collect" /\ p \in collector.left \cap Builtins
    /\ collector' = [collector EXCEPT !.left = @ \ {p}]
    /\ UNCHANGED <<main, loading, asked, meta, sub, plugins, states, done, store>>

\* ExternalObserver.Collect: call sends a line and waits, without a timeout.
CollectCall(p) ==
    /\ collector.at = "collect" /\ p \in collector.left \cap Files
    /\ collector' = [collector EXCEPT !.at = "calling", !.left = @ \ {p}, !.cur = p]
    /\ sub' = [sub EXCEPT ![p] = IF @ = "dead" THEN @ ELSE "asked"]
    /\ UNCHANGED <<main, loading, asked, meta, plugins, states, done, store>>

CollectReturn ==
    /\ collector.at = "calling" /\ sub[collector.cur] \in {"answered", "dead"}
    /\ collector' = [collector EXCEPT !.at = "collect", !.cur = None]
    /\ sub' = [sub EXCEPT ![collector.cur] = IF @ = "dead" THEN @ ELSE "idle"]
    /\ UNCHANGED <<main, loading, asked, meta, plugins, states, done, store>>

\* InsertMetric and Latest: an error, as under a cancelled context, is logged
\* and the loop goes on.
CollectInsert ==
    /\ collector.at = "collect" /\ collector.left = {}
    /\ collector' = [collector EXCEPT !.at = "select"]
    /\ UNCHANGED <<main, loading, asked, meta, sub, plugins, states, done, store>>

\* The select of the loop: a tick, although the context may be cancelled ...
CollectTick ==
    /\ collector.at = "select"
    /\ collector' = [collector EXCEPT !.at = "begin"]
    /\ UNCHANGED <<main, loading, asked, meta, sub, plugins, states, done, store>>

\* ... or the end.
CollectDone ==
    /\ collector.at = "select" /\ done
    /\ collector' = [collector EXCEPT !.at = "done"]
    /\ UNCHANGED <<main, loading, asked, meta, sub, plugins, states, done, store>>

Collect ==
    \/ CollectBegin
    \/ \E p \in collector.left : CollectBuiltin(p) \/ CollectCall(p)
    \/ CollectReturn
    \/ CollectInsert

-----------------------------------------------------------------------------
(* Shutdown                                                                *)

\* SIGTERM or SIGINT.  Before signal.Notify was called, at the end of the
\* start-up, it ends the process on the spot; afterwards the context is cancelled.
Signal ==
    /\ main \in {"builtin", "load", "running"}
    /\ IF main = "running"
       THEN main' = "stopping" /\ done' = TRUE
       ELSE main' = "killed" /\ UNCHANGED done
    /\ UNCHANGED <<loading, asked, meta, sub, plugins, states, collector, store>>

\* Mutant: waits for the collector before it stops the plugins.
StopPluginsLast ==
    /\ main = "stopping" /\ collector.at = "done"
    /\ StopAll
    /\ main' = "returning"
    /\ UNCHANGED <<loading, asked, meta, plugins, collector, done, store>>

\* transport.Stop, which gives up after 10 s, then registry.StopAll.
StopPlugins ==
    /\ main = "stopping"
    /\ StopAll
    /\ main' = "returning"
    /\ UNCHANGED <<loading, asked, meta, plugins, collector, done, store>>

\* Mutant: closes the database without waiting for the collector.
ReturnUnwaited ==
    /\ main = "returning"
    /\ store' = "closed"
    /\ main' = "exited"
    /\ UNCHANGED <<loading, asked, meta, sub, plugins, states, collector, done>>

\* The deferred calls: collector.Stop waits for its goroutine, then the
\* database is closed and the process ends.
Return ==
    /\ main = "returning" /\ collector.at = "done"
    /\ store' = "closed"
    /\ main' = "exited"
    /\ UNCHANGED <<loading, asked, meta, sub, plugins, states, collector, done>>

Boot == StartBuiltins \/ Spawn \/ Learn \/ LoadFails \/ Loaded \/ StartLoaded
Shutdown == StopPlugins \/ Return

Next ==
    \/ main # "killed" /\ main # "exited" /\ (Boot \/ Collect \/ CollectTick \/ CollectDone)
    \/ Shutdown
    \/ Signal
    \/ \E f \in Files : Answer(f) \/ Die(f)

\* The agent's goroutines run; a select whose two cases stay ready takes each
\* of them in the end; the trusted subprocesses answer.  The others need not.
Spec ==
    /\ Init /\ [][Next]_vars
    /\ WF_vars(Boot) /\ WF_vars(Collect) /\ SF_vars(CollectDone)
    /\ WF_vars(Shutdown)
    /\ \A f \in Prompt : WF_vars(Answer(f))

-----------------------------------------------------------------------------
\* Types of every variable.
TypeOK ==
    /\ main \in {"builtin", "load", "running", "stopping", "returning", "exited", "killed"}
    /\ loading \in 1..(Len(Dir) + 1)
    /\ asked \in 0..5
    /\ meta \in [Files -> [name : Names \cup {None}, detected : BOOLEAN,
                           type : {None, "observer", "scanner", "other"}]]
    /\ sub \in [Files -> {"none", "idle", "asked", "answered", "dead"}]
    /\ plugins \in [Names -> Files \cup Builtins \cup {None}]
    /\ states \in [Names -> {"none", "registered", "running", "skipped", "failed", "stopped"}]
    /\ collector \in [at : {"off", "begin", "collect", "calling", "select", "done"},
                      left : SUBSET (Files \cup Builtins), cur : Files \cup {None}]
    /\ done \in BOOLEAN
    /\ store \in {"open", "closed"}

\* A requested shutdown ends, even while the collector waits for a plugin that
\* never answers: stopping the plugins before waiting for the collector frees it.
ShutdownEnds == (main = "stopping") ~> (main = "exited")

\* The collector never works on a closed database: the deferred calls wait for
\* it before they close the store.
StoreOutlivesCollector ==
    collector.at \in {"begin", "collect", "calling", "select"} => store = "open"

\* After an orderly exit the only subprocesses still alive are those of plugins
\* that said they are not detected and those whose name another one took.
OnlyUnusedProcessesStay ==
    main = "exited" =>
        \A f \in Files : Alive(f) => ~meta[f].detected \/ plugins[meta[f].name] # f

\* A plugin that answers never holds up the agent: neither the start-up, which
\* loads the files in turn, nor a collection stays with it.
TrustedNeverBlocks ==
    \A f \in Prompt :
        /\ LoadsFile(f) ~> ~LoadsFile(f)
        /\ (collector.at = "calling" /\ collector.cur = f) ~> (collector.cur # f)
=============================================================================
