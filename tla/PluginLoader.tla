---------------------------- MODULE PluginLoader ----------------------------
(* The plugin loader (plugin/loader/loader.go): its state machine, the maps  *)
(* of loaded and started plugins, and the calls a program makes on it. The   *)
(* loops over loader.plugins run in map order, so the plugins served before  *)
(* a failing one are any subset. The methods run in one goroutine.           *)
EXTENDS Naturals, FiniteSets, Sequences

CONSTANTS PlFiles,      \* plugins in the order NewPluginLoader loads them
          PlName,         \* plugin -> its name
          PlDaemons,      \* plugins with a Start method
          PlClosers,      \* plugins with a Close method
          PlDisabled      \* names disabled in the Plugins section of the config

VARIABLES lState, lNext, lLoaded, lInited, lInjected, lStarted, lRan, lCloses

lVars == <<lState, lNext, lLoaded, lInited, lInjected, lStarted, lRan, lCloses>>

Plugins == {PlFiles[i] : i \in DOMAIN PlFiles}

ASSUME PluginsAssumption == PlFiles \in Seq(Plugins)

LInit ==
    /\ lState = "loading" /\ lNext = 1
    /\ lLoaded = {} /\ lInited = {} /\ lInjected = {}
    /\ lStarted = {}                          \* loader.started
    /\ lRan = {}                              \* ghost: plugins whose Start succeeded
    /\ lCloses = [p \in Plugins |-> 0]        \* ghost: calls of a plugin's Close

\* Load of one plugin that succeeds: an unknown name; a disabled one is skipped.
Load(p) ==
    /\ \A q \in lLoaded : PlName[q] # PlName[p]
    /\ lLoaded' = IF PlName[p] \in PlDisabled THEN lLoaded ELSE lLoaded \cup {p}

\* NewPluginLoader loads the preloaded plugins, then those of the directory;
\* a duplicate name, or a file that does not load, ends it with no loader.
LoadNext ==
    /\ lState = "loading" /\ lNext <= Len(PlFiles)
    /\ Load(PlFiles[lNext])
    /\ lNext' = lNext + 1
    /\ UNCHANGED <<lState, lInited, lInjected, lStarted, lRan, lCloses>>

LoadFails ==
    /\ lState = "loading" /\ lNext <= Len(PlFiles)
    /\ lState' = "none"
    /\ UNCHANGED <<lNext, lLoaded, lInited, lInjected, lStarted, lRan, lCloses>>

Loaded == lNext > Len(PlFiles)

TransitionUnchecked(from) == Loaded   \* mutant: assertState is not called

\* assertState: the call is refused, and changes nothing, in any other state.
Transition(from) == Loaded /\ lState = from

Initialize ==
    /\ Transition("loading")
    /\ \E done \in SUBSET lLoaded :
          /\ lInited' = done
          /\ lState' = IF done = lLoaded THEN "initialized" ELSE "failed"
    /\ UNCHANGED <<lNext, lLoaded, lInjected, lStarted, lRan, lCloses>>

Inject ==
    /\ Transition("initialized")
    /\ \E done \in SUBSET lLoaded :
          /\ lInjected' = done
          /\ lState' = IF done = lLoaded THEN "injected" ELSE "failed"
    /\ UNCHANGED <<lNext, lLoaded, lInited, lStarted, lRan, lCloses>>

CloseUntilError(started, bad) ==   \* mutant: Close stops at the first plugin that fails to close
    /\ lCloses' = [p \in Plugins |-> lCloses[p] + IF p \in (started \cap PlClosers) \ bad THEN 1 ELSE 0]
    /\ lState' = IF bad = {} THEN "closed" ELSE "failed"
    /\ lStarted' = {}

\* Close on plugins `started`, of which `bad` return an error.
CloseAll(started, bad) ==
    /\ lCloses' = [p \in Plugins |-> lCloses[p] + IF p \in started \cap PlClosers THEN 1 ELSE 0]
    /\ lState' = IF bad = {} THEN "closed" ELSE "failed"
    /\ lStarted' = {}

Start ==
    LET daemons == lLoaded \cap PlDaemons IN
    /\ Transition("injected")
    /\ \E done \in SUBSET daemons :
          /\ lRan' = lRan \cup done
          /\ \/ /\ done = daemons
                /\ lState' = "started" /\ lStarted' = done /\ UNCHANGED lCloses
             \/ /\ done # daemons
                /\ \E bad \in SUBSET (done \cap PlClosers) : CloseAll(done, bad)
    /\ UNCHANGED <<lNext, lLoaded, lInited, lInjected>>

\* NewCoreAPI failed inside Start: the loader stays in the state starting.
StartNoAPI ==
    /\ Transition("injected")
    /\ lState' = "starting"
    /\ UNCHANGED <<lNext, lLoaded, lInited, lInjected, lStarted, lRan, lCloses>>

\* Close: a child of the node's process calls it at shutdown.
Close ==
    /\ Loaded /\ lState \notin {"failed", "closed", "none"}
    /\ \E bad \in SUBSET (lStarted \cap PlClosers) : CloseAll(lStarted, bad)
    /\ UNCHANGED <<lNext, lLoaded, lInited, lInjected, lRan>>

LNext == LoadNext \/ LoadFails \/ Initialize \/ Inject \/ Start \/ StartNoAPI \/ Close

LSpec == LInit /\ [][LNext]_lVars

-----------------------------------------------------------------------------

\* A plugin is injected only when every loaded plugin is initialised, and
\* started only when every one is injected, in whatever order a program calls
\* the methods and whichever plugin fails on the way.
PhaseOrder ==
    /\ lInjected # {} => lInited = lLoaded
    /\ lRan # {} => lInjected = lLoaded

\* When the loader has come to its end, every plugin that was started and can
\* be closed has been closed exactly once: after a failing Start, after a
\* Close during which other plugins failed, after a second Close.
EveryStartedClosed ==
    /\ \A p \in Plugins : lCloses[p] <= 1
    /\ lState \in {"closed", "failed"} => \A p \in lRan \cap PlClosers : lCloses[p] = 1

\* No plugin is injected before all are initialised or started before all are injected, and every
\* plugin that was started and can be closed has been closed exactly once when the loader ends
\* (transition, Start's failure path, Close).
PluginsKept == PhaseOrder /\ EveryStartedClosed
=============================================================================
