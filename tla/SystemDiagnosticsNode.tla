------------------------ MODULE SystemDiagnosticsNode ------------------------
(***************************************************************************)
(* The lifecycle node: its parameters, the loading of task plugins, the    *)
(* timer, and the transition callbacks, from main()'s two transitions to   *)
(* the destructor.                                                         *)
(*                                                                         *)
(* The executor runs one callback at a time (one mutually exclusive group),*)
(* so callbacks are atomic with respect to each other.  on_configure is    *)
(* still several steps, one per plugin, because it can be left in the      *)
(* middle by an exception; no other callback runs in between.              *)
(*                                                                         *)
(* A task namespace is a natural number, its place in the lexicographic    *)
(* order of the names.  A plugin parameter is abstracted to what loading   *)
(* it does, and update_rate to what 1 / update_rate is.                    *)
(***************************************************************************)
EXTENDS Integers, Sequences, FiniteSets

CONSTANTS
    Namespaces,         \* the task namespaces, as ranks
    TaskLists,          \* the values the parameter "tasks" takes
    PluginKinds,        \* what "<namespace>.plugin" is: see AllPluginKinds
    EnabledKinds,       \* what "<namespace>.enabled" is: see AllEnabledKinds
    Rates,              \* what "update_rate" is: see AllRates
    ThreadValues,       \* the values "num_threads" takes (64 bits in the code)
    IntHalf             \* int is -IntHalf .. IntHalf - 1 (2^31 in the code)

\* Not in the YAML file; a plugin that loads and configures; one that does not
\* (an unknown class, or configure() throws); a value that is not a string.
AllPluginKinds == {"none", "good", "bad", "wrong_type"}
\* Not in the YAML file; a Boolean; a value that is not a Boolean.
AllEnabledKinds == {"none", "true", "false", "wrong_type"}
\* 1 / update_rate is a period; update_rate <= 0; the period does not fit into
\* 64 bits of nanoseconds (or update_rate is NaN).
AllRates == {"normal", "nonpositive", "tiny"}

ASSUME NodeAssumption ==
    /\ Namespaces \subseteq Nat
    /\ IsFiniteSet(Namespaces)
    /\ TaskLists \subseteq Seq(Namespaces)
    /\ PluginKinds \subseteq AllPluginKinds
    /\ EnabledKinds \subseteq AllEnabledKinds
    /\ Rates \subseteq AllRates
    /\ ThreadValues \subseteq Int
    /\ IntHalf \in Nat \ {0, 1}

VARIABLES
    lifecycle,          \* the state of the managed node
    main_pc,            \* what main() does next
    tasks,              \* parameter "tasks"
    plugin,             \* parameter "<namespace>.plugin", declared or only given
    enabled,            \* parameter "<namespace>.enabled", likewise
    declared,           \* the namespaces whose given parameters were declared
    update_rate,        \* parameter "update_rate"
    num_threads,        \* parameter "num_threads"
    task_names_,        \* the members of the node that on_configure sets
    update_rate_,
    num_threads_,
    to_load,            \* the plugins that load_tasks has yet to visit
    tasks_,             \* the loaded tasks, by namespace
    configured,         \* the instances configured and not cleaned up since
    timer_              \* "none" or "armed"

parameters == <<tasks, plugin, enabled, declared, update_rate, num_threads>>
settings == <<task_names_, update_rate_, num_threads_>>
loaded == <<to_load, tasks_, configured>>
vars == <<lifecycle, main_pc, parameters, settings, loaded, timer_>>

-----------------------------------------------------------------------------

Elements(seq) == {seq[i] : i \in 1 .. Len(seq)}

\* std::map iterates in the order of its keys.
First(set) == CHOOSE ns \in set : \A other \in set : ns <= other

\* The conversion of a 64-bit integer to int.
ToInt(n) == ((n + IntHalf) % (2 * IntHalf)) - IntHalf

\* Mutant: the value is checked before it is converted.
CheckedThenConverted(n) == ToInt(IF n <= 0 THEN 1 ELSE n)

ThreadCount(n) == IF ToInt(n) <= 0 THEN 1 ELSE ToInt(n)

\* Mutant: a rate of zero or less is used as it is.
RateUnchecked(r) == r

Rate(r) == IF r = "nonpositive" THEN "default" ELSE r

\* has_parameter(ns + ".plugin") and has_parameter(ns + ".enabled")
HasPlugin(ns) == ns \in declared /\ plugin[ns] # "none"
HasEnabled(ns) == ns \in declared /\ enabled[ns] # "none"

\* get_parameter(ns + ".enabled").as_bool() throws.
EnabledIsMistyped(ns) == HasEnabled(ns) /\ enabled[ns] = "wrong_type"

is_enabled(ns) == HasEnabled(ns) => enabled[ns] = "true"

\* The keys of the map that discover_plugins returns.
discover_plugins(names) == {ns \in Elements(names) : HasPlugin(ns)}

\* The namespaces whose given parameters are declared: those of the list.
declare_task_parameters_from_overrides(names) == Elements(names)

\* The constructor declares the parameters, as far as it finds the list.
Init ==
    /\ lifecycle = "unconfigured"
    /\ main_pc = "configure"
    /\ tasks \in TaskLists
    /\ plugin \in [Namespaces -> PluginKinds]
    /\ enabled \in [Namespaces -> EnabledKinds]
    /\ declared = declare_task_parameters_from_overrides(tasks)
    /\ update_rate \in Rates
    /\ num_threads \in ThreadValues
    /\ task_names_ = tasks
    /\ update_rate_ = "default"
    /\ num_threads_ = 1
    /\ to_load = {}
    /\ tasks_ = <<>>
    /\ configured = {}
    /\ timer_ = "none"

-----------------------------------------------------------------------------

stop_timer == timer_' = "none"

\* Mutant: the tasks are dropped without being cleaned up.
DropTasks ==
    /\ stop_timer
    /\ tasks_' = <<>>
    /\ UNCHANGED configured

\* The timer stops, every loaded task is cleaned up, and all are dropped.  A cleanup()
\* that throws is logged and the loop goes on to the next task; what that instance has
\* not released its destructor does, when the list is cleared.
cleanup_tasks ==
    /\ stop_timer
    /\ tasks_' = <<>>
    /\ configured' = configured \ Elements(tasks_)

\* The parameters of the node are declared already; the list is read again.
declare_node_parameters == task_names_' = tasks

\* The executor is spinning and no callback is running.
Spinning ==
    /\ main_pc = "spin"
    /\ lifecycle \in {"unconfigured", "inactive", "active", "finalized"}

-----------------------------------------------------------------------------
(* on_configure                                                            *)

\* The parameters are read, and discover_plugins throws if a plugin parameter
\* is not a string.
BeginConfigure ==
    /\ lifecycle = "unconfigured"
    /\ main_pc \in {"configure", "spin"}
    /\ main_pc' = IF main_pc = "configure" THEN "activate" ELSE main_pc
    /\ declare_node_parameters
    /\ update_rate_' = Rate(update_rate)
    /\ num_threads_' = ThreadCount(num_threads)
    /\ cleanup_tasks
    /\ IF \E ns \in discover_plugins(tasks) : plugin[ns] = "wrong_type"
       THEN /\ lifecycle' = "errorprocessing"
            /\ UNCHANGED to_load
       ELSE /\ lifecycle' = "configuring"
            /\ to_load' = discover_plugins(tasks)
    /\ UNCHANGED parameters

\* Mutant: the exception is caught around the loop, and on_configure succeeds.
LoadingCutShort(ns) ==
    /\ EnabledIsMistyped(ns)
    /\ lifecycle' = "inactive"
    /\ to_load' = {}
    /\ UNCHANGED <<tasks_, configured>>

\* is_enabled throws if the parameter is not a Boolean: nobody catches it.
LoadThrows(ns) ==
    /\ EnabledIsMistyped(ns)
    /\ lifecycle' = "errorprocessing"
    /\ to_load' = {}
    /\ UNCHANGED <<tasks_, configured>>

\* Mutant: an instance that fails is tried again.
RetryTask(ns) ==
    /\ ~EnabledIsMistyped(ns)
    /\ is_enabled(ns) => plugin[ns] = "bad"
    /\ to_load' = IF is_enabled(ns) THEN to_load ELSE to_load \ {ns}
    /\ UNCHANGED <<lifecycle, tasks_, configured>>

\* Disabled, or the plugin cannot be created or configured: on to the next one.
SkipTask(ns) ==
    /\ ~EnabledIsMistyped(ns)
    /\ is_enabled(ns) => plugin[ns] = "bad"
    /\ to_load' = to_load \ {ns}
    /\ UNCHANGED <<lifecycle, tasks_, configured>>

\* A new instance is configured and appended.
LoadTask(ns) ==
    /\ is_enabled(ns)
    /\ plugin[ns] = "good"
    /\ tasks_' = Append(tasks_, ns)
    /\ configured' = configured \cup {ns}
    /\ to_load' = to_load \ {ns}
    /\ UNCHANGED lifecycle

VisitPlugin ==
    /\ lifecycle = "configuring"
    /\ to_load # {}
    /\ LET ns == First(to_load)
       IN  LoadThrows(ns) \/ SkipTask(ns) \/ LoadTask(ns)
    /\ UNCHANGED <<main_pc, parameters, settings, timer_>>

FinishConfigure ==
    /\ lifecycle = "configuring"
    /\ to_load = {}
    /\ lifecycle' = "inactive"
    /\ UNCHANGED <<main_pc, parameters, settings, loaded, timer_>>

-----------------------------------------------------------------------------
(* The other transitions.  The transition's callback returns SUCCESS, or   *)
(* its exception becomes ERROR and on_error follows.                       *)

\* The period is a valid one; if it overflows, the conversion is undefined and
\* may leave one that create_wall_timer accepts.
OnActivate ==
    /\ lifecycle = "inactive"
    /\ main_pc \in {"activate", "spin"}
    /\ main_pc' = "spin"
    /\ lifecycle' = "active"
    /\ timer_' = "armed"
    /\ UNCHANGED <<parameters, settings, loaded>>

\* ... or one that it rejects with an exception.
ActivateThrows ==
    /\ lifecycle = "inactive"
    /\ main_pc \in {"activate", "spin"}
    /\ update_rate_ = "tiny"
    /\ main_pc' = "spin"
    /\ lifecycle' = "errorprocessing"
    /\ stop_timer
    /\ UNCHANGED <<parameters, settings, loaded>>

\* main() asks an unconfigured node to activate, and is refused.
ActivateRefused ==
    /\ main_pc = "activate"
    /\ lifecycle = "unconfigured"
    /\ main_pc' = "spin"
    /\ UNCHANGED <<lifecycle, parameters, settings, loaded, timer_>>

OnDeactivate ==
    /\ Spinning
    /\ lifecycle = "active"
    /\ lifecycle' = "inactive"
    /\ stop_timer
    /\ UNCHANGED <<main_pc, parameters, settings, loaded>>

OnCleanup ==
    /\ Spinning
    /\ lifecycle = "inactive"
    /\ lifecycle' = "unconfigured"
    /\ cleanup_tasks
    /\ UNCHANGED <<main_pc, parameters, settings, to_load>>

OnShutdown ==
    /\ Spinning
    /\ lifecycle # "finalized"
    /\ lifecycle' = "finalized"
    /\ cleanup_tasks
    /\ UNCHANGED <<main_pc, parameters, settings, to_load>>

\* Mutant: on_error keeps what was loaded before the exception.
ErrorKeepsTasks ==
    /\ lifecycle = "errorprocessing"
    /\ lifecycle' = "unconfigured"
    /\ stop_timer
    /\ UNCHANGED <<main_pc, parameters, settings, loaded>>

OnError ==
    /\ lifecycle = "errorprocessing"
    /\ lifecycle' = "unconfigured"
    /\ cleanup_tasks
    /\ UNCHANGED <<main_pc, parameters, settings, to_load>>

\* spin() returns on a signal, whatever the state, and the node is destroyed.
Destroy ==
    /\ Spinning
    /\ main_pc' = "done"
    /\ lifecycle' = "destroyed"
    /\ cleanup_tasks
    /\ UNCHANGED <<parameters, settings, to_load>>

\* The parameter service sets a declared parameter; its type stays.
SetParameter ==
    /\ Spinning
    /\ \/ /\ tasks' \in TaskLists
          /\ UNCHANGED <<plugin, enabled, update_rate, num_threads>>
       \/ /\ \E ns \in declared :
                /\ plugin[ns] \in {"good", "bad"}
                /\ plugin' = [plugin EXCEPT ![ns] = IF @ = "good" THEN "bad" ELSE "good"]
          /\ UNCHANGED <<tasks, enabled, update_rate, num_threads>>
       \/ /\ \E ns \in declared :
                /\ enabled[ns] \in {"true", "false"}
                /\ enabled' = [enabled EXCEPT ![ns] = IF @ = "true" THEN "false" ELSE "true"]
          /\ UNCHANGED <<tasks, plugin, update_rate, num_threads>>
       \/ /\ update_rate' \in Rates
          /\ UNCHANGED <<tasks, plugin, enabled, num_threads>>
       \/ /\ num_threads' \in ThreadValues
          /\ UNCHANGED <<tasks, plugin, enabled, update_rate>>
    /\ UNCHANGED <<lifecycle, main_pc, declared, settings, loaded, timer_>>

Done ==
    /\ main_pc = "done"
    /\ UNCHANGED vars

-----------------------------------------------------------------------------

TransitionStep ==
    \/ VisitPlugin \/ FinishConfigure \/ OnError

MainStep ==
    /\ main_pc \in {"configure", "activate"}
    /\ BeginConfigure \/ OnActivate \/ ActivateThrows \/ ActivateRefused

Next ==
    \/ BeginConfigure \/ TransitionStep
    \/ OnActivate \/ ActivateThrows \/ ActivateRefused
    \/ OnDeactivate \/ OnCleanup \/ OnShutdown
    \/ SetParameter
    \/ Destroy
    \/ Done

Spec == Init /\ [][Next]_vars

\* A transition that has begun is carried through, and main() goes on: every
\* plugin's constructor and configure() return.
FairSpec == Spec /\ WF_vars(TransitionStep) /\ WF_vars(MainStep)

-----------------------------------------------------------------------------
(* Properties                                                              *)

\* The type invariant.
TypeOK ==
    /\ lifecycle \in {"unconfigured", "configuring", "errorprocessing", "inactive",
                      "active", "finalized", "destroyed"}
    /\ main_pc \in {"configure", "activate", "spin", "done"}
    /\ tasks \in TaskLists
    /\ plugin \in [Namespaces -> AllPluginKinds]
    /\ enabled \in [Namespaces -> AllEnabledKinds]
    /\ declared \subseteq Namespaces
    /\ update_rate \in Rates
    /\ num_threads \in ThreadValues
    /\ task_names_ \in TaskLists
    /\ update_rate_ \in {"normal", "tiny", "default"}
    /\ num_threads_ \in Int
    /\ to_load \subseteq Namespaces
    /\ tasks_ \in Seq(Namespaces)
    /\ configured \subseteq Namespaces
    /\ timer_ \in {"none", "armed"}

\* A node that is not configured holds nothing: no timer, no task, and no instance
\* that was configured and never cleaned up, whichever way it got there (cleanup,
\* shutdown, an exception in the middle of loading, the destructor).
IdleNodeHoldsNothing ==
    lifecycle \in {"unconfigured", "finalized", "destroyed"} =>
        /\ timer_ = "none"
        /\ tasks_ = <<>>
        /\ configured = {}

\* Every configured instance is among the loaded tasks, where cleanup_tasks will
\* find it: none is dropped uncleaned, and none is cleaned up and still updated.
EveryInstanceIsLoaded == configured = Elements(tasks_)

\* Diagnostics are published in the active state and in no other.
TimerIffActive == timer_ = "armed" <=> lifecycle = "active"

\* Whatever num_threads and update_rate are set to, the pool has at least one thread
\* (static_cast<std::size_t>(num_threads_) is no huge number) and the period is not
\* that of a rate of zero or less.
SafeSettings ==
    /\ num_threads_ \in 1 .. IntHalf - 1
    /\ update_rate_ # "nonpositive"

\* What a plugin of the list should become: exactly these are loaded.
ToBeLoaded(names) ==
    {ns \in Elements(names) : HasPlugin(ns) /\ plugin[ns] = "good" /\ is_enabled(ns)}

\* A configuration that succeeds has loaded every enabled plugin of the list that
\* works, each once, in the order of the map, although others failed or were skipped.
LoadedAsConfigured ==
    [][lifecycle = "configuring" /\ lifecycle' = "inactive" =>
        /\ Elements(tasks_) = ToBeLoaded(task_names_)
        /\ \A i, j \in 1 .. Len(tasks_) : i < j => tasks_[i] < tasks_[j]]_vars

\* Until on_configure has succeeded, and from an exception on, the node is still or
\* again an unconfigured one, in which nothing is loaded.
InTransition == lifecycle \in {"configuring", "errorprocessing"}

Managed == INSTANCE ManagedNode WITH
    state <- IF InTransition THEN "unconfigured" ELSE lifecycle,
    working <- ToBeLoaded(tasks),
    tasks <- IF InTransition THEN <<>> ELSE tasks_,
    publishing <- timer_ = "armed"

\* For whoever drives the lifecycle every transition is one step: whatever throws in
\* the middle of loading or of an activation, the node is unconfigured and empty, or
\* it has loaded all that the parameters ask for.
ImplementsManagedNode == Managed!Spec

\* Transitions end, and main() comes to spin.
TransitionsEnd ==
    lifecycle \in {"configuring", "errorprocessing"} ~>
        lifecycle \in {"inactive", "unconfigured"} /\ main_pc \in {"activate", "spin"}
=============================================================================
