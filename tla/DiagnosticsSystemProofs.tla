----------------------- MODULE DiagnosticsSystemProofs -----------------------
(***************************************************************************)
(* Proofs about the node, SystemDiagnosticsNode, for every set of          *)
(* namespaces, every value of the parameters and every width of int; and   *)
(* then about the process, DiagnosticsSystem: that node, cycles and Docker *)
(* task behave in it as their own modules say, and that threads never meet *)
(* where the code has no lock.                                             *)
(***************************************************************************)
EXTENDS DiagnosticsSystem, FiniteSetTheorems, WellFoundedInduction, TLAPS

-----------------------------------------------------------------------------
(* Facts about the helpers                                                 *)

\* The map has a first key as long as it has one.
LEMMA FirstIsLeast ==
    ASSUME NEW S \in SUBSET Nat, S # {}
    PROVE  First(S) \in S /\ \A other \in S : First(S) <= other
  <1>1. PICK x \in S : \A y \in S : ~(<<y, x>> \in OpToRel(<, Nat))
    BY NatLessThanWellFounded, WFMin
  <1>2. ASSUME NEW y \in S PROVE x <= y
    <2>1. <<y, x>> \in Nat \X Nat /\ <<y, x>>[1] = y /\ <<y, x>>[2] = x
      OBVIOUS
    <2>2. y < x => <<y, x>> \in OpToRel(<, Nat)
      BY <2>1 DEF OpToRel
    <2>3. ~(y < x)
      BY <1>1, <2>2
    <2>4. QED
      BY <2>3
  <1>3. QED
    BY <1>1, <1>2 DEF First

LEMMA ElementsOfEmpty == Elements(<<>>) = {}
  BY DEF Elements

LEMMA ElementsOfAppend ==
    ASSUME NEW S, NEW seq \in Seq(S), NEW e \in S
    PROVE  /\ Append(seq, e) \in Seq(S)
           /\ Len(Append(seq, e)) = Len(seq) + 1
           /\ \A i \in 1 .. Len(seq) : Append(seq, e)[i] = seq[i]
           /\ Append(seq, e)[Len(seq) + 1] = e
           /\ Elements(Append(seq, e)) = Elements(seq) \cup {e}
  <1>1. /\ Append(seq, e) \in Seq(S)
        /\ Len(Append(seq, e)) = Len(seq) + 1
        /\ \A i \in 1 .. Len(seq) : Append(seq, e)[i] = seq[i]
        /\ Append(seq, e)[Len(seq) + 1] = e
        /\ Len(seq) \in Nat
    OBVIOUS
  <1>2. QED
    BY <1>1 DEF Elements

LEMMA ElementsInSet ==
    ASSUME NEW S, NEW seq \in Seq(S)
    PROVE  Elements(seq) \subseteq S
  BY DEF Elements

\* The conversion to int stays within int, and the thread count above zero.
LEMMA ThreadCountInRange ==
    ASSUME NodeAssumption, NEW n \in Int
    PROVE  ThreadCount(n) \in 1 .. IntHalf - 1
  <1>1. (n + IntHalf) % (2 * IntHalf) \in 0 .. 2 * IntHalf - 1
    BY DEF NodeAssumption
  <1>2. ToInt(n) \in -IntHalf .. IntHalf - 1
    BY <1>1 DEF ToInt, NodeAssumption
  <1>3. QED
    BY <1>2 DEF ThreadCount, NodeAssumption

-----------------------------------------------------------------------------
(* The inductive invariant                                                 *)

\* A node that is not configured has no tasks; instances and tasks agree; the timer
\* runs in the active state.
Resources ==
    /\ TimerIffActive
    /\ EveryInstanceIsLoaded
    /\ lifecycle \in {"unconfigured", "finalized", "destroyed"} => tasks_ = <<>>

Increasing(seq) == \A i, j \in 1 .. Len(seq) : i < j => seq[i] < seq[j]

\* Half-way through loading, what is to be loaded of the plugins visited so far has
\* been loaded, in order, and the others come later in the order.
Loading ==
    lifecycle = "configuring" =>
        /\ to_load \subseteq discover_plugins(task_names_)
        /\ \A ns \in to_load : plugin[ns] # "wrong_type"
        /\ Elements(tasks_) = ToBeLoaded(task_names_) \ to_load
        /\ Increasing(tasks_)
        /\ \A ns \in Elements(tasks_), later \in to_load : ns < later

IInv ==
    /\ TypeOK
    /\ SafeSettings
    /\ Resources
    /\ Loading

-----------------------------------------------------------------------------
(* The invariant holds initially and is preserved                          *)

LEMMA InitInvariant == NodeAssumption /\ Init => IInv
  <1> SUFFICES ASSUME NodeAssumption, Init PROVE IInv
    OBVIOUS
  <1>1. tasks \in Seq(Namespaces)
    BY DEF Init, NodeAssumption
  <1>2. TypeOK
    BY <1>1, ElementsInSet DEF Init, declare_task_parameters_from_overrides, TypeOK, NodeAssumption
  <1>3. SafeSettings
    BY DEF Init, SafeSettings, NodeAssumption
  <1>4. Resources /\ Loading
    BY ElementsOfEmpty DEF Init, Resources, TimerIffActive, EveryInstanceIsLoaded, Loading
  <1>5. QED
    BY <1>2, <1>3, <1>4 DEF IInv

\* What cleanup_tasks leaves.
LEMMA NothingLeft ==
    ASSUME IInv, cleanup_tasks
    PROVE  /\ timer_' = "none"
           /\ tasks_' = <<>>
           /\ configured' = {}
           /\ configured' = Elements(tasks_')
  BY ElementsOfEmpty DEF IInv, Resources, EveryInstanceIsLoaded, cleanup_tasks, stop_timer

LEMMA BeginConfigureInvariant == NodeAssumption /\ IInv /\ BeginConfigure => IInv'
  <1> SUFFICES ASSUME NodeAssumption, IInv, BeginConfigure PROVE IInv'
    OBVIOUS
  <1> USE DEF IInv
  <1>1. /\ timer_' = "none"
        /\ tasks_' = <<>>
        /\ configured' = {}
        /\ configured' = Elements(tasks_')
        /\ Elements(tasks_') = {}
    BY NothingLeft DEF BeginConfigure
  <1>2. tasks \in Seq(Namespaces) /\ discover_plugins(tasks) \subseteq Namespaces
    BY ElementsInSet DEF TypeOK, NodeAssumption, discover_plugins
  <1>3. num_threads_' \in 1 .. IntHalf - 1 /\ num_threads_' \in Int
    BY ThreadCountInRange DEF BeginConfigure, TypeOK, NodeAssumption
  <1>4. update_rate_' \in {"normal", "tiny", "default"}
    BY DEF BeginConfigure, Rate, TypeOK, NodeAssumption, AllRates
  <1>5. lifecycle' \in {"configuring", "errorprocessing"}
    BY DEF BeginConfigure
  <1>6. TypeOK'
    <2>1. tasks_' \in Seq(Namespaces) /\ configured' \subseteq Namespaces
      BY <1>1
    <2>2. to_load' \subseteq Namespaces
      BY <1>2 DEF BeginConfigure, TypeOK
    <2>3. main_pc' \in {"configure", "activate", "spin", "done"}
      BY DEF BeginConfigure
    <2>4. UNCHANGED <<tasks, plugin, enabled, declared, update_rate, num_threads>>
          /\ task_names_' = tasks
      BY DEF BeginConfigure, declare_node_parameters, parameters
    <2>5. QED
      BY <1>1, <1>3, <1>4, <1>5, <2>1, <2>2, <2>3, <2>4 DEF TypeOK
  <1>7. SafeSettings'
    BY <1>3, <1>4 DEF SafeSettings
  <1>8. Resources'
    BY <1>1, <1>5 DEF Resources, TimerIffActive, EveryInstanceIsLoaded
  <1>9. Loading'
    <2> SUFFICES ASSUME lifecycle' = "configuring" PROVE Loading'
      BY DEF Loading
    <2>1. /\ task_names_' = tasks
          /\ to_load' = discover_plugins(tasks)
          /\ UNCHANGED <<plugin, enabled, declared>>
          /\ \A ns \in discover_plugins(tasks) : plugin[ns] # "wrong_type"
      BY DEF BeginConfigure, declare_node_parameters, parameters
    <2>2. /\ discover_plugins(task_names_)' = discover_plugins(tasks)
          /\ ToBeLoaded(task_names_)' = ToBeLoaded(tasks)
      BY <2>1 DEF discover_plugins, ToBeLoaded, HasPlugin, is_enabled, HasEnabled, Elements
    <2>3. ToBeLoaded(tasks) \subseteq discover_plugins(tasks)
      BY DEF ToBeLoaded, discover_plugins
    <2>4. Increasing(tasks_')
      BY <1>1 DEF Increasing
    <2>5. QED
      BY <1>1, <2>1, <2>2, <2>3, <2>4 DEF Loading
  <1>10. QED
    BY <1>6, <1>7, <1>8, <1>9

\* A plugin is visited: nothing is lost if it throws, is skipped or is loaded.
LEMMA VisitInvariant == NodeAssumption /\ IInv /\ VisitPlugin => IInv'
  <1> SUFFICES ASSUME NodeAssumption, IInv, VisitPlugin PROVE IInv'
    OBVIOUS
  <1> USE DEF IInv
  <1> DEFINE ns == First(to_load)
  <1>1. /\ lifecycle = "configuring"
        /\ ns \in to_load
        /\ ns \in Nat /\ ns \in Namespaces
        /\ \A other \in to_load : ns <= other
    BY FirstIsLeast DEF VisitPlugin, TypeOK, NodeAssumption
  <1>2. /\ UNCHANGED <<main_pc, tasks, plugin, enabled, declared, update_rate, num_threads>>
        /\ UNCHANGED <<task_names_, update_rate_, num_threads_, timer_>>
        /\ discover_plugins(task_names_)' = discover_plugins(task_names_)
        /\ ToBeLoaded(task_names_)' = ToBeLoaded(task_names_)
    BY DEF VisitPlugin, parameters, settings, discover_plugins, ToBeLoaded, HasPlugin,
        is_enabled, HasEnabled, Elements
  <1>3. /\ ns \in discover_plugins(task_names_)
        /\ plugin[ns] # "wrong_type"
        /\ timer_ = "none"
    BY <1>1 DEF Loading, Resources, TimerIffActive, TypeOK
  <1>4. LoadThrows(ns) \/ SkipTask(ns) \/ LoadTask(ns)
    BY DEF VisitPlugin
  <1> HIDE DEF ns
  <1>5. CASE LoadThrows(ns)
    <2>1. TypeOK' /\ SafeSettings'
      BY <1>2, <1>5 DEF LoadThrows, TypeOK, SafeSettings
    <2>2. Resources' /\ Loading'
      BY <1>1, <1>2, <1>3, <1>5 DEF LoadThrows, Resources, TimerIffActive,
          EveryInstanceIsLoaded, Loading, Elements
    <2>3. QED
      BY <2>1, <2>2
  <1>6. CASE SkipTask(ns)
    <2>1. TypeOK' /\ SafeSettings'
      BY <1>2, <1>6 DEF SkipTask, TypeOK, SafeSettings
    <2>2. Resources'
      BY <1>1, <1>2, <1>6 DEF SkipTask, Resources, TimerIffActive, EveryInstanceIsLoaded
    <2>3. ns \notin ToBeLoaded(task_names_)
      BY <1>6 DEF SkipTask, ToBeLoaded
    <2>4. Elements(tasks_') = ToBeLoaded(task_names_) \ to_load'
      BY <1>1, <1>6, <2>3 DEF SkipTask, Loading
    <2>5. Loading'
      BY <1>1, <1>2, <1>6, <2>4 DEF SkipTask, Loading
    <2>6. QED
      BY <2>1, <2>2, <2>5
  <1>7. CASE LoadTask(ns)
    <2>1. /\ tasks_' = Append(tasks_, ns)
          /\ tasks_ \in Seq(Namespaces)
          /\ tasks_' \in Seq(Namespaces)
          /\ Len(tasks_') = Len(tasks_) + 1
          /\ \A i \in 1 .. Len(tasks_) : tasks_'[i] = tasks_[i]
          /\ tasks_'[Len(tasks_) + 1] = ns
          /\ Elements(tasks_') = Elements(tasks_) \cup {ns}
      BY <1>1, <1>7, ElementsOfAppend DEF LoadTask, TypeOK
    <2>2. TypeOK' /\ SafeSettings'
      BY <1>1, <1>2, <1>7, <2>1 DEF LoadTask, TypeOK, SafeSettings
    <2>3. Resources'
      BY <1>1, <1>2, <1>7, <2>1 DEF LoadTask, Resources, TimerIffActive, EveryInstanceIsLoaded
    <2>4. ns \in ToBeLoaded(task_names_)
      BY <1>3, <1>7 DEF LoadTask, ToBeLoaded, discover_plugins
    <2>5. Elements(tasks_') = ToBeLoaded(task_names_) \ to_load'
      BY <1>1, <1>7, <2>1, <2>4 DEF LoadTask, Loading
    <2>6. \A n \in Elements(tasks_') : n = ns \/ n < ns
      BY <1>1, <2>1 DEF Loading
    <2>7. Increasing(tasks_')
      <3> SUFFICES ASSUME NEW i \in 1 .. Len(tasks_'), NEW j \in 1 .. Len(tasks_'), i < j
                   PROVE  tasks_'[i] < tasks_'[j]
        BY DEF Increasing
      <3>1. Len(tasks_) \in Nat
        BY <2>1
      <3>2. CASE j \in 1 .. Len(tasks_)
        <4>1. i \in 1 .. Len(tasks_) /\ j \in 1 .. Len(tasks_)
          BY <3>1, <3>2
        <4>2. tasks_[i] < tasks_[j]
          BY <1>1, <4>1 DEF Loading, Increasing
        <4>3. QED
          BY <2>1, <4>1, <4>2
      <3>3. CASE j = Len(tasks_) + 1
        <4>1. i \in 1 .. Len(tasks_)
          BY <3>1, <3>3
        <4>2. tasks_[i] \in Elements(tasks_)
          BY <4>1 DEF Elements
        <4>3. tasks_[i] < ns
          BY <1>1, <4>2 DEF Loading
        <4>4. QED
          BY <2>1, <3>3, <4>1, <4>3
      <3>4. QED
        BY <2>1, <3>1, <3>2, <3>3
    <2>8. \A n \in Elements(tasks_'), later \in to_load' : n < later
      <3> SUFFICES ASSUME NEW n \in Elements(tasks_'), NEW later \in to_load'
                   PROVE  n < later
        OBVIOUS
      <3>1. later \in to_load /\ later # ns /\ later \in Nat
        BY <1>7 DEF LoadTask, TypeOK, NodeAssumption
      <3>2. ns < later
        BY <1>1, <3>1
      <3>3. CASE n = ns
        BY <3>2, <3>3
      <3>4. CASE n # ns
        BY <1>1, <2>1, <3>1, <3>4 DEF Loading
      <3>5. QED
        BY <3>3, <3>4
    <2>9. Loading'
      BY <1>1, <1>2, <1>7, <2>5, <2>7, <2>8 DEF LoadTask, Loading
    <2>10. QED
      BY <2>2, <2>3, <2>9
  <1>8. QED
    BY <1>4, <1>5, <1>6, <1>7

\* The steps that drop all tasks on the way to a state that is not configured.
LEMMA CleanupInvariant ==
    NodeAssumption /\ IInv /\ (OnCleanup \/ OnShutdown \/ OnError \/ Destroy) => IInv'
  <1> SUFFICES ASSUME NodeAssumption, IInv, OnCleanup \/ OnShutdown \/ OnError \/ Destroy
               PROVE  IInv'
    OBVIOUS
  <1> USE DEF IInv
  <1>1. /\ timer_' = "none"
        /\ tasks_' = <<>>
        /\ configured' = {}
        /\ configured' = Elements(tasks_')
    BY NothingLeft DEF OnCleanup, OnShutdown, OnError, Destroy
  <1>2. /\ lifecycle' \in {"unconfigured", "finalized", "destroyed"}
        /\ main_pc' \in {main_pc, "done"}
        /\ UNCHANGED <<parameters, settings, to_load>>
    BY DEF OnCleanup, OnShutdown, OnError, Destroy
  <1>3. tasks_' \in Seq(Namespaces) /\ configured' \subseteq Namespaces
    BY <1>1
  <1>4. TypeOK'
    BY <1>1, <1>2, <1>3 DEF TypeOK, parameters, settings
  <1>5. SafeSettings'
    BY <1>2 DEF SafeSettings, settings
  <1>6. Resources' /\ Loading'
    BY <1>1, <1>2 DEF Resources, TimerIffActive, EveryInstanceIsLoaded, Loading
  <1>7. QED
    BY <1>4, <1>5, <1>6

\* The steps that leave the tasks alone, outside of loading.
LEMMA OtherInvariant ==
    /\ NodeAssumption /\ IInv
    /\ \/ FinishConfigure \/ OnActivate \/ ActivateThrows \/ ActivateRefused
       \/ OnDeactivate \/ SetParameter \/ Done \/ UNCHANGED vars
    => IInv'
  <1> SUFFICES ASSUME NodeAssumption, IInv,
                      \/ FinishConfigure \/ OnActivate \/ ActivateThrows \/ ActivateRefused
                      \/ OnDeactivate \/ SetParameter \/ Done \/ UNCHANGED vars
               PROVE  IInv'
    OBVIOUS
  <1> USE DEF IInv, parameters, settings, loaded
  <1>1. CASE FinishConfigure
    BY <1>1 DEF FinishConfigure, TypeOK, SafeSettings, Resources, TimerIffActive,
        EveryInstanceIsLoaded, Loading, Elements
  <1>2. CASE OnActivate \/ ActivateThrows
    BY <1>2 DEF OnActivate, ActivateThrows, stop_timer, TypeOK, SafeSettings, Resources,
        TimerIffActive, EveryInstanceIsLoaded, Loading, Elements
  <1>3. CASE ActivateRefused
    BY <1>3 DEF ActivateRefused, TypeOK, SafeSettings, Resources, TimerIffActive,
        EveryInstanceIsLoaded, Loading, Elements
  <1>4. CASE OnDeactivate
    BY <1>4 DEF OnDeactivate, stop_timer, TypeOK, SafeSettings, Resources, TimerIffActive,
        EveryInstanceIsLoaded, Loading, Elements
  <1>5. CASE SetParameter
    <2>1. /\ lifecycle # "configuring"
          /\ UNCHANGED <<lifecycle, main_pc, declared, settings, loaded, timer_>>
      BY <1>5 DEF SetParameter, Spinning
    <2>2. /\ tasks' \in TaskLists
          /\ update_rate' \in Rates
          /\ num_threads' \in ThreadValues
      BY <1>5 DEF SetParameter, TypeOK
    <2>3. /\ plugin' \in [Namespaces -> AllPluginKinds]
          /\ enabled' \in [Namespaces -> AllEnabledKinds]
      BY <1>5 DEF SetParameter, TypeOK, AllPluginKinds, AllEnabledKinds
    <2>4. TypeOK'
      BY <2>1, <2>2, <2>3 DEF TypeOK
    <2>5. SafeSettings' /\ Resources' /\ Loading'
      BY <2>1 DEF SafeSettings, Resources, TimerIffActive, EveryInstanceIsLoaded, Loading,
          Elements
    <2>6. QED
      BY <2>4, <2>5
  <1>6. CASE Done \/ UNCHANGED vars
    <2>1. UNCHANGED vars
      BY <1>6 DEF Done
    <2>2. TypeOK' /\ SafeSettings' /\ Resources'
      BY <2>1 DEF vars, TypeOK, SafeSettings, Resources, TimerIffActive,
          EveryInstanceIsLoaded, Elements
    <2>3. /\ discover_plugins(task_names_)' = discover_plugins(task_names_)
          /\ ToBeLoaded(task_names_)' = ToBeLoaded(task_names_)
          /\ Elements(tasks_)' = Elements(tasks_)
          /\ Increasing(tasks_)' <=> Increasing(tasks_)
      BY <2>1 DEF vars, discover_plugins, ToBeLoaded, HasPlugin, is_enabled, HasEnabled,
          Elements, Increasing
    <2>4. Loading'
      BY <2>1, <2>3 DEF vars, Loading
    <2>5. QED
      BY <2>2, <2>4
  <1>7. QED
    BY <1>1, <1>2, <1>3, <1>4, <1>5, <1>6

LEMMA Invariance == Spec => []IInv
  <1>1. Init => IInv
    BY InitInvariant, NodeAssumption
  <1>2. IInv /\ [Next]_vars => IInv'
    BY BeginConfigureInvariant, VisitInvariant, CleanupInvariant, OtherInvariant,
        NodeAssumption DEF Next, TransitionStep
  <1>3. QED
    BY <1>1, <1>2, PTL DEF Spec

-----------------------------------------------------------------------------
(* The theorems about the node                                             *)

\* The variables keep their types.
THEOREM TypeCorrect == Spec => []TypeOK
  BY Invariance, PTL DEF IInv

\* However a node comes to be unconfigured, finalized or destroyed, it holds no timer
\* and no task, and every task instance that was configured was cleaned up.
THEOREM NothingHeldWhenIdle == Spec => []IdleNodeHoldsNothing
  <1>1. IInv => IdleNodeHoldsNothing
    BY ElementsOfEmpty DEF IInv, Resources, TimerIffActive, EveryInstanceIsLoaded,
        IdleNodeHoldsNothing, TypeOK
  <1>2. QED
    BY <1>1, Invariance, PTL

\* No configured instance escapes the next cleanup_tasks.
THEOREM InstancesAreLoaded == Spec => []EveryInstanceIsLoaded
  <1>1. IInv => EveryInstanceIsLoaded
    BY DEF IInv, Resources
  <1>2. QED
    BY <1>1, Invariance, PTL

\* The timer runs in the active state and in no other.
THEOREM TimerFollowsLifecycle == Spec => []TimerIffActive
  <1>1. IInv => TimerIffActive
    BY DEF IInv, Resources
  <1>2. QED
    BY <1>1, Invariance, PTL

\* num_threads_ is a positive int and update_rate_ a positive rate, for every width
\* of int and every value of the parameters.
THEOREM SettingsAreSafe == Spec => []SafeSettings
  <1>1. IInv => SafeSettings
    BY DEF IInv
  <1>2. QED
    BY <1>1, Invariance, PTL

\* A configuration that succeeds has loaded exactly the working, enabled plugins of
\* the list, each once and in the order of the map.
THEOREM ConfigureLoadsThePlugins == Spec => LoadedAsConfigured
  <1>1. ASSUME IInv, [Next]_vars, lifecycle = "configuring", lifecycle' = "inactive"
        PROVE  /\ Elements(tasks_) = ToBeLoaded(task_names_)
               /\ \A i, j \in 1 .. Len(tasks_) : i < j => tasks_[i] < tasks_[j]
    <2>1. to_load = {}
      BY <1>1 DEF Next, TransitionStep, VisitPlugin, LoadThrows, SkipTask, LoadTask,
          FinishConfigure, BeginConfigure, OnError, OnActivate, ActivateThrows,
          ActivateRefused, OnDeactivate, OnCleanup, OnShutdown, SetParameter, Destroy,
          Done, Spinning, vars
    <2>2. QED
      BY <1>1, <2>1 DEF IInv, Loading, Increasing
  <1>2. IInv /\ [Next]_vars => [lifecycle = "configuring" /\ lifecycle' = "inactive" =>
          /\ Elements(tasks_) = ToBeLoaded(task_names_)
          /\ \A i, j \in 1 .. Len(tasks_) : i < j => tasks_[i] < tasks_[j]]_vars
    BY <1>1
  <1>3. QED
    BY <1>2, Invariance, PTL DEF Spec, LoadedAsConfigured

-----------------------------------------------------------------------------
(* Refinement of the managed node                                          *)

\* The list that is being loaded is the one that the parameter has: no callback can
\* set another one before on_configure returns.
ListIsCurrent == lifecycle = "configuring" => task_names_ = tasks

LEMMA ListStaysCurrent == ListIsCurrent /\ [Next]_vars => ListIsCurrent'
  <1> USE DEF ListIsCurrent, parameters, settings
  <1>1. BeginConfigure => ListIsCurrent'
    BY DEF BeginConfigure, declare_node_parameters
  <1>2. ListIsCurrent /\ VisitPlugin => ListIsCurrent'
    BY DEF VisitPlugin, LoadThrows, SkipTask, LoadTask
  <1>3. /\ FinishConfigure \/ OnError \/ OnActivate \/ ActivateThrows \/ OnDeactivate
           \/ OnCleanup \/ OnShutdown \/ Destroy
        => lifecycle' # "configuring"
    BY DEF FinishConfigure, OnError, OnActivate, ActivateThrows, OnDeactivate, OnCleanup,
        OnShutdown, Destroy
  <1>4. ActivateRefused \/ SetParameter => lifecycle' # "configuring"
    BY DEF ActivateRefused, SetParameter, Spinning
  <1>5. ListIsCurrent /\ (Done \/ UNCHANGED vars) => ListIsCurrent'
    BY DEF Done, vars
  <1>6. QED
    BY <1>1, <1>2, <1>3, <1>4, <1>5 DEF Next, TransitionStep

Working == ToBeLoaded(tasks)
AbstractTasks == IF InTransition THEN <<>> ELSE tasks_

LEMMA WorkingAreNamespaces == NodeAssumption /\ TypeOK => Working \subseteq Namespaces
  BY ElementsInSet DEF TypeOK, NodeAssumption, ToBeLoaded, Working

LEMMA SameWorking == UNCHANGED parameters => Working' = Working
  BY DEF parameters, Working, ToBeLoaded, HasPlugin, is_enabled, HasEnabled, Elements

\* A step of loading, or on_error, is nothing that anybody sees.
LEMMA ManagedStutter ==
    ASSUME UNCHANGED parameters, InTransition \/ lifecycle = "unconfigured",
           InTransition' \/ lifecycle' = "unconfigured", tasks_ = <<>> \/ InTransition,
           tasks_' = <<>> \/ InTransition', UNCHANGED timer_
    PROVE  UNCHANGED Managed!vars
  <1>1. Working' = Working
    BY SameWorking
  <1>2. QED
    BY <1>1 DEF Managed!vars, Working, InTransition

LEMMA ManagedConfigure ==
    ASSUME IInv, ListIsCurrent, FinishConfigure
    PROVE  Managed!Configure
  <1>1. /\ lifecycle = "configuring" /\ lifecycle' = "inactive"
        /\ UNCHANGED <<parameters, tasks_, timer_>>
        /\ to_load = {}
    BY DEF FinishConfigure, loaded
  <1>2. Elements(tasks_) = Working /\ Increasing(tasks_)
    BY <1>1 DEF IInv, Loading, ListIsCurrent, Working
  <1>3. tasks_ \in Seq(Namespaces)
    BY DEF IInv, TypeOK
  <1>4. tasks_ \in Seq(Elements(tasks_))
    BY <1>3 DEF Elements
  <1>5. Managed!Lists(tasks_, Working)
    BY <1>2, <1>3, <1>4 DEF Managed!Lists, Elements, Increasing
  <1>6. Working' = Working
    BY <1>1, SameWorking
  <1>7. QED
    BY <1>1, <1>5, <1>6 DEF Managed!Configure, InTransition, Working

LEMMA ManagedStep ==
    ASSUME NodeAssumption, IInv, IInv', ListIsCurrent, [Next]_vars
    PROVE  [Managed!Next]_(Managed!vars)
  <1> USE DEF InTransition
  <1>1. timer_ = "armed" <=> lifecycle = "active"
    BY DEF IInv, Resources, TimerIffActive
  <1>2. /\ timer_ \in {"none", "armed"} /\ timer_' \in {"none", "armed"}
        /\ tasks' \in TaskLists
        /\ lifecycle \in {"unconfigured", "configuring", "errorprocessing", "inactive",
                          "active", "finalized", "destroyed"}
    BY DEF IInv, TypeOK
  <1>3. lifecycle = "unconfigured" => tasks_ = <<>>
    BY DEF IInv, Resources
  <1>4. CASE BeginConfigure
    <2>1. UNCHANGED <<parameters, timer_>> /\ InTransition' /\ lifecycle = "unconfigured"
      BY <1>1, <1>2, <1>4 DEF BeginConfigure, cleanup_tasks, stop_timer
    <2>2. QED
      BY <1>3, <2>1, ManagedStutter
  <1>5. CASE VisitPlugin
    BY <1>5, ManagedStutter DEF VisitPlugin, LoadThrows, SkipTask, LoadTask
  <1>6. CASE FinishConfigure
    BY <1>6, ManagedConfigure DEF Managed!Next
  <1>7. CASE OnError
    <2>1. UNCHANGED <<parameters, timer_>> /\ InTransition /\ lifecycle' = "unconfigured"
          /\ tasks_' = <<>>
      BY <1>1, <1>2, <1>7 DEF OnError, cleanup_tasks, stop_timer
    <2>2. QED
      BY <2>1, ManagedStutter
  <1>8. CASE OnActivate \/ OnDeactivate
    <2>1. Working' = Working /\ UNCHANGED tasks_
      BY <1>8, SameWorking DEF OnActivate, OnDeactivate, loaded
    <2>2. Managed!Activate \/ Managed!Deactivate
      BY <1>8, <2>1 DEF OnActivate, OnDeactivate, stop_timer, Managed!Activate,
          Managed!Deactivate, Working
    <2>3. QED
      BY <2>2 DEF Managed!Next
  <1>9. CASE ActivateThrows \/ OnCleanup \/ OnShutdown \/ Destroy
    <2>1. Working' = Working
      BY <1>9, SameWorking DEF ActivateThrows, OnCleanup, OnShutdown, Destroy
    <2>2. AbstractTasks' = <<>> /\ timer_' = "none"
      BY <1>9 DEF ActivateThrows, OnCleanup, OnShutdown, Destroy, cleanup_tasks, stop_timer,
          AbstractTasks
    <2>3. Managed!Release
      BY <2>1, <2>2 DEF Managed!Release, Working, AbstractTasks
    <2>4. Managed!Cleanup \/ Managed!Shutdown \/ Managed!Destroy
      BY <1>2, <1>9, <2>3 DEF ActivateThrows, OnCleanup, OnShutdown, Destroy, Spinning,
          Managed!Cleanup, Managed!Shutdown, Managed!Destroy
    <2>5. QED
      BY <2>4 DEF Managed!Next
  <1>10. CASE SetParameter
    <2>1. UNCHANGED <<lifecycle, tasks_, timer_>> /\ lifecycle # "destroyed"
      BY <1>10 DEF SetParameter, Spinning, loaded
    <2>2. Working' \subseteq Namespaces
      BY <1>2, ElementsInSet DEF NodeAssumption, ToBeLoaded, Working
    <2>3. Managed!SetParameter
      BY <1>2, <2>1, <2>2 DEF Managed!SetParameter, Working
    <2>4. QED
      BY <2>3 DEF Managed!Next
  <1>11. CASE ActivateRefused \/ Done \/ UNCHANGED vars
    <2>1. UNCHANGED <<lifecycle, parameters, tasks_, timer_>>
      BY <1>11 DEF ActivateRefused, Done, vars, loaded
    <2>2. Working' = Working
      BY <2>1, SameWorking
    <2>3. QED
      BY <2>1, <2>2 DEF Managed!vars, Working
  <1>12. QED
    BY <1>4, <1>5, <1>6, <1>7, <1>8, <1>9, <1>10, <1>11 DEF Next, TransitionStep

\* Every transition happens at one moment or not at all, whatever plugins and parameters
\* throw: the node implements the one without exceptions.
THEOREM TransitionsAreAtomic == Spec => ImplementsManagedNode
  <1>1. Init => Managed!Init
    <2> SUFFICES ASSUME Init PROVE Managed!Init
      OBVIOUS
    <2>1. IInv
      BY InitInvariant, NodeAssumption
    <2>2. Working \subseteq Namespaces
      BY <2>1, WorkingAreNamespaces, NodeAssumption DEF IInv
    <2>3. QED
      BY <2>2 DEF Init, Managed!Init, InTransition, Working
  <1>2. Init => ListIsCurrent
    BY DEF Init, ListIsCurrent
  <1>3. IInv /\ IInv' /\ ListIsCurrent /\ [Next]_vars => [Managed!Next]_(Managed!vars)
    BY ManagedStep, NodeAssumption
  <1>4. QED
    BY <1>1, <1>2, <1>3, ListStaysCurrent, Invariance, PTL
    DEF Spec, ImplementsManagedNode, Managed!Spec

-----------------------------------------------------------------------------
(* The components in the process                                           *)

CP == INSTANCE UpdateCycleProofs WITH
    MaxTasks <- Cardinality(Namespaces), MaxThreads <- IntHalf - 1,
    Period <- 0, MaxElapsed <- 0,
    task_count <- Len(tasks_), pc <- cycle_pc

DP == INSTANCE DockerMemoryTaskProofs WITH Samplers <- {}, pc <- docker_pc

\* What the two are told of their constants is true of them.
LEMMA ComponentAssumptions == CP!UpdateCycleAssumption /\ DP!DockerMemoryTaskAssumption
  <1>1. Cardinality(Namespaces) \in Nat
    BY NodeAssumption, FS_CardinalityType DEF NodeAssumption
  <1>2. IntHalf - 1 \in Nat \ {0}
    BY NodeAssumption DEF NodeAssumption
  <1>3. QED
    BY <1>1, <1>2, SystemAssumption DEF SystemAssumption, CP!UpdateCycleAssumption,
        DP!DockerMemoryTaskAssumption

\* The components' steps: what of the node, of a cycle and of the Docker task is
\* changed, and that no step but theirs changes it.
LEMMA StepOfNode == ASSUME [SystemNext]_system PROVE [Next]_vars
  BY DEF SystemNext, system, Callback, FinishCleanup, TimerFires, CycleGoesOn, RunnerStep,
      BeginUpdate, FinishUpdate, LeaveLoop, DockerCall, DockerWorker, DockerStep, Gone

LEMMA StepOfDocker == ASSUME [SystemNext]_system PROVE [D!Next]_(D!vars)
  <1>1. UNCHANGED docker => UNCHANGED D!vars
    BY DEF docker, D!vars, D!shared, D!thread
  <1>2. CASE UNCHANGED system
    BY <1>1, <1>2 DEF system
  <1>3. CASE Callback(Next)
    BY <1>1, <1>3 DEF Callback, DockerFollows, Enter, D!Next
  <1>4. CASE FinishCleanup
    BY <1>4 DEF FinishCleanup, D!Next
  <1>5. CASE TimerFires \/ CycleGoesOn \/ Gone
    BY <1>1, <1>5 DEF TimerFires, CycleGoesOn, Gone, system
  <1>6. ASSUME NEW t \in C!Runners, RunnerStep(t) PROVE [D!Next]_(D!vars)
    BY <1>1, <1>6 DEF RunnerStep, BeginUpdate, FinishUpdate, LeaveLoop, Enter, D!Next
  <1>7. ASSUME NEW t \in Threads, DockerCall(t) PROVE [D!Next]_(D!vars)
    BY <1>7 DEF DockerCall, DockerStep, D!Next
  <1>8. CASE DockerWorker \/ DockerStep(D!SamplerReturns)
    BY <1>8 DEF DockerWorker, DockerStep, D!Next
  <1>9. QED
    BY <1>2, <1>3, <1>4, <1>5, <1>6, <1>7, <1>8 DEF SystemNext

\* A cycle, once begun, is carried on by its own steps, with the tasks it has.
LEMMA StepOfCycle ==
    ASSUME [SystemNext]_system, cycle_pc # "idle"
    PROVE  /\ UNCHANGED tasks_
           /\ C!Next \/ UNCHANGED <<cycle, num_threads_>>
  <1>1. UNCHANGED vars => UNCHANGED <<tasks_, num_threads_>>
    BY DEF vars, loaded, settings
  <1>2. CASE UNCHANGED system
    BY <1>1, <1>2 DEF system
  <1>3. CASE Callback(Next)
    BY <1>3 DEF Callback, ExecutorIsFree
  <1>4. CASE FinishCleanup \/ Gone
    BY <1>1, <1>4 DEF FinishCleanup, Gone, system
  <1>5. CASE TimerFires \/ CycleGoesOn
    BY <1>1, <1>5 DEF TimerFires, CycleGoesOn, C!Next
  <1>6. ASSUME NEW t \in C!Runners, RunnerStep(t) PROVE C!Next /\ UNCHANGED tasks_
    BY <1>1, <1>6 DEF RunnerStep, BeginUpdate, FinishUpdate, LeaveLoop, C!Next, C!RunnerStep
  <1>7. ASSUME NEW t \in Threads, DockerCall(t) PROVE UNCHANGED <<cycle, tasks_, num_threads_>>
    BY <1>1, <1>7 DEF DockerCall, DockerStep
  <1>8. CASE DockerWorker \/ DockerStep(D!SamplerReturns)
    BY <1>1, <1>8 DEF DockerWorker, DockerStep
  <1>9. QED
    BY <1>2, <1>3, <1>4, <1>5, <1>6, <1>7, <1>8 DEF SystemNext

\* The process runs the node that SystemDiagnosticsNode describes: every theorem about
\* the node above is one about the process.
THEOREM ProcessRunsTheNode == SystemSpec => Spec
  <1>1. SystemInit => Init
    BY DEF SystemInit
  <1>2. [SystemNext]_system => [Next]_vars
    BY StepOfNode
  <1>3. QED
    BY <1>1, <1>2, PTL DEF SystemSpec, Spec

\* Whatever transitions and pools do, they call the Docker task as DockerMemoryTask
\* says it is called: what is shown of the task is true of the one in the process.
THEOREM ProcessRunsTheDockerTask == SystemSpec => D!Spec
  <1>1. SystemInit => D!Init
    BY DEF SystemInit
  <1>2. [SystemNext]_system => [D!Next]_(D!vars)
    BY StepOfDocker
  <1>3. QED
    BY <1>1, <1>2, PTL DEF SystemSpec, D!Spec

-----------------------------------------------------------------------------
(* What is shown of the components                                         *)

\* C and D are the modules that CP and DP prove about.
LEMMA SameDocker ==
    /\ D!Init => DP!Init
    /\ [D!Next]_(D!vars) => [DP!Next]_(DP!vars)
  <1> USE DEF
      D!shared, DP!shared, D!thread, DP!thread, D!sample_docker, DP!sample_docker,
      D!NoSample, DP!NoSample, D!Sample, DP!Sample, D!NoStatus, DP!NoStatus,
      D!InlineStatus, DP!InlineStatus, D!ExceptionStatus, DP!ExceptionStatus,
      D!BackgroundStatus, DP!BackgroundStatus, D!AfterLock, DP!AfterLock, D!LockIsFree,
      DP!LockIsFree, D!Join, DP!Join, D!join_background_worker,
      DP!join_background_worker, D!AfterCheck, DP!AfterCheck
  <1>1. /\ D!Init => DP!Init
        /\ D!Configure => DP!Configure
        /\ D!BeginUpdate => DP!BeginUpdate
        /\ D!SampleInline => DP!SampleInline
        /\ D!BeginSetSampler => DP!BeginSetSampler
        /\ D!ReplaceSampler => DP!ReplaceSampler
    BY DEF
      D!Init, DP!Init, D!Configure, DP!Configure, D!BeginUpdate, DP!BeginUpdate,
      D!SampleInline, DP!SampleInline, D!BeginSetSampler, DP!BeginSetSampler,
      D!ReplaceSampler, DP!ReplaceSampler
  <1>2. /\ D!CallerLocks => DP!CallerLocks
        /\ D!Check => DP!Check
        /\ D!JoinEndedWorker => DP!JoinEndedWorker
        /\ D!Recheck => DP!Recheck
        /\ D!SpawnWorker => DP!SpawnWorker
        /\ D!SpawnFails => DP!SpawnFails
        /\ D!ReadSample => DP!ReadSample
    BY DEF
      D!CallerLocks, DP!CallerLocks, D!Check, DP!Check, D!JoinEndedWorker,
      DP!JoinEndedWorker, D!Recheck, DP!Recheck, D!SpawnWorker, DP!SpawnWorker,
      D!SpawnFails, DP!SpawnFails, D!ReadSample, DP!ReadSample
  <1>3. /\ D!WorkerStarts => DP!WorkerStarts
        /\ D!SamplerReturns => DP!SamplerReturns
        /\ D!WorkerLocks => DP!WorkerLocks
        /\ D!StoreSample => DP!StoreSample
        /\ D!CountSample => DP!CountSample
        /\ D!WorkerExits => DP!WorkerExits
    BY DEF
      D!WorkerStarts, DP!WorkerStarts, D!SamplerReturns, DP!SamplerReturns,
      D!WorkerLocks, DP!WorkerLocks, D!StoreSample, DP!StoreSample, D!CountSample,
      DP!CountSample, D!WorkerExits, DP!WorkerExits
  <1>4. /\ D!BeginCleanup => DP!BeginCleanup
        /\ D!JoinForCleanup => DP!JoinForCleanup
        /\ D!ResetSample => DP!ResetSample
        /\ D!Destroy => DP!Destroy
    BY DEF
      D!BeginCleanup, DP!BeginCleanup, D!JoinForCleanup, DP!JoinForCleanup,
      D!ResetSample, DP!ResetSample, D!Destroy, DP!Destroy
  <1>5. UNCHANGED D!vars => UNCHANGED DP!vars
    BY DEF D!vars, DP!vars
  <1>6. QED
    BY <1>1, <1>2, <1>3, <1>4, <1>5 DEF
      D!Next, DP!Next, D!CallerStep, DP!CallerStep, D!UpdateStep, DP!UpdateStep,
      D!WorkerStep, DP!WorkerStep

LEMMA SameCycle ==
    /\ C!Init => CP!Init
    /\ [C!Next]_(C!vars) => [CP!Next]_(CP!vars)
  <1> USE DEF
      C!config, CP!config, C!work, CP!work, C!Tasks, CP!Tasks, C!AllRunners,
      CP!AllRunners, C!Outcomes, CP!Outcomes, C!Sequential, CP!Sequential,
      C!WorkerCount, CP!WorkerCount, C!Runners, CP!Runners, C!BlankResult,
      CP!BlankResult, C!TaskResult, CP!TaskResult, C!NoArray, CP!NoArray, C!ArrayOf,
      CP!ArrayOf, C!HasTask, CP!HasTask, C!Advanced, CP!Advanced, C!TaskTime,
      CP!TaskTime, C!AllJoined, CP!AllJoined, C!Overrun, CP!Overrun, C!vars, CP!vars
  <1>1. /\ C!Init => CP!Init
        /\ C!BeginCycle => CP!BeginCycle
        /\ C!SpawnWorker => CP!SpawnWorker
        /\ C!SpawnFails => CP!SpawnFails
        /\ C!Publish => CP!Publish
        /\ C!Tick => CP!Tick
        /\ C!Terminated => CP!Terminated
    BY DEF
      C!Init, CP!Init, C!BeginCycle, CP!BeginCycle, C!SpawnWorker, CP!SpawnWorker,
      C!SpawnFails, CP!SpawnFails, C!Publish, CP!Publish, C!Tick, CP!Tick,
      C!Terminated, CP!Terminated
  <1>2. /\ \A r : C!ClaimTask(r) => CP!ClaimTask(r)
        /\ \A r : C!ExitRunner(r) => CP!ExitRunner(r)
        /\ \A r : C!FinishTask(r) => CP!FinishTask(r)
    BY DEF
      C!ClaimTask, CP!ClaimTask, C!ExitRunner, CP!ExitRunner, C!FinishTask,
      CP!FinishTask
  <1>3. UNCHANGED C!vars => UNCHANGED CP!vars
    BY DEF C!vars, CP!vars
  <1>4. QED
    BY <1>1, <1>2, <1>3 DEF
      C!Next, CP!Next, C!RunnerStep, CP!RunnerStep

\* The Docker task of the process is as good as the one on its own.
LEMMA DockerInvariance == SystemSpec => []DP!IInv
  <1>1. DP!Init => DP!IInv
    BY ComponentAssumptions, DP!InitInvariant
  <1>2. DP!IInv /\ [DP!Next]_(DP!vars) => DP!IInv'
    BY ComponentAssumptions, DP!NextInvariant
  <1>3. SystemInit => DP!Init
    BY SameDocker DEF SystemInit
  <1>4. [SystemNext]_system => [DP!Next]_(DP!vars)
    BY StepOfDocker, SameDocker
  <1>5. QED
    BY <1>1, <1>2, <1>3, <1>4, PTL DEF SystemSpec

\* In the process, too, no thread is started over a joinable one, update() joins only
\* an ended worker, a status never mixes two samples, and cleanup() leaves nothing.
THEOREM DockerTaskIsSafe ==
    SystemSpec => [](/\ D!SpawnFindsNoWorker
                     /\ D!UpdateNeverWaitsForDocker
                     /\ D!StatusIsConsistent
                     /\ D!ReleasedByCleanup)
  <1>1. DP!IInv => /\ D!SpawnFindsNoWorker
                   /\ D!UpdateNeverWaitsForDocker
                   /\ D!StatusIsConsistent
                   /\ D!ReleasedByCleanup
    <2> SUFFICES ASSUME DP!IInv
                 PROVE  /\ D!SpawnFindsNoWorker
                        /\ D!UpdateNeverWaitsForDocker
                        /\ D!StatusIsConsistent
                        /\ D!ReleasedByCleanup
      OBVIOUS
    <2>1. D!SpawnFindsNoWorker /\ D!UpdateNeverWaitsForDocker
      BY DEF DP!IInv, DP!Flag, D!SpawnFindsNoWorker, D!UpdateNeverWaitsForDocker,
          D!Working, DP!Working
    <2>2. D!StatusIsConsistent
      BY DEF DP!IInv, DP!StatusIsConsistent, D!StatusIsConsistent
    <2>3. D!ReleasedByCleanup
      BY DEF DP!IInv, DP!Life, DP!ReleasedByCleanup, D!ReleasedByCleanup, DP!NoSample,
          D!NoSample
    <2>4. QED
      BY <2>1, <2>2, <2>3
  <1>2. QED
    BY <1>1, DockerInvariance, PTL

LEMMA NodeInvariance == SystemSpec => []IInv
  BY ProcessRunsTheNode, Invariance

-----------------------------------------------------------------------------
(* The inductive invariant of the process                                  *)

\* The loaded tasks stay in the order they were loaded in, none twice; and a node that
\* main() is done with is destroyed.
NodeInv ==
    /\ Increasing(tasks_)
    /\ main_pc = "done" => lifecycle = "destroyed"

\* A cycle is as UpdateCycle says; between two of them the tasks may be others.
CycleInv == IF cycle_pc = "idle" THEN CP!Quiet ELSE CP!IInv

\* The threads that are updating the Docker task.
Updating == {t \in Threads : runner[t] = "updating" /\ tasks_[claim[t] + 1] = Docker}

\* Who is inside the Docker task: the one thread of the cycle that has drawn its index,
\* or the executor in a cleanup, never both.  The instance is configured exactly as
\* long as the node counts it among the configured ones.
CallsInv ==
    /\ inside = {} \/ \E t \in Threads : inside = {t}
    /\ inside # {} => life \in {"configured", "cleaned"}
    /\ docker_pc \in {"cleanup_join", "reset_lock", "reset"} => executor = "cleanup"
    /\ \/ /\ executor = "waiting"
          /\ ~Dead => inside = Updating
          /\ life = IF Docker \in configured THEN "configured" ELSE "destroyed"
       \/ /\ executor = "cleanup"
          /\ cycle_pc = "idle"
          /\ inside = {0}
          /\ Docker \notin configured
          /\ life \in {"configured", "cleaned"}

LEMMA TasksAreRanks ==
    ASSUME NEW seq \in Seq(Namespaces)
    PROVE  /\ Len(seq) \in Nat
           /\ \A i \in 1 .. Len(seq) : seq[i] \in Namespaces /\ seq[i] \in Nat
  <1>1. Namespaces \subseteq Nat
    BY NodeAssumption DEF NodeAssumption
  <1>2. Len(seq) \in Nat /\ \A i \in 1 .. Len(seq) : seq[i] \in Namespaces
    OBVIOUS
  <1>3. QED
    BY <1>1, <1>2

\* No task is loaded twice: a namespace has one place among them ...
LEMMA OnePlace ==
    ASSUME NEW seq \in Seq(Namespaces), Increasing(seq),
           NEW i \in 1 .. Len(seq), NEW j \in 1 .. Len(seq), seq[i] = seq[j]
    PROVE  i = j
  <1>1. seq[i] \in Nat /\ seq[j] \in Nat
    BY TasksAreRanks
  <1>2. ~(i < j) /\ ~(j < i)
    BY <1>1 DEF Increasing
  <1>3. QED
    BY <1>2

\* ... and there are as many tasks as namespaces, at most.
LEMMA TaskCountInRange ==
    ASSUME NEW seq \in Seq(Namespaces), Increasing(seq)
    PROVE  Len(seq) \in 0 .. Cardinality(Namespaces)
  <1>1. /\ Len(seq) \in Nat
        /\ \A i \in 1 .. Len(seq) : seq[i] \in Namespaces
    BY TasksAreRanks
  <1> DEFINE f == [i \in 1 .. Len(seq) |-> seq[i]]
  <1>2. f \in [1 .. Len(seq) -> Namespaces]
    BY <1>1
  <1>3. ASSUME NEW i \in 1 .. Len(seq), NEW j \in 1 .. Len(seq), f[i] = f[j]
        PROVE  i = j
    BY <1>3, OnePlace
  <1>4. f \in Injection(1 .. Len(seq), Namespaces)
    BY <1>2, <1>3 DEF Injection, IsInjective
  <1>5. /\ Cardinality(1 .. Len(seq)) = Len(seq)
        /\ Cardinality(Namespaces) \in Nat
    <2>1. Cardinality(1 .. Len(seq)) = IF 1 > Len(seq) THEN 0 ELSE Len(seq) - 1 + 1
      BY <1>1, FS_Interval
    <2>2. Cardinality(Namespaces) \in Nat
      BY FS_CardinalityType, NodeAssumption DEF NodeAssumption
    <2>3. QED
      BY <1>1, <2>1, <2>2
  <1>6. Cardinality(1 .. Len(seq)) <= Cardinality(Namespaces)
    BY <1>4, FS_Injection, NodeAssumption DEF NodeAssumption
  <1>7. QED
    BY <1>1, <1>5, <1>6

\* Tasks are appended in order, or dropped all together.
LEMMA NodeInvStep ==
    ASSUME IInv, IInv', NodeInv, [Next]_vars
    PROVE  NodeInv'
  <1> USE DEF NodeInv, vars, loaded, parameters, settings
  <1>1. Increasing(<<>>)
    BY DEF Increasing
  <1>2. CASE BeginConfigure \/ OnError \/ OnCleanup \/ OnShutdown \/ Destroy
    BY <1>1, <1>2 DEF BeginConfigure, OnError, OnCleanup, OnShutdown, Destroy, cleanup_tasks,
        stop_timer, Spinning
  <1>3. CASE VisitPlugin
    <2>1. /\ lifecycle = "configuring"
          /\ UNCHANGED main_pc
          /\ \/ lifecycle' = "configuring"
             \/ UNCHANGED tasks_
      BY <1>3 DEF VisitPlugin, LoadThrows, SkipTask, LoadTask
    <2>2. Increasing(tasks_)'
      BY <2>1 DEF IInv, Loading, Increasing
    <2>3. QED
      BY <2>1, <2>2
  <1>4. CASE UNCHANGED vars \/ FinishConfigure \/ OnActivate \/ ActivateThrows \/ ActivateRefused
             \/ OnDeactivate \/ SetParameter \/ Done
    <2>1. UNCHANGED tasks_
      BY <1>4 DEF FinishConfigure, OnActivate, ActivateThrows, ActivateRefused, OnDeactivate,
          SetParameter, Done
    <2>2. main_pc' = "done" => lifecycle' = "destroyed"
      BY <1>4 DEF FinishConfigure, OnActivate, ActivateThrows, ActivateRefused, OnDeactivate,
          SetParameter, Spinning, Done
    <2>3. QED
      BY <2>1, <2>2 DEF Increasing
  <1>5. QED
    BY <1>2, <1>3, <1>4 DEF Next, TransitionStep

\* The timer's tick, as C and CP have it ...
LEMMA BeginSame == C!BeginCycle => CP!BeginCycle
  BY DEF C!BeginCycle, CP!BeginCycle, C!config, CP!config, C!Tasks, CP!Tasks,
      C!Sequential, CP!Sequential, C!BlankResult, CP!BlankResult, C!NoArray, CP!NoArray

\* ... is the only step that moves the pool when no cycle runs.
LEMMA CycleBegins ==
    ASSUME CycleInv, [SystemNext]_system, cycle_pc = "idle"
    PROVE  TimerFires \/ UNCHANGED cycle
  <1>1. CP!Quiet
    BY DEF CycleInv
  <1>2. \A t : ~RunnerStep(t) \/ t \notin Threads
    BY <1>1 DEF CP!Quiet, CP!AllRunners, Threads, RunnerStep, BeginUpdate, FinishUpdate,
        LeaveLoop, C!ClaimTask, C!FinishTask, C!ExitRunner
  <1>3. C!Runners \subseteq Threads
    BY <1>1, NodeAssumption DEF CP!Quiet, NodeAssumption, C!Runners, C!WorkerCount, Threads
  <1>4. ~CycleGoesOn
    BY DEF CycleGoesOn, C!SpawnWorker, C!SpawnFails, C!Publish
  <1>5. QED
    BY <1>2, <1>3, <1>4 DEF SystemNext, system, Callback, FinishCleanup, DockerCall,
        DockerWorker, DockerStep, Gone

\* A cycle begins with the pool as the last one left it; no other step touches it.
LEMMA CycleInvStep ==
    ASSUME IInv, IInv', NodeInv, NodeInv', CycleInv, [SystemNext]_system
    PROVE  CycleInv'
  <1> USE ComponentAssumptions
  <1>1. CASE cycle_pc # "idle"
    <2>1. CP!IInv
      BY <1>1 DEF CycleInv
    <2>2. [C!Next]_(C!vars)
      <3>1. UNCHANGED <<tasks_, num_threads_, cycle>> => UNCHANGED C!vars
        BY DEF cycle, C!vars, C!config, C!work
      <3>2. QED
        BY <1>1, <3>1, StepOfCycle
    <2>3. CP!IInv'
      BY <2>1, <2>2, SameCycle, CP!NextInvariant
    <2>4. cycle_pc' = "idle" => CP!Quiet'
      BY <2>3 DEF CP!IInv, CP!TypeOK, CP!RunnersExist, CP!Quiet
    <2>5. QED
      BY <2>3, <2>4 DEF CycleInv
  <1>2. CASE cycle_pc = "idle"
    <2>1. CP!Quiet
      BY <1>2 DEF CycleInv
    <2>2. CASE TimerFires
      <3>1. C!BeginCycle
        BY <2>2 DEF TimerFires
      <3>2. CP!BeginCycle
        BY <3>1, BeginSame
      <3>3. CP!IInv'
        BY <2>1, <3>2, CP!BeginInvariant
      <3>4. cycle_pc' # "idle"
        BY <3>1 DEF C!BeginCycle
      <3>5. QED
        BY <3>3, <3>4 DEF CycleInv
    <2>3. CASE UNCHANGED cycle
      <3>1. /\ Len(tasks_') \in 0 .. Cardinality(Namespaces)
            /\ num_threads_' \in 1 .. IntHalf - 1
        <4>1. tasks_' \in Seq(Namespaces) /\ Increasing(tasks_')
          BY DEF IInv, TypeOK, NodeInv, Increasing
        <4>2. QED
          BY <4>1, TaskCountInRange DEF IInv, SafeSettings
      <3>2. CP!Quiet'
        BY <2>1, <2>3, <3>1 DEF cycle, CP!Quiet, CP!AllRunners, CP!Durations
      <3>3. QED
        BY <1>2, <2>3, <3>2 DEF CycleInv, cycle
    <2>4. TimerFires \/ UNCHANGED cycle
      BY <1>2, CycleBegins
    <2>5. QED
      BY <2>2, <2>3, <2>4
  <1>3. QED
    BY <1>1, <1>2

\* What CycleInv says of the pool, whether or not a cycle runs.
LEMMA PoolFacts ==
    ASSUME CycleInv
    PROVE  /\ runner \in [Threads -> {"none", "fetch", "updating", "exited"}]
           /\ claim \in [Threads -> Nat]
           /\ cycle_pc \in {"idle", "terminated"} => \A t \in Threads : runner[t] = "none"
           /\ cycle_pc = "spawn" => runner[spawned + 1] = "none" /\ spawned + 1 \in Threads
           /\ C!Runners \subseteq Threads
           /\ cycle_pc # "idle" => next_index \in Nat
           /\ \A t \in Threads : runner[t] = "updating" =>
                claim[t] < next_index /\ claim[t] \in 0 .. Len(tasks_) - 1
  <1>1. /\ num_threads_ \in 1 .. IntHalf - 1
        /\ Len(tasks_) \in Nat
        /\ IntHalf \in Nat
    BY NodeAssumption, SystemAssumption DEF NodeAssumption, CycleInv, CP!Quiet, CP!IInv, CP!TypeOK
  <1>2. C!Runners \subseteq Threads
    BY <1>1 DEF C!Runners, C!WorkerCount, Threads
  <1>3. CASE cycle_pc = "idle"
    BY <1>2, <1>3 DEF CycleInv, CP!Quiet, CP!AllRunners, Threads
  <1>4. CASE cycle_pc # "idle"
    <2>1. CP!TypeOK /\ CP!RunnersExist /\ CP!ClaimsAreDistinct
      BY <1>4 DEF CycleInv, CP!IInv
    <2>2. ASSUME cycle_pc = "spawn"
          PROVE  runner[spawned + 1] = "none" /\ spawned + 1 \in Threads
      <3>1. /\ spawned < CP!WorkerCount
            /\ spawned \in Nat
            /\ \A r \in Threads : runner[r] # "none" <=> r \in 1 .. spawned
        BY <2>1, <2>2 DEF CP!RunnersExist, CP!TypeOK, CP!AllRunners, Threads
      <3>2. CP!WorkerCount \in 0 .. IntHalf - 1
        BY <1>1 DEF CP!WorkerCount
      <3>3. QED
        BY <1>1, <3>1, <3>2 DEF Threads
    <2>3. QED
      BY <1>2, <1>4, <2>1, <2>2 DEF CP!TypeOK, CP!RunnersExist, CP!ClaimsAreDistinct,
          CP!AllRunners, CP!Tasks, Threads
  <1>5. QED
    BY <1>3, <1>4

\* A callback of the node that drops the Docker task, or loads it, finds nobody in it.
LEMMA CallbackKeepsCalls ==
    ASSUME CycleInv, CallsInv, Callback(Next)
    PROVE  CallsInv'
  <1>1. /\ executor = "waiting"
        /\ cycle_pc = "idle" /\ cycle_pc' = "idle"
        /\ \A t \in Threads : runner[t] = "none" /\ runner'[t] = "none"
    BY PoolFacts DEF Callback, ExecutorIsFree, cycle
  <1>2. Updating = {} /\ Updating' = {} /\ inside = {}
    BY <1>1 DEF CallsInv, Updating, Dead
  <1>3. 0 \in Threads
    BY NodeAssumption DEF NodeAssumption, Threads
  <1>4. DockerFollows
    BY DEF Callback
  <1>5. CASE Docker \in configured' \ configured /\ D!Configure /\ UNCHANGED <<executor, inside>>
    BY <1>1, <1>2, <1>5 DEF CallsInv, D!Configure
  <1>6. CASE /\ Docker \in configured \ configured'
             /\ Enter(0, D!BeginCleanup)
             /\ executor' = "cleanup"
    <2>1. inside' = {0} /\ D!BeginCleanup
      BY <1>2, <1>6 DEF Enter
    <2>2. QED
      BY <1>1, <1>3, <1>6, <2>1 DEF CallsInv, D!BeginCleanup
  <1>7. CASE /\ Docker \in configured <=> Docker \in configured'
             /\ UNCHANGED <<docker, executor, inside>>
    BY <1>1, <1>2, <1>7 DEF CallsInv, docker
  <1>8. QED
    BY <1>4, <1>5, <1>6, <1>7 DEF DockerFollows

\* One thread of the pool draws the index of the Docker task.
LEMMA BeginKeepsCalls ==
    ASSUME IInv, NodeInv, CycleInv, CallsInv, NEW t \in C!Runners, BeginUpdate(t)
    PROVE  CallsInv'
  <1>1. /\ runner[t] = "fetch"
        /\ next_index < Len(tasks_)
        /\ runner' = [runner EXCEPT ![t] = "updating"]
        /\ claim' = [claim EXCEPT ![t] = next_index]
        /\ UNCHANGED <<cycle_pc, tasks_, configured, executor>>
    BY DEF BeginUpdate, C!ClaimTask, C!HasTask, vars, loaded
  <1>2. /\ t \in Threads
        /\ cycle_pc \notin {"idle", "terminated"}
        /\ next_index \in Nat
        /\ ~Dead /\ executor = "waiting" /\ inside = Updating
    BY <1>1, PoolFacts DEF CallsInv, Dead
  <1>3. tasks_ \in Seq(Namespaces) /\ Len(tasks_) \in Nat
    BY DEF IInv, TypeOK
  <1>4. \A s \in Threads \ {t} : runner'[s] = runner[s] /\ claim'[s] = claim[s]
    BY <1>1, PoolFacts
  <1>5. runner'[t] = "updating" /\ claim'[t] = next_index
    BY <1>1, <1>2, PoolFacts
  <1>6. CASE tasks_[next_index + 1] = Docker
    <2>1. Enter(t, D!BeginUpdate)
      BY <1>6 DEF BeginUpdate
    <2>2. inside = {}
      <3>1. ASSUME NEW s \in Updating PROVE FALSE
        <4>1. /\ claim[s] < next_index
              /\ claim[s] \in 0 .. Len(tasks_) - 1
              /\ tasks_[claim[s] + 1] = Docker
          BY <3>1, PoolFacts DEF Updating
        <4>2. claim[s] + 1 \in 1 .. Len(tasks_) /\ next_index + 1 \in 1 .. Len(tasks_)
          BY <1>1, <1>2, <1>3, <4>1
        <4>3. claim[s] + 1 = next_index + 1
          BY <1>3, <1>6, <4>1, <4>2, OnePlace DEF NodeInv
        <4>4. QED
          BY <1>2, <4>1, <4>3
      <3>2. QED
        BY <1>2, <3>1
    <2>3. inside' = {t} /\ D!BeginUpdate
      BY <2>1, <2>2 DEF Enter
    <2>4. Updating' = {t}
      <3>1. \A s \in Threads : s \in Updating' <=> s = t
        BY <1>1, <1>2, <1>4, <1>5, <1>6, <2>2 DEF Updating
      <3>2. Updating' \subseteq Threads
        BY DEF Updating
      <3>3. QED
        BY <1>2, <3>1, <3>2
    <2>5. QED
      BY <1>1, <1>2, <2>3, <2>4 DEF CallsInv, D!BeginUpdate, Dead
  <1>7. CASE tasks_[next_index + 1] # Docker
    <2>1. UNCHANGED <<docker, inside>>
      BY <1>7 DEF BeginUpdate
    <2>2. Updating' = Updating
      BY <1>1, <1>2, <1>4, <1>5, <1>7 DEF Updating
    <2>3. QED
      BY <1>1, <1>2, <2>1, <2>2 DEF CallsInv, docker, Dead
  <1>8. QED
    BY <1>6, <1>7

LEMMA FinishKeepsCalls ==
    ASSUME CycleInv, CallsInv, NEW t \in C!Runners, FinishUpdate(t)
    PROVE  CallsInv'
  <1>1. /\ runner[t] = "updating"
        /\ runner' = [runner EXCEPT ![t] = "fetch"]
        /\ claim' = [claim EXCEPT ![t] = 0]
        /\ UNCHANGED <<cycle_pc, tasks_, configured, executor, docker>>
    BY DEF FinishUpdate, C!FinishTask, vars, loaded
  <1>2. /\ t \in Threads
        /\ cycle_pc \notin {"idle", "terminated"}
        /\ ~Dead /\ executor = "waiting" /\ inside = Updating
    BY <1>1, PoolFacts DEF CallsInv, Dead
  <1>3. /\ \A s \in Threads \ {t} : runner'[s] = runner[s] /\ claim'[s] = claim[s]
        /\ runner'[t] = "fetch"
    BY <1>1, <1>2, PoolFacts
  <1>4. Updating' = Updating \ {t}
    BY <1>1, <1>3 DEF Updating
  <1>5. inside' = inside \ {t}
    <2>1. CASE tasks_[claim[t] + 1] = Docker
      BY <2>1 DEF FinishUpdate
    <2>2. CASE tasks_[claim[t] + 1] # Docker
      BY <1>2, <2>2 DEF FinishUpdate, Updating
    <2>3. QED
      BY <2>1, <2>2
  <1>6. inside' = {} \/ inside' = inside
    BY <1>5 DEF CallsInv
  <1>7. QED
    BY <1>1, <1>2, <1>4, <1>5, <1>6 DEF CallsInv, docker, Dead

\* The other steps of a cycle: nobody begins or ends an update.
LEMMA CycleKeepsCalls ==
    ASSUME CycleInv, CallsInv,
           TimerFires \/ CycleGoesOn \/ \E t \in C!Runners : LeaveLoop(t)
    PROVE  CallsInv'
  <1>1. UNCHANGED <<tasks_, configured, executor, inside, docker>>
    BY DEF TimerFires, CycleGoesOn, LeaveLoop, vars, loaded
  <1>2. cycle_pc \notin {"idle", "terminated"} \/ TimerFires
    BY PoolFacts DEF CycleGoesOn, LeaveLoop, C!SpawnWorker, C!SpawnFails, C!Publish,
        C!ExitRunner
  <1>3. executor = "waiting" /\ inside = Updating
    BY <1>2 DEF TimerFires, ExecutorIsFree, CallsInv, Dead
  <1>4. ~Dead' => Updating' = Updating
    <2> SUFFICES ASSUME ~Dead' PROVE Updating' = Updating
      OBVIOUS
    <2>1. UNCHANGED claim
          /\ \A t \in Threads : runner[t] = "updating" <=> runner'[t] = "updating"
      <3>1. CASE TimerFires
        BY <3>1, PoolFacts DEF TimerFires, ExecutorIsFree, C!BeginCycle
      <3>2. CASE C!SpawnWorker
        BY <3>2, PoolFacts DEF C!SpawnWorker
      <3>3. CASE C!SpawnFails
        BY <3>3 DEF C!SpawnFails, Dead
      <3>4. CASE C!Publish
        BY <3>4, PoolFacts DEF C!Publish, C!AllRunners, Threads
      <3>5. ASSUME NEW t \in C!Runners, LeaveLoop(t)
            PROVE  /\ UNCHANGED claim
                   /\ \A s \in Threads : runner[s] = "updating" <=> runner'[s] = "updating"
        BY <3>5, PoolFacts DEF LeaveLoop, C!ExitRunner
      <3>6. QED
        BY <3>1, <3>2, <3>3, <3>4, <3>5 DEF CycleGoesOn
    <2>2. QED
      BY <1>1, <2>1 DEF Updating
  <1>5. QED
    BY <1>1, <1>3, <1>4 DEF CallsInv, docker

\* Inside the Docker task: only the end of cleanup() changes what became of it.
LEMMA DockerKeepsCalls ==
    ASSUME CallsInv,
           \/ \E t \in Threads : DockerCall(t)
           \/ DockerWorker \/ DockerStep(D!SamplerReturns)
    PROVE  CallsInv'
  <1>1. UNCHANGED <<vars, executor, inside, cycle>>
    BY DEF DockerCall, DockerWorker, DockerStep
  <1>2. UNCHANGED <<tasks_, configured, cycle_pc, runner, claim>>
    BY <1>1 DEF vars, loaded, cycle
  <1>3. Updating' = Updating /\ Dead' = Dead
    BY <1>2 DEF Updating, Dead
  <1>4. \/ D!ResetSample
        \/ /\ life' = life
           /\ docker_pc' \in {"cleanup_join", "reset_lock", "reset"} =>
                docker_pc \in {"cleanup_join", "reset_lock", "reset"}
    <2>1. CASE D!CallerLocks
      <3>1. /\ docker_pc \in {"check_lock", "recheck_lock", "read_lock", "reset_lock"}
            /\ docker_pc' = D!AfterLock[docker_pc]
            /\ life' = life
        BY <2>1 DEF D!CallerLocks, D!AfterLock
      <3>2. docker_pc # "reset_lock" => docker_pc' \in {"check", "recheck", "read"}
        BY <3>1 DEF D!AfterLock
      <3>3. QED
        BY <3>1, <3>2
    <2>2. CASE D!UpdateStep
      BY <2>2 DEF D!UpdateStep, D!SampleInline, D!Check, D!AfterCheck, D!JoinEndedWorker,
          D!Recheck, D!SpawnWorker, D!SpawnFails, D!ReadSample
    <2>3. CASE D!ReplaceSampler \/ D!JoinForCleanup
      BY <2>3 DEF D!ReplaceSampler, D!JoinForCleanup
    <2>4. CASE D!WorkerStep \/ D!SamplerReturns
      BY <2>4 DEF D!WorkerStep, D!SamplerReturns, D!WorkerStarts, D!WorkerLocks,
          D!StoreSample, D!CountSample, D!WorkerExits
    <2>5. QED
      BY <2>1, <2>2, <2>3, <2>4 DEF DockerCall, DockerWorker, DockerStep, D!CallerStep
  <1>5. CASE D!ResetSample
    <2>1. docker_pc = "reset" /\ docker_pc' = "idle" /\ life' = "cleaned"
      BY <1>5 DEF D!ResetSample
    <2>2. executor = "cleanup"
      BY <2>1 DEF CallsInv
    <2>3. QED
      BY <1>1, <1>2, <2>1, <2>2 DEF CallsInv
  <1>6. CASE /\ life' = life
             /\ docker_pc' \in {"cleanup_join", "reset_lock", "reset"} =>
                  docker_pc \in {"cleanup_join", "reset_lock", "reset"}
    BY <1>1, <1>2, <1>3, <1>6 DEF CallsInv
  <1>7. QED
    BY <1>4, <1>5, <1>6

LEMMA CallsInvStep ==
    ASSUME IInv, NodeInv, CycleInv, CallsInv, [SystemNext]_system
    PROVE  CallsInv'
  <1>1. CASE UNCHANGED system
    <2>1. UNCHANGED <<tasks_, configured, cycle_pc, runner, claim, executor, inside, life, docker_pc>>
      BY <1>1 DEF system, vars, loaded, cycle, docker
    <2>2. QED
      BY <2>1 DEF CallsInv, Updating, Dead
  <1>2. CASE FinishCleanup
    <2>1. /\ executor = "cleanup" /\ executor' = "waiting"
          /\ D!Destroy
          /\ inside' = inside \ {0}
          /\ UNCHANGED <<tasks_, configured, cycle_pc, runner, claim>>
      BY <1>2 DEF FinishCleanup, vars, loaded, cycle
    <2>2. inside' = {} /\ Docker \notin configured /\ cycle_pc = "idle"
      BY <2>1 DEF CallsInv
    <2>3. Updating' = {}
      BY <2>1, <2>2, PoolFacts DEF Updating
    <2>4. docker_pc' = "idle" /\ life' = "destroyed"
      BY <2>1 DEF D!Destroy
    <2>5. QED
      BY <2>1, <2>2, <2>3, <2>4 DEF CallsInv
  <1>3. ASSUME NEW t \in C!Runners, RunnerStep(t) PROVE CallsInv'
    BY <1>3, BeginKeepsCalls, FinishKeepsCalls, CycleKeepsCalls DEF RunnerStep
  <1>4. QED
    BY <1>1, <1>2, <1>3, CallbackKeepsCalls, CycleKeepsCalls, DockerKeepsCalls
    DEF SystemNext, Gone

LEMMA SystemInvariance == SystemSpec => [](IInv /\ NodeInv /\ CycleInv /\ CallsInv)
  <1>1. SystemInit => NodeInv /\ CycleInv /\ CallsInv
    <2> SUFFICES ASSUME SystemInit PROVE NodeInv /\ CycleInv /\ CallsInv
      OBVIOUS
    <2>1. /\ tasks_ = <<>> /\ main_pc = "configure" /\ configured = {}
          /\ cycle_pc = "idle" /\ executor = "waiting" /\ inside = {}
          /\ docker_pc = "idle" /\ life = "destroyed"
      BY DEF SystemInit, Init, C!Init, D!Init
    <2>2. NodeInv
      BY <2>1 DEF NodeInv, Increasing
    <2>3. CP!Init
      BY SameCycle DEF SystemInit
    <2>4. CP!Quiet
      BY <2>3, ComponentAssumptions DEF CP!Init, CP!Quiet, CP!Durations
    <2>5. CycleInv
      BY <2>1, <2>4 DEF CycleInv
    <2>6. \A t \in Threads : runner[t] = "none"
      BY <2>1, <2>5, PoolFacts
    <2>7. CallsInv
      BY <2>1, <2>6 DEF CallsInv, Updating
    <2>8. QED
      BY <2>2, <2>5, <2>7
  <1>2. /\ IInv /\ IInv' /\ NodeInv /\ CycleInv /\ CallsInv
        /\ [SystemNext]_system
        => NodeInv' /\ CycleInv' /\ CallsInv'
    BY StepOfNode, NodeInvStep, CycleInvStep, CallsInvStep
  <1>3. QED
    BY <1>1, <1>2, NodeInvariance, PTL DEF SystemSpec

-----------------------------------------------------------------------------
(* The theorems about the process                                          *)

\* At most one thread is inside the Docker task, and only between configure() and the
\* end of cleanup(): for any namespaces, lists, parameters and number of threads, any
\* interleaving of pool and worker, and any sequence of transitions.
THEOREM DockerTaskHasOneCaller == SystemSpec => []OneCallerAtATime
  <1>1. CallsInv => OneCallerAtATime
    BY FS_EmptySet, FS_Singleton DEF CallsInv, OneCallerAtATime
  <1>2. QED
    BY <1>1, SystemInvariance, PTL

\* When main() has destroyed the node and no cleanup is under way any more, the pool is
\* gone and the Docker worker has been joined.
THEOREM ExitIsClean == SystemSpec => []NothingRunsAfterExit
  <1>1. IInv /\ NodeInv /\ CycleInv /\ CallsInv /\ DP!IInv => NothingRunsAfterExit
    <2> SUFFICES ASSUME IInv, NodeInv, CycleInv, CallsInv, DP!IInv,
                        main_pc = "done", ExecutorIsFree
                 PROVE  worker = "none" /\ \A t \in Threads : runner[t] = "none"
      BY DEF NothingRunsAfterExit
    <2>1. \A t \in Threads : runner[t] = "none"
      BY PoolFacts DEF ExecutorIsFree
    <2>2. configured = {}
      BY ElementsOfEmpty DEF NodeInv, IInv, Resources, EveryInstanceIsLoaded
    <2>3. life = "destroyed"
      BY <2>2 DEF CallsInv, ExecutorIsFree
    <2>4. worker = "none"
      BY <2>3 DEF DP!IInv, DP!Life, DP!ReleasedByCleanup
    <2>5. QED
      BY <2>1, <2>4
  <1>2. QED
    BY <1>1, SystemInvariance, DockerInvariance, PTL

\* In the cycles of the running node, as in a cycle on its own, no task is updated by
\* two threads or twice, an update has an index within the tasks, and the pool is gone
\* when the cycle is.
THEOREM CyclesAreSafe ==
    SystemSpec => [](/\ C!OneUpdatePerTask
                     /\ C!NoWorkerOutlivesCycle
                     /\ \A t \in Threads : runner[t] = "updating" =>
                            claim[t] \in 0 .. Len(tasks_) - 1)
  <1>1. CycleInv => /\ C!OneUpdatePerTask
                    /\ C!NoWorkerOutlivesCycle
                    /\ \A t \in Threads : runner[t] = "updating" =>
                            claim[t] \in 0 .. Len(tasks_) - 1
    <2> SUFFICES ASSUME CycleInv
                 PROVE  /\ C!OneUpdatePerTask
                        /\ C!NoWorkerOutlivesCycle
                        /\ \A t \in Threads : runner[t] = "updating" =>
                                claim[t] \in 0 .. Len(tasks_) - 1
      OBVIOUS
    <2>1. C!NoWorkerOutlivesCycle
      BY PoolFacts DEF C!NoWorkerOutlivesCycle, C!AllRunners, Threads
    <2>2. C!OneUpdatePerTask
      <3>1. CASE cycle_pc = "idle"
        BY <3>1, PoolFacts DEF C!OneUpdatePerTask
      <3>2. CASE cycle_pc # "idle"
        <4>1. CP!ClaimsAreDistinct
          BY <3>2 DEF CycleInv, CP!IInv
        <4>2. QED
          BY <4>1, PoolFacts DEF CP!ClaimsAreDistinct, CP!AllRunners, Threads,
              C!OneUpdatePerTask, C!BlankResult, CP!BlankResult
      <3>3. QED
        BY <3>1, <3>2
    <2>3. QED
      BY <2>1, <2>2, PoolFacts
  <1>2. QED
    BY <1>1, SystemInvariance, PTL

\* The abstract cycle of the process is the one that CP proves about.
LEMMA SamePromise ==
    [CP!Abstract!Next]_(CP!Abstract!vars) => [Promise!Next]_(Promise!vars)
  <1> USE DEF
      C!Tasks, CP!Tasks, C!AnswerOf, CP!AnswerOf, C!AbstractStage, CP!AbstractStage,
      C!AbstractReport, CP!AbstractReport
  <1>1. UNCHANGED CP!Abstract!vars => UNCHANGED Promise!vars
    BY DEF CP!Abstract!vars, Promise!vars
  <1>2. CP!Abstract!Begin => Promise!Begin
    BY DEF CP!Abstract!Begin, Promise!Begin, CP!Abstract!Tasks, Promise!Tasks,
        CP!Abstract!NoReport, Promise!NoReport
  <1>3. \A i : CP!Abstract!Update(i) => Promise!Update(i)
    BY DEF CP!Abstract!Update, Promise!Update, CP!Abstract!Outcomes, Promise!Outcomes
  <1>4. CP!Abstract!Publish => Promise!Publish
    BY DEF CP!Abstract!Publish, Promise!Publish, CP!Abstract!Tasks, Promise!Tasks,
        CP!Abstract!ReportOf, Promise!ReportOf
  <1>5. CP!Abstract!Abort => Promise!Abort
    BY DEF CP!Abstract!Abort, Promise!Abort
  <1>6. CP!Abstract!Tasks = Promise!Tasks
    BY DEF CP!Abstract!Tasks, Promise!Tasks
  <1>7. CP!Abstract!Next => Promise!Next
    BY <1>2, <1>3, <1>4, <1>5, <1>6 DEF CP!Abstract!Next, Promise!Next
  <1>8. QED
    BY <1>1, <1>7

\* Whatever transitions come between them, the cycles of the running node are abstract
\* cycles, over the tasks that are loaded when the timer fires: each of these answers
\* once, and the array has their answers in order.
THEOREM CyclesImplementThePromise == SystemSpec => CyclesKeepTheirPromise
  <1>1. ASSUME CycleInv, [SystemNext]_system, cycle_pc # "idle"
        PROVE  [Promise!Next]_(Promise!vars)
    <2>1. UNCHANGED <<tasks_, num_threads_, cycle>> => UNCHANGED C!vars
      BY DEF cycle, C!vars, C!config, C!work
    <2>2. [C!Next]_(C!vars)
      BY <1>1, <2>1, StepOfCycle
    <2>3. CP!IInv
      BY <1>1 DEF CycleInv
    <2>4. [CP!Abstract!Next]_(CP!Abstract!vars)
      BY <2>2, <2>3, SameCycle, ComponentAssumptions, CP!AbstractStep
    <2>5. QED
      BY <2>4, SamePromise
  <1>2. ASSUME CycleInv, [SystemNext]_system, cycle_pc = "idle", cycle_pc' # "idle"
        PROVE  [Promise!Next]_(Promise!vars)
    <2>1. TimerFires
      BY <1>2, CycleBegins DEF cycle
    <2>2. CP!BeginCycle
      BY <2>1, BeginSame DEF TimerFires
    <2>3. CP!Abstract!Begin
      BY <2>2, ComponentAssumptions, CP!AbstractBegin
    <2>4. QED
      BY <2>3, SamePromise DEF CP!Abstract!Next
  <1>3. CycleInv /\ [SystemNext]_system =>
          [cycle_pc # "idle" \/ cycle_pc' # "idle" => [Promise!Next]_(Promise!vars)]_system
    BY <1>1, <1>2
  <1>4. QED
    BY <1>3, SystemInvariance, PTL DEF SystemSpec, CyclesKeepTheirPromise

=============================================================================
