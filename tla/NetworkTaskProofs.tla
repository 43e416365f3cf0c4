--------------------------- MODULE NetworkTaskProofs ---------------------------
(***************************************************************************)
(* Proofs about NetworkTask, for any interfaces and lists of them, any     *)
(* number of counters, and any thresholds.                                 *)
(***************************************************************************)
EXTENDS NetworkTask, SetInduction

-----------------------------------------------------------------------------
(* The inductive invariant                                                 *)

Levels == {OK, WARN, ERROR}
Readings == [Counters -> 0 .. MaxCounter]
Deltas == {NoDelta} \cup [Counters -> 0 .. MaxCounter]
Messages ==
    [interface : Interfaces \cup {""},
     what : Counters \cup {"state ok", "no interfaces", "carrier", "unreadable"}]
Found == [level : Levels, message : Messages]
History == [errors : [Counters -> Nat], recreated : BOOLEAN, read : BOOLEAN]
Values == [interface : Interfaces, failed : BOOLEAN, carrier : BOOLEAN, deltas : Deltas]

TypeOK ==
    /\ link \in [Interfaces -> {"absent", "down", "up"}]
    /\ counter \in [Interfaces -> Readings]
    /\ since \in [Interfaces -> History]
    /\ stage \in {"unconfigured", "idle", "updating"}
    /\ interfaces_ \in Seq(Interfaces)
    /\ require_carrier_ \in BOOLEAN
    /\ parameter \in DeltaParameters
    /\ thresholds_ = StoredThresholds(parameter)
    /\ DOMAIN previous_counters_ \subseteq Interfaces
    /\ previous_counters_ \in [DOMAIN previous_counters_ -> Readings]
    /\ level \in Levels
    /\ message \in Messages
    /\ values \in Seq(Values)

\* The loop has an interface left to look at, and it begins without a complaint.
TurnExists ==
    stage = "updating" => /\ Len(values) < Len(interfaces_)
                          /\ values = <<>> => level = OK

\* What was counted since the last read: all of it, or at least what a recreated
\* interface counts now.
NoneIsLost ==
    \A i \in DOMAIN previous_counters_, c \in Counters :
        IF since[i].recreated
          THEN counter[i][c] <= since[i].errors[c]
          ELSE counter[i][c] = previous_counters_[i][c] + since[i].errors[c]

\* A baseline is kept from the first read of an interface to the cleanup.
BaselinesAreKept ==
    stage # "unconfigured" =>
        \A i \in Interfaces : since[i].read <=> i \in DOMAIN previous_counters_

IInv ==
    /\ TypeOK
    /\ TurnExists
    /\ NoneIsLost
    /\ BaselinesAreKept
    /\ SummaryIsWorstValue

-----------------------------------------------------------------------------
(* Lemmas: thresholds and causes                                           *)

\* A negative threshold, stored as an unsigned number, is out of reach.
LEMMA ThresholdsAreStored ==
    ASSUME NEW delta \in 0 .. MaxCounter, parameter \in DeltaParameters,
           thresholds_ = StoredThresholds(parameter)
    PROVE  /\ (delta >= thresholds_.warn) = Reaches(delta, parameter.warn)
           /\ (delta >= thresholds_.error) = Reaches(delta, parameter.error)
  <1>1. /\ parameter.warn \in Int /\ parameter.error \in Int
        /\ MaxCounter \in Nat /\ TwoToThe64 \in Nat
        /\ MaxCounter < TwoToThe64 + parameter.warn
        /\ MaxCounter < TwoToThe64 + parameter.error
    BY NetworkAssumption
  <1>2. /\ thresholds_.warn = AsUnsigned(parameter.warn)
        /\ thresholds_.error = AsUnsigned(parameter.error)
    BY DEF StoredThresholds
  <1>3. ASSUME NEW t \in Int, MaxCounter < TwoToThe64 + t
        PROVE  (delta >= AsUnsigned(t)) = Reaches(delta, t)
    BY <1>1, <1>3 DEF AsUnsigned, Reaches
  <1> QED
    BY <1>1, <1>2, <1>3

\* A level and a message sum causes up: none is worse, and the message is one.
SumsUp(found, causes) ==
    /\ \A cause \in causes : cause.level <= found.level
    /\ found.level # OK =>
         [level |-> found.level, interface |-> found.message.interface,
          what |-> found.message.what] \in causes

\* What one counter of a value is a cause of.
CounterCauses(value, c) ==
    IF Reaches(value.deltas[c], parameter.error) THEN {Cause(ERROR, value, c)}
    ELSE When(Reaches(value.deltas[c], parameter.warn), {Cause(WARN, value, c)})

CarrierCauses(value) ==
    When(~value.failed /\ ~value.carrier /\ require_carrier_,
         {Cause(ERROR, value, "carrier")})

LEMMA CausesOfValue ==
    ASSUME NEW value
    PROVE  Causes(value) = When(value.failed, {Cause(ERROR, value, "unreadable")}) \cup
                           CarrierCauses(value) \cup
                           UNION {CounterCauses(value, c) : c \in DOMAIN value.deltas}
  BY DEF Causes, CarrierCauses, CounterCauses, When

LEMMA LevelsAreOrdered ==
    /\ OK \in Levels /\ WARN \in Levels /\ ERROR \in Levels
    /\ ERROR # OK /\ WARN # OK
    /\ \A l \in Levels : l <= l /\ OK <= l /\ l <= ERROR /\ l \in Int
                         /\ (l < WARN <=> l = OK) /\ (~ (l < WARN) <=> WARN <= l)
  BY DEF Levels, OK, WARN, ERROR

\* One threshold comparison takes the causes of its counter in.
LEMMA ThresholdSumsUp ==
    ASSUME TypeOK, NEW value \in Values, NEW c \in Counters,
           c \in DOMAIN value.deltas, NEW causes, \A x \in causes : x.level \in Levels,
           NEW found \in Found, SumsUp(found, causes)
    PROVE  LET after == apply_counter_threshold(found,
                            [interface |-> value.interface, what |-> c], value.deltas[c])
           IN  after \in Found /\ SumsUp(after, causes \cup CounterCauses(value, c))
  <1> DEFINE delta == value.deltas[c]
             cause == [interface |-> value.interface, what |-> c]
             after == apply_counter_threshold(found, cause, delta)
  <1>1. delta \in 0 .. MaxCounter
    BY DEF Values, Deltas, NoDelta
  <1>2. /\ (delta >= thresholds_.warn) = Reaches(delta, parameter.warn)
        /\ (delta >= thresholds_.error) = Reaches(delta, parameter.error)
    BY <1>1, ThresholdsAreStored DEF TypeOK
  <1>3. cause \in Messages
    BY DEF Values, Messages
  <1>4. found.level \in Levels /\ found.message \in Messages
    BY DEF Found
  <1> HIDE DEF delta
  <1>5. CASE Reaches(delta, parameter.error)
    <2>1. after = [level |-> ERROR, message |-> cause]
      BY <1>2, <1>5 DEF apply_counter_threshold
    <2>2. CounterCauses(value, c) = {Cause(ERROR, value, c)}
      BY <1>5 DEF CounterCauses, delta
    <2> QED
      BY <1>3, <2>1, <2>2, LevelsAreOrdered DEF delta, SumsUp, Cause, Found
  <1>6. CASE ~ Reaches(delta, parameter.error) /\ Reaches(delta, parameter.warn)
    <2>1. CounterCauses(value, c) = {Cause(WARN, value, c)}
      BY <1>6 DEF CounterCauses, When, delta
    <2>2. CASE found.level < WARN
      <3>1. after = [level |-> WARN, message |-> cause] /\ found.level = OK
        BY <1>2, <1>4, <1>6, <2>2, LevelsAreOrdered DEF apply_counter_threshold
      <3>2. \A x \in causes : x.level <= OK
        BY <3>1 DEF SumsUp
      <3>3. \A x \in causes : x.level <= WARN
        BY <3>2 DEF Levels, OK, WARN, ERROR
      <3> QED
        BY <1>3, <2>1, <3>1, <3>3, LevelsAreOrdered DEF delta, SumsUp, Cause, Found
    <2>3. CASE ~ (found.level < WARN)
      <3>1. after = found
        BY <1>2, <1>6, <2>3 DEF apply_counter_threshold
      <3>2. WARN <= found.level
        BY <1>4, <2>3, LevelsAreOrdered
      <3> QED
        BY <2>1, <3>1, <3>2 DEF delta, SumsUp, Cause
    <2> QED
      BY <2>2, <2>3
  <1>7. CASE ~ Reaches(delta, parameter.error) /\ ~ Reaches(delta, parameter.warn)
    <2>1. after = found
      BY <1>2, <1>7 DEF apply_counter_threshold
    <2>2. CounterCauses(value, c) = {}
      BY <1>7 DEF CounterCauses, When, delta
    <2> QED
      BY <2>1, <2>2 DEF delta
  <1> QED
    BY <1>5, <1>6, <1>7

-----------------------------------------------------------------------------
(* Lemmas: the loop over the counters of one interface                     *)

\* The value that ReadInterface publishes of interface i.
ReadValue(i, deltas) ==
    [interface |-> i, failed |-> FALSE, carrier |-> link[i] = "up", deltas |-> deltas]

LEMMA CounterNamesType ==
    /\ Len(CounterNames) \in Nat
    /\ \A n \in 1 .. Len(CounterNames) : CounterNames[n] \in Counters
    /\ Counters = {CounterNames[n] : n \in 1 .. Len(CounterNames)}
  <1>1. DOMAIN CounterNames = 1 .. Len(CounterNames) /\ Len(CounterNames) \in Nat
    BY NetworkAssumption
  <1> QED
    BY <1>1 DEF Counters

LEMMA CausesHaveLevels ==
    ASSUME NEW value
    PROVE  \A x \in Causes(value) : x.level \in Levels
  BY CausesOfValue, LevelsAreOrdered DEF CarrierCauses, CounterCauses, When, Cause

\* The lost carrier is taken in before the counters.
LEMMA CarrierSumsUp ==
    ASSUME TypeOK, NEW i \in Interfaces, NEW deltas, NEW causes,
           SumsUp([level |-> level, message |-> message], causes),
           \A x \in causes : x.level \in Levels
    PROVE  /\ AfterCarrier(i) \in Found
           /\ SumsUp(AfterCarrier(i), causes \cup CarrierCauses(ReadValue(i, deltas)))
  <1> DEFINE value == ReadValue(i, deltas)
  <1>1. ~ value.failed /\ value.carrier = (link[i] = "up") /\ value.interface = i
    BY DEF ReadValue
  <1> HIDE DEF value
  <1>2. CASE require_carrier_ /\ link[i] # "up"
    <2>1. AfterCarrier(i) = [level |-> ERROR,
                             message |-> [interface |-> i, what |-> "carrier"]]
      BY <1>2 DEF AfterCarrier
    <2>2. CarrierCauses(value) = {Cause(ERROR, value, "carrier")}
      BY <1>1, <1>2 DEF CarrierCauses, When
    <2> QED
      <3>1. AfterCarrier(i) \in Found
        <4>1. [interface |-> i, what |-> "carrier"] \in Messages
          BY DEF Messages
        <4> QED
          BY <2>1, <4>1, LevelsAreOrdered DEF Found
      <3>2. \A x \in causes \cup CarrierCauses(value) : x.level <= ERROR
        BY <2>2, LevelsAreOrdered DEF Cause
      <3>3. SumsUp(AfterCarrier(i), causes \cup CarrierCauses(value))
        BY <1>1, <2>1, <2>2, <3>2 DEF SumsUp, Cause
      <3> QED
        BY <3>1, <3>3 DEF value
  <1>3. CASE ~ (require_carrier_ /\ link[i] # "up")
    <2>1. AfterCarrier(i) = [level |-> level, message |-> message]
      BY <1>3 DEF AfterCarrier
    <2>2. CarrierCauses(value) = {}
      BY <1>1, <1>3 DEF CarrierCauses, When
    <2> QED
      BY <2>1, <2>2 DEF value, SumsUp, Found, TypeOK
  <1> QED
    BY <1>2, <1>3

\* One turn of the loop over the counters.
Turn(i, deltas, n, found) ==
    apply_counter_threshold(found, [interface |-> i, what |-> CounterNames[n]],
                            deltas[CounterNames[n]])

LEMMA TurnType ==
    ASSUME NEW i \in Interfaces, NEW deltas, NEW n \in 1 .. Len(CounterNames),
           NEW found \in Found
    PROVE  Turn(i, deltas, n, found) \in Found
  BY CounterNamesType, LevelsAreOrdered DEF Turn, apply_counter_threshold, Found, Messages

LEMMA CounterLoop ==
    ASSUME TypeOK, NEW i \in Interfaces, NEW deltas, AfterCarrier(i) \in Found
    PROVE  \E g : /\ g[0] = AfterCarrier(i)
                  /\ \A n \in 1 .. Len(CounterNames) : g[n] = Turn(i, deltas, n, g[n - 1])
                  /\ AfterCounters(i, deltas) = g[Len(CounterNames)]
  <1> DEFINE N == Len(CounterNames)
             V == Found
             base == AfterCarrier(i)
  <1>1. N \in Nat /\ base \in V
    BY CounterNamesType
  <1>2. \A n \in 1 .. N : \A v \in V : Turn(i, deltas, n, v) \in V
    BY TurnType
  <1> HIDE DEF N, V, base
  <1> DEFINE F == [n \in 1 .. N |-> [v \in V |-> Turn(i, deltas, n, v)]]
  <1>3. F \in [1 .. N -> [V -> V]]
    BY <1>2
  <1>4. \A n \in 1 .. N : \A v \in V : F[n][v] = Turn(i, deltas, n, v)
    OBVIOUS
  <1> HIDE DEF F
  <1>5. PICK g : IsLoop(g, N, V, base, F)
    BY <1>1, <1>3, LoopExists
  <1>6. g \in [0 .. N -> V] /\ g[0] = base
    BY <1>5 DEF IsLoop
  <1>7. ASSUME NEW n \in 1 .. N
        PROVE  g[n] = Turn(i, deltas, n, g[n - 1])
    <2>1. n - 1 \in 0 .. N
      BY <1>1
    <2>2. g[n] = F[n][g[n - 1]]
      BY <1>5 DEF IsLoop
    <2> QED
      BY <1>4, <1>6, <2>1, <2>2
  <1> DEFINE Solves(h) == h = [n \in 0 .. N |->
                                 IF n = 0 THEN base ELSE Turn(i, deltas, n, h[n - 1])]
             after == CHOOSE h : Solves(h)
  <1>8. Solves(g)
    <2>1. \A n \in 0 .. N : g[n] = IF n = 0 THEN base ELSE Turn(i, deltas, n, g[n - 1])
      BY <1>1, <1>6, <1>7
    <2> QED
      BY <1>6, <2>1
  <1>9. Solves(after)
    <2> HIDE DEF Solves
    <2> QED
      BY <1>8
  <1>10. AfterCounters(i, deltas) = after[N]
    BY DEF AfterCounters, Turn, N, base
  <1> HIDE DEF after
  <1>11. /\ after[0] = base
         /\ \A n \in 1 .. N : after[n] = Turn(i, deltas, n, after[n - 1])
    BY <1>1, <1>9
  <1> QED
    BY <1>10, <1>11 DEF N, base

\* After the loop, all causes of the interface are taken in.
LEMMA CountersSumUp ==
    ASSUME TypeOK, NEW i \in Interfaces, NEW deltas \in [Counters -> 0 .. MaxCounter],
           NEW causes, \A x \in causes : x.level \in Levels,
           SumsUp([level |-> level, message |-> message], causes)
    PROVE  /\ AfterCounters(i, deltas) \in Found
           /\ SumsUp(AfterCounters(i, deltas), causes \cup Causes(ReadValue(i, deltas)))
  <1> DEFINE value == ReadValue(i, deltas)
             N == Len(CounterNames)
             base == causes \cup CarrierCauses(value)
             upTo(n) == base \cup UNION {CounterCauses(value, CounterNames[k]) : k \in 1 .. n}
             J == [n \in 0 .. N |-> {found \in Found : SumsUp(found, upTo(n))}]
  <1>1. N \in Nat
    BY CounterNamesType
  <1>2. AfterCarrier(i) \in Found /\ SumsUp(AfterCarrier(i), base)
    BY CarrierSumsUp
  <1>3. value \in Values /\ value.interface = i /\ value.deltas = deltas /\ ~ value.failed
    BY DEF ReadValue, Values, Deltas, TypeOK
  <1> HIDE DEF value
  <1>4. \A n : \A x \in upTo(n) : x.level \in Levels
    BY LevelsAreOrdered DEF CarrierCauses, CounterCauses, When, Cause
  <1>5. PICK g : /\ g[0] = AfterCarrier(i)
                 /\ \A n \in 1 .. N : g[n] = Turn(i, deltas, n, g[n - 1])
                 /\ AfterCounters(i, deltas) = g[N]
    BY <1>2, CounterLoop
  <1>6. upTo(0) = base
    OBVIOUS
  <1>7. ASSUME NEW n \in 1 .. N
        PROVE  upTo(n) = upTo(n - 1) \cup CounterCauses(value, CounterNames[n])
    <2>1. 1 .. n = (1 .. n - 1) \cup {n}
      BY <1>1
    <2> QED
      BY <2>1
  <1> HIDE DEF upTo
  <1>8. g[0] \in J[0]
    <2>1. 0 \in 0 .. N
      BY <1>1
    <2>2. g[0] \in Found /\ SumsUp(g[0], upTo(0))
      BY <1>2, <1>5, <1>6
    <2> QED
      BY <2>1, <2>2
  <1>9. ASSUME NEW n \in 1 .. N, g[n - 1] \in J[n - 1]
        PROVE  g[n] \in J[n]
    <2>1. n - 1 \in 0 .. N
      BY <1>1
    <2>2. g[n - 1] \in Found /\ SumsUp(g[n - 1], upTo(n - 1))
      BY <1>9, <2>1
    <2>3. CounterNames[n] \in Counters /\ CounterNames[n] \in DOMAIN value.deltas
      BY <1>3, CounterNamesType
    <2>4. g[n] = apply_counter_threshold(g[n - 1],
                     [interface |-> value.interface, what |-> CounterNames[n]],
                     value.deltas[CounterNames[n]])
      BY <1>3, <1>5 DEF Turn
    <2>5. g[n] \in Found /\ SumsUp(g[n], upTo(n))
      <3>1. upTo(n) = upTo(n - 1) \cup CounterCauses(value, CounterNames[n])
        BY <1>7
      <3>2. \A x \in upTo(n - 1) : x.level \in Levels
        BY <1>4
      <3> DEFINE c == CounterNames[n]
                 before == g[n - 1]
                 known == upTo(n - 1)
      <3>3. /\ c \in Counters /\ c \in DOMAIN value.deltas
            /\ before \in Found /\ SumsUp(before, known)
            /\ \A x \in known : x.level \in Levels
        BY <2>2, <2>3, <3>2
      <3> HIDE DEF c, before, known
      <3>4. LET after == apply_counter_threshold(before,
                            [interface |-> value.interface, what |-> c], value.deltas[c])
            IN  after \in Found /\ SumsUp(after, known \cup CounterCauses(value, c))
        BY <1>3, <3>3, ThresholdSumsUp
      <3> QED
        BY <2>4, <3>1, <3>4 DEF c, before, known
    <2> QED
      BY <2>5
  <1>10. \A n \in 0 .. N : g[n] \in J[n]
    <2> HIDE DEF J, N
    <2> QED
      BY <1>1, <1>8, <1>9, LoopKeeps
  <1>11. upTo(N) = causes \cup Causes(value)
    <2>1. UNION {CounterCauses(value, CounterNames[k]) : k \in 1 .. N} =
            UNION {CounterCauses(value, c) : c \in DOMAIN value.deltas}
      BY <1>3, CounterNamesType
    <2>2. When(value.failed, {Cause(ERROR, value, "unreadable")}) = {}
      BY <1>3 DEF When
    <2> QED
      BY <2>1, <2>2, CausesOfValue DEF upTo
  <1>12. g[N] \in Found /\ SumsUp(g[N], upTo(N))
    BY <1>1, <1>10
  <1> QED
    BY <1>5, <1>11, <1>12 DEF value

-----------------------------------------------------------------------------
(* The invariant holds, and every step keeps it.                           *)

LEMMA InitIInv == Init => IInv
  <1> SUFFICES ASSUME Init
               PROVE  IInv
    OBVIOUS
  <1>1. Zero \in Readings /\ Zero \in [Counters -> Nat]
    BY NetworkAssumption DEF Zero, Readings
  <1>2. StateOk \in Messages
    BY DEF StateOk, Messages
  <1>3. NothingSince \in [Interfaces -> History]
    BY <1>1 DEF NothingSince, History
  <1>4. DOMAIN NothingSampled = {} /\ NothingSampled \in [{} -> Readings]
    BY DEF NothingSampled
  <1>5. TypeOK
    BY <1>1, <1>2, <1>3, <1>4 DEF Init, TypeOK, Levels
  <1> QED
    BY <1>4, <1>5 DEF Init, IInv, TurnExists, NoneIsLost, BaselinesAreKept, SummaryIsWorstValue

\* What a new value does to the causes of the published ones.
LEMMA CausesOfNewValue ==
    ASSUME TypeOK, NEW value, UNCHANGED <<parameter, require_carrier_>>,
           value \in Values, values' = Append(values, value)
    PROVE  /\ values' \in Seq(Values) /\ values' # <<>>
           /\ Len(values') = Len(values) + 1 /\ values'[Len(values')] = value
           /\ AllCauses' = AllCauses \cup Causes(value)
  <1>1. /\ Len(values) \in Nat /\ DOMAIN values = 1 .. Len(values)
        /\ values' \in Seq(Values) /\ DOMAIN values' = 1 .. Len(values) + 1
        /\ Len(values') = Len(values) + 1
        /\ \A n \in 1 .. Len(values) : values'[n] = values[n]
        /\ values'[Len(values) + 1] = value
    BY DEF TypeOK
  <1>2. \A v : Causes(v)' = Causes(v)
    BY DEF Causes, Cause, Reaches, When
  <1>3. AllCauses' = UNION {Causes(values'[n]) : n \in 1 .. Len(values) + 1}
    BY <1>1, <1>2 DEF AllCauses
  <1>4. AllCauses = UNION {Causes(values[n]) : n \in 1 .. Len(values)}
    BY <1>1 DEF AllCauses
  <1>5. 1 .. Len(values) + 1 = (1 .. Len(values)) \cup {Len(values) + 1}
    BY <1>1
  <1>6. AllCauses' = AllCauses \cup Causes(value)
    <2>1. AllCauses' = (UNION {Causes(values'[n]) : n \in 1 .. Len(values)})
                       \cup Causes(values'[Len(values) + 1])
      BY <1>3, <1>5
    <2> QED
      BY <1>1, <1>4, <2>1
  <1>7. values' # <<>>
    BY <1>1
  <1> QED
    BY <1>1, <1>6, <1>7

\* In the loop the level and the message sum up what was published.
LEMMA SummaryInLoop ==
    ASSUME IInv, stage = "updating"
    PROVE  /\ SumsUp([level |-> level, message |-> message], AllCauses)
           /\ \A x \in AllCauses : x.level \in Levels
  <1>1. CASE values = <<>>
    <2>1. AllCauses = {} /\ level = OK
      BY <1>1 DEF AllCauses, IInv, TurnExists
    <2> QED
      BY <2>1 DEF SumsUp
  <1>2. CASE values # <<>>
    <2>1. SumsUp([level |-> level, message |-> message], AllCauses)
      BY <1>2 DEF IInv, SummaryIsWorstValue, SumsUp
    <2> QED
      BY <2>1, CausesHaveLevels DEF AllCauses
  <1>3. \A x \in AllCauses : x.level \in Levels
    BY CausesHaveLevels DEF AllCauses
  <1> QED
    BY <1>1, <1>2, <1>3

LEMMA TurnKeepsSummary ==
    ASSUME IInv, stage = "updating", NEW value \in Values,
           UNCHANGED <<parameter, require_carrier_>>,
           values' = Append(values, value),
           SumsUp([level |-> level', message |-> message'], AllCauses \cup Causes(value))
    PROVE  SummaryIsWorstValue'
  <1>1. AllCauses' = AllCauses \cup Causes(value)
    BY CausesOfNewValue DEF IInv
  <1> QED
    BY <1>1 DEF SumsUp, SummaryIsWorstValue

LEMMA CurrentType ==
    ASSUME IInv, stage = "updating"
    PROVE  Current \in Interfaces
  BY DEF Current, IInv, TypeOK, TurnExists

LEMMA DeltasType ==
    ASSUME TypeOK, NEW i \in DOMAIN previous_counters_
    PROVE  DeltasOf(i) \in [Counters -> 0 .. MaxCounter]
  <1>1. /\ MaxCounter \in Nat
        /\ \A c \in Counters : /\ counter[i][c] \in 0 .. MaxCounter
                               /\ previous_counters_[i][c] \in 0 .. MaxCounter
    BY NetworkAssumption DEF TypeOK, Readings
  <1> QED
    BY <1>1 DEF DeltasOf, counter_delta

LEMMA AfterLoopKeepsTurn ==
    ASSUME IInv, stage = "updating", AfterLoop, interfaces_' = interfaces_,
           NEW value \in Values, values' = Append(values, value)
    PROVE  stage' \in {"unconfigured", "idle", "updating"} /\ TurnExists'
  <1>1. /\ Len(values) \in Nat /\ Len(interfaces_) \in Nat
        /\ Len(values') = Len(values) + 1 /\ values' # <<>>
        /\ Len(values) < Len(interfaces_)
    <2>1. values \in Seq(Values) /\ interfaces_ \in Seq(Interfaces)
      BY DEF IInv, TypeOK
    <2>2. Len(values) \in Nat /\ Len(interfaces_) \in Nat
      BY <2>1
    <2>3. Len(values') = Len(values) + 1 /\ values' # <<>>
      BY <2>1
    <2> QED
      BY <2>2, <2>3 DEF IInv, TurnExists
  <1> QED
    BY <1>1 DEF AfterLoop, TurnExists

LEMMA FailKeepsIInv ==
    ASSUME IInv, FailInterface
    PROVE  IInv'
  <1> DEFINE value == [interface |-> Current, failed |-> TRUE, carrier |-> FALSE,
                       deltas |-> NoDelta]
  <1>1. /\ stage = "updating" /\ level' = ERROR
        /\ message' = [interface |-> Current, what |-> "unreadable"]
        /\ values' = Append(values, value)
        /\ AfterLoop
        /\ UNCHANGED <<kernel, since, settings, history>>
    BY DEF FailInterface, BaselinesStay, history
  <1> USE DEF kernel, settings, history
  <1>2. Current \in Interfaces
    BY <1>1, CurrentType
  <1>3. value \in Values
    BY <1>2 DEF Values, Deltas
  <1>4. Causes(value) = {Cause(ERROR, value, "unreadable")}
    <2>1. DOMAIN value.deltas = {}
      BY DEF NoDelta
    <2> QED
      BY <2>1, CausesOfValue DEF CarrierCauses, When
  <1>5. value.interface = Current
    OBVIOUS
  <1> HIDE DEF value
  <1>6. SumsUp([level |-> level', message |-> message'], AllCauses \cup Causes(value))
    <2>1. \A x \in AllCauses : x.level \in Levels
      BY <1>1, SummaryInLoop
    <2>2. \A x \in AllCauses \cup Causes(value) : x.level <= ERROR
      BY <1>4, <2>1, LevelsAreOrdered DEF Cause
    <2> QED
      BY <1>1, <1>4, <1>5, <2>2 DEF SumsUp, Cause
  <1>7. SummaryIsWorstValue'
    BY <1>1, <1>3, <1>6, TurnKeepsSummary
  <1>8. stage' \in {"unconfigured", "idle", "updating"} /\ TurnExists'
    BY <1>1, <1>3, AfterLoopKeepsTurn
  <1>9. TypeOK'
    <2>1. message' \in Messages
      BY <1>1, <1>2 DEF Messages
    <2>2. values' \in Seq(Values)
      BY <1>1, <1>3 DEF IInv, TypeOK
    <2> QED
      BY <1>1, <1>8, <2>1, <2>2, LevelsAreOrdered DEF IInv, TypeOK
  <1>10. NoneIsLost' /\ BaselinesAreKept'
    BY <1>1 DEF IInv, NoneIsLost, BaselinesAreKept
  <1> QED
    BY <1>7, <1>8, <1>9, <1>10 DEF IInv

LEMMA ReadKeepsIInv ==
    ASSUME IInv, ReadInterface
    PROVE  IInv'
  <1> DEFINE i == Current
             deltas == IF i \in DOMAIN previous_counters_ THEN DeltasOf(i) ELSE NoDelta
             found == IF deltas = NoDelta THEN AfterCarrier(i) ELSE AfterCounters(i, deltas)
             value == ReadValue(i, deltas)
  <1>1. /\ stage = "updating"
        /\ level' = found.level /\ message' = found.message
        /\ values' = Append(values, value)
        /\ previous_counters_' =
               [j \in DOMAIN previous_counters_ \union {i} |->
                    IF j = i THEN counter[i] ELSE previous_counters_[j]]
        /\ since' = [since EXCEPT ![i] = [errors |-> Zero, recreated |-> FALSE,
                                         read |-> TRUE]]
        /\ AfterLoop
        /\ UNCHANGED <<kernel, settings, sample_count_>>
    BY DEF ReadInterface, ReadValue
  <1>2. i \in Interfaces
    BY <1>1, CurrentType
  <1>3. deltas \in Deltas
    <2>1. i \in DOMAIN previous_counters_ => DeltasOf(i) \in [Counters -> 0 .. MaxCounter]
      BY DeltasType DEF IInv
    <2> QED
      BY <2>1 DEF Deltas
  <1> HIDE DEF i, deltas
  <1>4. value \in Values
    BY <1>2, <1>3 DEF Values, ReadValue, IInv, TypeOK
  <1>5. /\ SumsUp([level |-> level, message |-> message], AllCauses)
        /\ \A x \in AllCauses : x.level \in Levels
    BY <1>1, SummaryInLoop
  <1>6. found \in Found /\ SumsUp(found, AllCauses \cup Causes(value))
    <2>1. CASE deltas = NoDelta
      <3>1. Causes(value) = CarrierCauses(value)
        <4>1. DOMAIN value.deltas = {} /\ ~ value.failed
          BY <2>1 DEF ReadValue, NoDelta
        <4> QED
          BY <4>1, CausesOfValue DEF When
      <3> QED
        BY <1>2, <1>5, <2>1, <3>1, CarrierSumsUp DEF IInv
    <2>2. CASE deltas # NoDelta
      <3>1. deltas \in [Counters -> 0 .. MaxCounter]
        BY <1>3, <2>2 DEF Deltas
      <3> QED
        BY <1>2, <1>5, <2>2, <3>1, CountersSumUp DEF IInv
    <2> QED
      BY <2>1, <2>2
  <1> HIDE DEF found
  <1>7. SumsUp([level |-> level', message |-> message'], AllCauses \cup Causes(value))
    BY <1>1, <1>6 DEF SumsUp
  <1> HIDE DEF value
  <1> USE DEF kernel, settings
  <1>8. SummaryIsWorstValue'
    BY <1>1, <1>4, <1>7, TurnKeepsSummary
  <1>9. stage' \in {"unconfigured", "idle", "updating"} /\ TurnExists'
    BY <1>1, <1>4, AfterLoopKeepsTurn
  <1>10. Zero \in [Counters -> Nat] /\ \A c \in Counters : Zero[c] = 0
    BY DEF Zero
  <1>11. /\ since' \in [Interfaces -> History]
         /\ since'[i] = [errors |-> Zero, recreated |-> FALSE, read |-> TRUE]
         /\ \A j \in Interfaces : j # i => since'[j] = since[j]
    BY <1>1, <1>2, <1>10 DEF IInv, TypeOK, History
  <1>12. /\ DOMAIN previous_counters_' = DOMAIN previous_counters_ \cup {i}
         /\ previous_counters_'[i] = counter[i]
         /\ \A j \in DOMAIN previous_counters_ : j # i => previous_counters_'[j] = previous_counters_[j]
         /\ previous_counters_' \in [DOMAIN previous_counters_' -> Readings]
    <2>1. counter[i] \in Readings
      BY <1>2 DEF IInv, TypeOK
    <2>2. \A j \in DOMAIN previous_counters_ : previous_counters_[j] \in Readings
      BY DEF IInv, TypeOK
    <2> QED
      BY <1>1, <2>1, <2>2
  <1>13. TypeOK'
    <2>1. values' \in Seq(Values)
      BY <1>1, <1>4 DEF IInv, TypeOK
    <2>2. level' \in Levels /\ message' \in Messages
      BY <1>1, <1>6 DEF Found
    <2>3. DOMAIN previous_counters_' \subseteq Interfaces
      BY <1>2, <1>12 DEF IInv, TypeOK
    <2> QED
      BY <1>1, <1>9, <1>11, <1>12, <2>1, <2>2, <2>3 DEF IInv, TypeOK
  <1>14. NoneIsLost'
    <2> SUFFICES ASSUME NEW j \in DOMAIN previous_counters_', NEW c \in Counters
                 PROVE  IF since'[j].recreated
                          THEN counter[j][c] <= since'[j].errors[c]
                          ELSE counter[j][c] = previous_counters_'[j][c] + since'[j].errors[c]
      BY <1>1 DEF NoneIsLost
    <2>1. CASE j = i
      <3>1. counter[i][c] \in Int
        BY <1>2, NetworkAssumption DEF IInv, TypeOK, Readings
      <3> QED
        BY <1>10, <1>11, <1>12, <2>1, <3>1
    <2>2. CASE j # i
      <3>1. j \in DOMAIN previous_counters_ /\ j \in Interfaces
        BY <1>12, <2>2 DEF IInv, TypeOK
      <3> QED
        BY <1>11, <1>12, <2>2, <3>1 DEF IInv, NoneIsLost
    <2> QED
      BY <2>1, <2>2
  <1>15. BaselinesAreKept'
    BY <1>1, <1>11, <1>12 DEF IInv, BaselinesAreKept
  <1> QED
    BY <1>8, <1>9, <1>13, <1>14, <1>15 DEF IInv

\* The summary is about nothing but the published values and the settings.
LEMMA SummaryIsLeft ==
    ASSUME SummaryIsWorstValue,
           UNCHANGED <<parameter, require_carrier_, level, message, values>>
    PROVE  SummaryIsWorstValue'
  <1>1. \A v : Causes(v)' = Causes(v)
    BY DEF Causes, Cause, Reaches, When
  <1>2. AllCauses' = AllCauses
    BY <1>1 DEF AllCauses
  <1> QED
    BY <1>2 DEF SummaryIsWorstValue

LEMMA CountKeepsIInv ==
    ASSUME IInv, NEW i \in Interfaces, NEW c \in Counters, CountError(i, c)
    PROVE  IInv'
  <1>1. /\ counter[i][c] < MaxCounter
        /\ counter' = [counter EXCEPT ![i][c] = @ + 1]
        /\ since' = [since EXCEPT ![i].errors[c] = @ + 1]
        /\ UNCHANGED <<link, stage, settings, history, status>>
    BY DEF CountError
  <1> USE DEF settings, history, status
  <1>2. /\ counter' \in [Interfaces -> Readings]
        /\ \A j \in Interfaces, d \in Counters :
              counter'[j][d] = IF j = i /\ d = c THEN counter[j][d] + 1 ELSE counter[j][d]
    <2>1. counter \in [Interfaces -> Readings] /\ MaxCounter \in Nat
      BY NetworkAssumption DEF IInv, TypeOK
    <2>2. counter[i][c] + 1 \in 0 .. MaxCounter
      BY <1>1, <2>1 DEF Readings
    <2> QED
      BY <1>1, <2>1, <2>2 DEF Readings
  <1>3. /\ since' \in [Interfaces -> History]
        /\ \A j \in Interfaces : /\ since'[j].recreated = since[j].recreated
                                 /\ since'[j].read = since[j].read
        /\ \A j \in Interfaces, d \in Counters :
              since'[j].errors[d] = IF j = i /\ d = c THEN since[j].errors[d] + 1
                                    ELSE since[j].errors[d]
    <2> DEFINE new == [errors |-> [since[i].errors EXCEPT ![c] = @ + 1],
                       recreated |-> since[i].recreated,
                       read |-> since[i].read]
    <2>1. since \in [Interfaces -> History]
      BY DEF IInv, TypeOK
    <2>2. since' = [since EXCEPT ![i] = new]
      <3>1. since[i] \in History
        BY <2>1
      <3>2. [since[i] EXCEPT !.errors[c] = @ + 1] = new
        BY <3>1 DEF History
      <3>3. since' = [since EXCEPT ![i] = [since[i] EXCEPT !.errors[c] = @ + 1]]
        BY <1>1, <2>1
      <3> QED
        BY <3>2, <3>3
    <2>3. /\ new \in History
          /\ new.recreated = since[i].recreated /\ new.read = since[i].read
          /\ \A d \in Counters :
                new.errors[d] = IF d = c THEN since[i].errors[d] + 1 ELSE since[i].errors[d]
      BY <2>1 DEF History
    <2> HIDE DEF new
    <2> QED
      BY <2>1, <2>2, <2>3
  <1>4. TypeOK'
    BY <1>1, <1>2, <1>3 DEF IInv, TypeOK
  <1>5. NoneIsLost'
    <2> SUFFICES ASSUME NEW j \in DOMAIN previous_counters_, NEW d \in Counters
                 PROVE  IF since'[j].recreated
                          THEN counter'[j][d] <= since'[j].errors[d]
                          ELSE counter'[j][d] = previous_counters_[j][d] + since'[j].errors[d]
      BY <1>1 DEF NoneIsLost
    <2>1. j \in Interfaces
      BY DEF IInv, TypeOK
    <2>2. /\ counter[j][d] \in Nat /\ since[j].errors[d] \in Nat
          /\ previous_counters_[j][d] \in Nat
      BY <2>1, NetworkAssumption DEF IInv, TypeOK, Readings, History
    <2>3. IF since[j].recreated
            THEN counter[j][d] <= since[j].errors[d]
            ELSE counter[j][d] = previous_counters_[j][d] + since[j].errors[d]
      BY DEF IInv, NoneIsLost
    <2>4. since'[j].recreated = since[j].recreated
      BY <1>3, <2>1
    <2>5. /\ counter'[j][d] = IF j = i /\ d = c THEN counter[j][d] + 1 ELSE counter[j][d]
          /\ since'[j].errors[d] = IF j = i /\ d = c THEN since[j].errors[d] + 1
                                   ELSE since[j].errors[d]
      BY <1>2, <1>3, <2>1
    <2> QED
      BY <2>2, <2>3, <2>4, <2>5
  <1>6. TurnExists' /\ BaselinesAreKept' /\ SummaryIsWorstValue'
    <2>1. BaselinesAreKept'
      BY <1>1, <1>3 DEF IInv, BaselinesAreKept
    <2> QED
      BY <1>1, <2>1, SummaryIsLeft DEF IInv, TurnExists
  <1> QED
    BY <1>4, <1>5, <1>6 DEF IInv

LEMMA LinkKeepsIInv ==
    ASSUME IInv, NEW i \in Interfaces, ChangeLink(i)
    PROVE  IInv'
  <1>1. PICK l \in {"absent", "down", "up"} : link' = [link EXCEPT ![i] = l]
    BY DEF ChangeLink
  <1>2. UNCHANGED <<stage, settings, history, status>>
    BY DEF ChangeLink
  <1> USE DEF settings, history, status
  <1>3. \/ UNCHANGED <<counter, since>>
        \/ /\ counter' = [counter EXCEPT ![i] = Zero]
           /\ since' = [since EXCEPT ![i].recreated = TRUE]
    BY DEF ChangeLink
  <1>4. Zero \in Readings /\ \A c \in Counters : Zero[c] = 0
    BY NetworkAssumption DEF Zero, Readings
  <1>5. TypeOK'
    <2>1. since' \in [Interfaces -> History]
      <3>1. since \in [Interfaces -> History]
        BY DEF IInv, TypeOK
      <3>2. [since[i] EXCEPT !.recreated = TRUE] \in History
        BY <3>1 DEF History
      <3>3. \/ since' = since
            \/ since' = [since EXCEPT ![i] = [since[i] EXCEPT !.recreated = TRUE]]
        BY <1>3, <3>1
      <3> QED
        BY <3>1, <3>2, <3>3
    <2> QED
      BY <1>1, <1>2, <1>3, <1>4, <2>1 DEF IInv, TypeOK
  <1>6. NoneIsLost'
    <2> SUFFICES ASSUME NEW j \in DOMAIN previous_counters_, NEW d \in Counters
                 PROVE  IF since'[j].recreated
                          THEN counter'[j][d] <= since'[j].errors[d]
                          ELSE counter'[j][d] = previous_counters_[j][d] + since'[j].errors[d]
      BY <1>2 DEF NoneIsLost
    <2>1. j \in Interfaces
      BY DEF IInv, TypeOK
    <2>2. since[j].errors[d] \in Nat
      BY <2>1 DEF IInv, TypeOK, History
    <2>3. IF since[j].recreated
            THEN counter[j][d] <= since[j].errors[d]
            ELSE counter[j][d] = previous_counters_[j][d] + since[j].errors[d]
      BY DEF IInv, NoneIsLost
    <2>4. \/ counter'[j] = counter[j] /\ since'[j] = since[j]
          \/ counter'[j] = Zero /\ since'[j] = [since[j] EXCEPT !.recreated = TRUE]
      BY <1>3, <2>1 DEF IInv, TypeOK
    <2>5. CASE counter'[j] = counter[j] /\ since'[j] = since[j]
      BY <2>3, <2>5
    <2>6. CASE counter'[j] = Zero /\ since'[j] = [since[j] EXCEPT !.recreated = TRUE]
      <3>1. since'[j].recreated = TRUE /\ since'[j].errors = since[j].errors
        BY <2>1, <2>6 DEF IInv, TypeOK, History
      <3> QED
        BY <1>4, <2>2, <2>6, <3>1
    <2> QED
      BY <2>4, <2>5, <2>6
  <1>7. TurnExists' /\ BaselinesAreKept' /\ SummaryIsWorstValue'
    <2>1. ASSUME NEW j \in Interfaces
          PROVE  since'[j].read = since[j].read
      <3>1. since[j] \in History /\ since \in [Interfaces -> History]
        BY DEF IInv, TypeOK
      <3>2. since'[j] = since[j] \/ since'[j] = [since[j] EXCEPT !.recreated = TRUE]
        BY <1>3, <3>1
      <3> QED
        BY <3>1, <3>2 DEF History
    <2>2. BaselinesAreKept'
      BY <1>2, <2>1 DEF IInv, BaselinesAreKept
    <2> QED
      BY <1>2, <2>2, SummaryIsLeft DEF IInv, TurnExists
  <1> QED
    BY <1>5, <1>6, <1>7 DEF IInv

LEMMA ForgettingKeepsIInv ==
    ASSUME IInv, Configure \/ Cleanup
    PROVE  IInv'
  <1>1. /\ ForgetSamples /\ UNCHANGED kernel
        /\ stage' \in {"unconfigured", "idle"}
        /\ \/ UNCHANGED <<since, settings, status>>
           \/ /\ interfaces_' \in InterfaceLists /\ require_carrier_' \in BOOLEAN
              /\ parameter' \in DeltaParameters
              /\ thresholds_' = StoredThresholds(parameter')
              /\ since' = NothingSince
              /\ level' = OK /\ message' = StateOk /\ values' = <<>>
    BY DEF Configure, Cleanup
  <1> USE DEF kernel, settings, status
  <1>2. DOMAIN previous_counters_' = {} /\ previous_counters_' \in [{} -> Readings]
    BY <1>1 DEF ForgetSamples, NothingSampled
  <1>3. TypeOK'
    <2>1. StateOk \in Messages
      BY DEF StateOk, Messages
    <2>2. NothingSince \in [Interfaces -> History]
      BY DEF NothingSince, Zero, History
    <2>3. InterfaceLists \subseteq Seq(Interfaces)
      BY NetworkAssumption
    <2>4. <<>> \in Seq(Values)
      OBVIOUS
    <2> QED
      BY <1>1, <1>2, <2>1, <2>2, <2>3, <2>4, LevelsAreOrdered DEF IInv, TypeOK
  <1>4. NoneIsLost' /\ TurnExists' /\ BaselinesAreKept'
    <2>1. stage' # "unconfigured" => since' = NothingSince
      BY DEF Configure, Cleanup
    <2>2. \A i \in Interfaces : ~ NothingSince[i].read
      BY DEF NothingSince
    <2>3. BaselinesAreKept'
      BY <1>2, <2>1, <2>2 DEF BaselinesAreKept
    <2> QED
      BY <1>1, <1>2, <2>3 DEF NoneIsLost, TurnExists
  <1>5. SummaryIsWorstValue'
    <2>1. CASE values' = <<>>
      BY <2>1 DEF SummaryIsWorstValue
    <2>2. CASE UNCHANGED <<since, settings, status>>
      BY <2>2, SummaryIsLeft DEF IInv
    <2> QED
      BY <1>1, <2>1, <2>2
  <1> QED
    BY <1>3, <1>4, <1>5 DEF IInv

LEMMA BeginKeepsIInv ==
    ASSUME IInv, BeginUpdate
    PROVE  IInv'
  <1>1. /\ values' = <<>>
        /\ UNCHANGED <<kernel, since, settings, previous_counters_>>
        /\ \/ level' = ERROR /\ stage' = stage /\ stage = "idle"
              /\ message' = [interface |-> "", what |-> "no interfaces"]
           \/ /\ level' = OK /\ stage' = "updating" /\ interfaces_ # <<>>
              /\ message' = StateOk
    BY DEF BeginUpdate
  <1> USE DEF kernel, settings
  <1>2. TypeOK'
    <2>1. message' \in Messages
      <3>1. StateOk \in Messages /\ [interface |-> "", what |-> "no interfaces"] \in Messages
        BY DEF StateOk, Messages
      <3> QED
        BY <1>1, <3>1
    <2>2. <<>> \in Seq(Values)
      OBVIOUS
    <2> QED
      BY <1>1, <2>1, <2>2, LevelsAreOrdered DEF IInv, TypeOK
  <1>3. TurnExists'
    <2>1. interfaces_ # <<>> => Len(interfaces_) \in Nat /\ Len(interfaces_) > 0
      BY DEF IInv, TypeOK
    <2> QED
      BY <1>1, <2>1 DEF TurnExists
  <1>4. NoneIsLost' /\ BaselinesAreKept' /\ SummaryIsWorstValue'
    <2>1. stage = "idle"
      BY DEF BeginUpdate
    <2> QED
      BY <1>1, <2>1 DEF IInv, NoneIsLost, BaselinesAreKept, SummaryIsWorstValue
  <1> QED
    BY <1>2, <1>3, <1>4 DEF IInv

LEMMA StepKeepsIInv == IInv /\ [Next]_vars => IInv'
  <1> SUFFICES ASSUME IInv, [Next]_vars
               PROVE  IInv'
    OBVIOUS
  <1>1. CASE \E i \in Interfaces, c \in Counters : CountError(i, c)
    BY <1>1, CountKeepsIInv
  <1>2. CASE \E i \in Interfaces : ChangeLink(i)
    BY <1>2, LinkKeepsIInv
  <1>3. CASE Configure \/ Cleanup
    BY <1>3, ForgettingKeepsIInv
  <1>4. CASE BeginUpdate
    BY <1>4, BeginKeepsIInv
  <1>5. CASE ReadInterface
    BY <1>5, ReadKeepsIInv
  <1>6. CASE FailInterface
    BY <1>6, FailKeepsIInv
  <1>7. CASE UNCHANGED vars
    <2> USE <1>7 DEF vars, kernel, settings, history, status
    <2>1. TypeOK' /\ NoneIsLost' /\ BaselinesAreKept'
      BY DEF IInv, TypeOK, NoneIsLost, BaselinesAreKept
    <2>2. TurnExists' /\ SummaryIsWorstValue'
      BY SummaryIsLeft DEF IInv, TurnExists
    <2> QED
      BY <2>1, <2>2 DEF IInv
  <1> QED
    BY <1>1, <1>2, <1>3, <1>4, <1>5, <1>6, <1>7 DEF Next

THEOREM Invariance == Spec => []IInv
  <1> QED
    BY InitIInv, StepKeepsIInv, PTL DEF Spec

\* The summary that update() builds up over its interfaces has the worst level
\* of what it publishes, and a message of that level.
THEOREM WorstInterfaceIsReported == Spec => []SummaryIsWorstValue
  <1>1. IInv => SummaryIsWorstValue
    BY DEF IInv
  <1> QED
    BY Invariance, <1>1, PTL

\* A published delta counts real errors since the last read of the interface, and
\* all of them unless it was recreated; and every interface that can be read and was
\* read before has its deltas published, whatever failed in between: previous_counters_
\* is neither stale nor lost nor mixed up between interfaces.
THEOREM DeltasAreReal == Spec => DeltasCountRealErrors
  <1> DEFINE Real(i, value) ==
               /\ DOMAIN value.deltas = IF since[i].read THEN Counters ELSE {}
               /\ \A c \in DOMAIN value.deltas :
                    /\ value.deltas[c] <= since[i].errors[c]
                    /\ value.deltas[c] = since[i].errors[c] \/ since[i].recreated
             Step == \A i \in Interfaces :
                       LET value == values'[Len(values')]
                       IN  /\ Len(values') = Len(values) + 1
                           /\ value.interface = i
                           /\ ~ value.failed
                           => Real(i, value)
  <1>1. ASSUME IInv, Next
        PROVE  Step
    <2>1. CASE ReadInterface
      <3> SUFFICES ASSUME NEW i \in Interfaces, values'[Len(values')].interface = i
                   PROVE  Real(i, values'[Len(values')])
        OBVIOUS
      <3> DEFINE deltas == IF Current \in DOMAIN previous_counters_ THEN DeltasOf(Current)
                           ELSE NoDelta
                 value == ReadValue(Current, deltas)
      <3>1. values' = Append(values, value) /\ UNCHANGED <<parameter, require_carrier_>>
        BY <2>1 DEF ReadInterface, ReadValue, settings
      <3>2. Current \in Interfaces
        BY <1>1, <2>1, CurrentType DEF ReadInterface
      <3>3. value \in Values
        <4>1. deltas \in Deltas
          BY <1>1, DeltasType DEF IInv, Deltas
        <4> HIDE DEF deltas
        <4> QED
          BY <1>1, <3>2, <4>1 DEF Values, ReadValue, IInv, TypeOK
      <3>4. values'[Len(values')] = value /\ value.interface = Current
        <4>1. value.interface = Current
          BY DEF ReadValue
        <4> HIDE DEF value
        <4> QED
          BY <1>1, <3>1, <3>3, <4>1, CausesOfNewValue DEF IInv
      <3>5. value.deltas = deltas
        BY DEF ReadValue
      <3>6. since[i].read <=> i \in DOMAIN previous_counters_
        BY <1>1, <2>1 DEF IInv, BaselinesAreKept, ReadInterface
      <3>7. CASE Current \in DOMAIN previous_counters_
        <4> SUFFICES ASSUME NEW c \in Counters
                     PROVE  LET delta == counter_delta(counter[i][c], previous_counters_[i][c])
                            IN  /\ delta <= since[i].errors[c]
                                /\ delta = since[i].errors[c] \/ since[i].recreated
          BY <3>4, <3>5, <3>6, <3>7 DEF DeltasOf
        <4>1. i \in DOMAIN previous_counters_
          BY <3>4, <3>7
        <4>2. /\ counter[i][c] \in Nat /\ previous_counters_[i][c] \in Nat
              /\ since[i].errors[c] \in Nat
          BY <1>1, <4>1, NetworkAssumption DEF IInv, TypeOK, Readings, History
        <4>3. IF since[i].recreated
                THEN counter[i][c] <= since[i].errors[c]
                ELSE counter[i][c] = previous_counters_[i][c] + since[i].errors[c]
          BY <1>1, <4>1 DEF IInv, NoneIsLost
        <4> QED
          BY <4>2, <4>3 DEF counter_delta
      <3>8. CASE Current \notin DOMAIN previous_counters_
        BY <3>4, <3>5, <3>6, <3>8 DEF NoDelta
      <3> QED
        BY <3>7, <3>8
    <2>2. CASE FailInterface
      <3> DEFINE value == [interface |-> Current, failed |-> TRUE, carrier |-> FALSE,
                           deltas |-> NoDelta]
      <3>1. values' = Append(values, value) /\ UNCHANGED <<parameter, require_carrier_>>
        BY <2>2 DEF FailInterface, settings
      <3>2. value \in Values
        <4>1. Current \in Interfaces
          BY <1>1, <2>2, CurrentType DEF FailInterface
        <4> QED
          BY <4>1 DEF Values, Deltas
      <3>3. value.failed
        OBVIOUS
      <3> HIDE DEF value
      <3>4. values'[Len(values')] = value
        BY <1>1, <3>1, <3>2, CausesOfNewValue DEF IInv
      <3> QED
        BY <3>3, <3>4
    <2>3. CASE values' = values \/ values' = <<>>
      <3>1. Len(values) \in Nat
        BY <1>1 DEF IInv, TypeOK
      <3>2. Len(values') # Len(values) + 1
        BY <2>3, <3>1
      <3> QED
        BY <3>2
    <2>4. values' = values \/ values' = <<>> \/ ReadInterface \/ FailInterface
      BY <1>1 DEF Next, CountError, ChangeLink, Configure, Cleanup, BeginUpdate, status
    <2> QED
      BY <2>1, <2>2, <2>3, <2>4
  <1>2. IInv /\ [Next]_vars =>
          [ \A i \in Interfaces :
              LET value == values'[Len(values')]
              IN  /\ Len(values') = Len(values) + 1
                  /\ value.interface = i
                  /\ ~value.failed
                  => /\ DOMAIN value.deltas = IF since[i].read THEN Counters ELSE {}
                     /\ \A c \in DOMAIN value.deltas :
                          /\ value.deltas[c] <= since[i].errors[c]
                          /\ \/ value.deltas[c] = since[i].errors[c]
                             \/ since[i].recreated ]_vars
    BY <1>1
  <1> QED
    BY <1>2, Invariance, PTL DEF Spec, DeltasCountRealErrors
=============================================================================
