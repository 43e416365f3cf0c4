---------------------------- MODULE HostTasksProofs ----------------------------
(***************************************************************************)
(* Proofs about HostTasks, for any thresholds and anything the host may    *)
(* hold.                                                                   *)
(***************************************************************************)
EXTENDS HostTasks, SetInduction, FiniteSetTheorems

-----------------------------------------------------------------------------
(* Lemmas: a chain of else-ifs                                             *)

\* What the conditions that hold say.
Reasons(who, checks) ==
    {Report(checks[n].level, who, checks[n].what) :
        n \in {n \in DOMAIN checks : checks[n].reached}}

\* A report gives the worst of some reasons, and is OK only if there is none.
IsWorstOf(reasons, given) ==
    /\ \A f \in reasons : f.level <= given.level
    /\ given.level # OK => given \in reasons

\* In a chain that comes from the worse to the milder levels, no condition hides
\* another.
IsChain(checks) ==
    \E N \in Nat : /\ DOMAIN checks = 1 .. N
                   /\ \A n \in 1 .. N : checks[n].level \in {WARN, ERROR}
                   /\ \A m, n \in 1 .. N : m <= n => checks[n].level <= checks[m].level

LEMMA ChainFindsTheWorst ==
    ASSUME NEW who, NEW checks, IsChain(checks)
    PROVE  /\ IsWorstOf(Reasons(who, checks), FirstReached(who, checks))
           /\ FirstReached(who, checks).who = who
           /\ FirstReached(who, checks).level \in {OK, WARN, ERROR}
           /\ FirstReached(who, checks).level = OK => FirstReached(who, checks) = Fine(who)
  <1> DEFINE reached == {n \in DOMAIN checks : checks[n].reached}
             first == CHOOSE n \in reached : \A m \in reached : n <= m
             given == FirstReached(who, checks)
  <1>1. PICK N \in Nat : /\ DOMAIN checks = 1 .. N
                         /\ \A n \in 1 .. N : checks[n].level \in {WARN, ERROR}
                         /\ \A m, n \in 1 .. N :
                              m <= n => checks[n].level <= checks[m].level
    BY DEF IsChain
  <1>2. CASE reached = {}
    BY <1>2 DEF FirstReached, Fine, Report, Reasons, IsWorstOf
  <1>3. CASE reached # {}
    <2>1. reached \subseteq Nat
      BY <1>1
    <2>2. first \in reached /\ \A m \in reached : first <= m
      <3> HIDE DEF reached
      <3> QED
        BY <1>3, <2>1, LeastNumber
    <2>3. given = Report(checks[first].level, who, checks[first].what)
      BY <1>3 DEF FirstReached
    <2>4. given \in Reasons(who, checks)
      BY <2>2, <2>3 DEF Reasons
    <2>5. ASSUME NEW f \in Reasons(who, checks)
          PROVE  f.level <= given.level
      <3>1. PICK n \in reached : f = Report(checks[n].level, who, checks[n].what)
        BY DEF Reasons
      <3>2. first <= n /\ first \in 1 .. N /\ n \in 1 .. N
        BY <1>1, <2>2
      <3>3. checks[n].level <= checks[first].level
        BY <1>1, <3>2
      <3> QED
        BY <2>3, <3>1, <3>3 DEF Report
    <2> QED
      BY <1>1, <2>2, <2>3, <2>4, <2>5 DEF IsWorstOf, Report, OK, WARN, ERROR
  <1> QED
    BY <1>2, <1>3

\* A chain of two errors and two warnings: what its conditions say.
FourReasons(who, c1, c2, c3, c4) ==
    When(c1.reached, {Report(ERROR, who, c1.what)}) \cup
    When(c2.reached, {Report(ERROR, who, c2.what)}) \cup
    When(c3.reached, {Report(WARN, who, c3.what)}) \cup
    When(c4.reached, {Report(WARN, who, c4.what)})

LEMMA FourChecks ==
    ASSUME NEW c1, NEW c2, NEW c3, NEW c4, NEW who,
           c1.level = ERROR, c2.level = ERROR, c3.level = WARN, c4.level = WARN
    PROVE  /\ IsWorstOf(FourReasons(who, c1, c2, c3, c4),
                        FirstReached(who, <<c1, c2, c3, c4>>))
           /\ FirstReached(who, <<c1, c2, c3, c4>>).who = who
           /\ FirstReached(who, <<c1, c2, c3, c4>>).level \in {OK, WARN, ERROR}
           /\ FirstReached(who, <<c1, c2, c3, c4>>).level = OK =>
                FirstReached(who, <<c1, c2, c3, c4>>) = Fine(who)
  <1> DEFINE checks == <<c1, c2, c3, c4>>
  <1>1. DOMAIN checks = 1 .. 4 /\ 4 \in Nat
    OBVIOUS
  <1>2. checks[1] = c1 /\ checks[2] = c2 /\ checks[3] = c3 /\ checks[4] = c4
    OBVIOUS
  <1> HIDE DEF checks
  <1>3. \A n \in 1 .. 4 : n = 1 \/ n = 2 \/ n = 3 \/ n = 4
    OBVIOUS
  <1>4. IsChain(checks)
    BY <1>1, <1>2, <1>3 DEF IsChain, WARN, ERROR
  <1>5. {n \in DOMAIN checks : checks[n].reached} =
          When(c1.reached, {1}) \cup When(c2.reached, {2}) \cup
          When(c3.reached, {3}) \cup When(c4.reached, {4})
    BY <1>1, <1>2, <1>3 DEF When
  <1>6. Reasons(who, checks) = FourReasons(who, c1, c2, c3, c4)
    BY <1>2, <1>5 DEF Reasons, When, FourReasons
  <1>7. /\ IsWorstOf(Reasons(who, checks), FirstReached(who, checks))
        /\ FirstReached(who, checks).who = who
        /\ FirstReached(who, checks).level \in {OK, WARN, ERROR}
        /\ FirstReached(who, checks).level = OK => FirstReached(who, checks) = Fine(who)
    BY <1>4, ChainFindsTheWorst
  <1> QED
    BY <1>6, <1>7 DEF checks

-----------------------------------------------------------------------------
(* The CPU task                                                            *)

\* A stored sample is what the counters were when the ticks since then are taken back;
\* the ticks of guests are among the busy ones.
CpuInv ==
    /\ {idle, busy, guest} \subseteq 0 .. MaxTicks
    /\ since \in [idle : Int, busy : Nat, guest : Nat]
    /\ guest <= busy /\ since.guest <= since.busy
    /\ previous_sample_ # Cpu!NoSample =>
         /\ {idle - since.idle, busy - since.busy, guest - since.guest}
                \subseteq 0 .. MaxTicks
         /\ previous_sample_ =
                Cpu!Sample(idle - since.idle,
                           idle - since.idle + (busy - since.busy) + (guest - since.guest))
    /\ usage \in [idle : Int, total : Int]
    /\ load \in Int
    /\ sampled => level = Cpu!Summary(usage, load).level

LEMMA CpuLevels ==
    /\ Cpu!OK = OK /\ Cpu!WARN = WARN /\ Cpu!ERROR = ERROR
    /\ \A reached, l, what : Cpu!Check(reached, l, what) = Check(reached, l, what)
    /\ \A who, checks : Cpu!FirstReached(who, checks) = FirstReached(who, checks)
  BY DEF Cpu!OK, Cpu!WARN, Cpu!ERROR, OK, WARN, ERROR, Cpu!Check, Check,
         Cpu!FirstReached, FirstReached, Cpu!Fine, Fine, Cpu!Report, Report, Cpu!OK

CpuReasons(u, l) ==
    FourReasons(0, Check(Cpu!UsageReaches(u, ErrorUsage), ERROR, "usage"),
                   Check(l >= ErrorLoad, ERROR, "load"),
                   Check(Cpu!UsageReaches(u, WarnUsage), WARN, "usage"),
                   Check(l >= WarnLoad, WARN, "load"))

LEMMA CpuSummary ==
    ASSUME NEW u, NEW l
    PROVE  /\ IsWorstOf(CpuReasons(u, l), Cpu!Summary(u, l))
           /\ Cpu!Summary(u, l).level \in {OK, WARN, ERROR}
           /\ Cpu!Summary(u, l).level = OK => Cpu!Summary(u, l) = Fine(0)
  <1> DEFINE c1 == Check(Cpu!UsageReaches(u, ErrorUsage), ERROR, "usage")
             c2 == Check(l >= ErrorLoad, ERROR, "load")
             c3 == Check(Cpu!UsageReaches(u, WarnUsage), WARN, "usage")
             c4 == Check(l >= WarnLoad, WARN, "load")
  <1>1. Cpu!Summary(u, l) = FirstReached(0, <<c1, c2, c3, c4>>)
    BY CpuLevels DEF Cpu!Summary
  <1>2. /\ c1.level = ERROR /\ c2.level = ERROR /\ c3.level = WARN /\ c4.level = WARN
    BY DEF Check
  <1>3. CpuReasons(u, l) = FourReasons(0, c1, c2, c3, c4)
    BY DEF CpuReasons
  <1> HIDE DEF c1, c2, c3, c4
  <1> QED
    BY <1>1, <1>2, <1>3, FourChecks

LEMMA CpuSummaryLevel ==
    ASSUME NEW u, NEW l
    PROVE  LET of_usage == Cpu!Severity(Cpu!UsageReaches(u, ErrorUsage),
                                        Cpu!UsageReaches(u, WarnUsage))
               of_load == Cpu!Severity(l >= ErrorLoad, l >= WarnLoad)
           IN  Cpu!Summary(u, l).level = IF of_usage > of_load THEN of_usage ELSE of_load
  <1> DEFINE a == Cpu!UsageReaches(u, ErrorUsage)
             b == Cpu!UsageReaches(u, WarnUsage)
             c == l >= ErrorLoad
             d == l >= WarnLoad
             given == Cpu!Summary(u, l)
  <1>1. CpuReasons(u, l) = When(a, {Report(ERROR, 0, "usage")}) \cup
                           When(c, {Report(ERROR, 0, "load")}) \cup
                           When(b, {Report(WARN, 0, "usage")}) \cup
                           When(d, {Report(WARN, 0, "load")})
    BY DEF CpuReasons, FourReasons, Check
  <1>2. /\ IsWorstOf(CpuReasons(u, l), given)
        /\ given.level \in {OK, WARN, ERROR}
    BY CpuSummary
  <1> HIDE DEF a, b, c, d, given
  <1>3. /\ a \/ c => ERROR <= given.level
        /\ b \/ d => WARN <= given.level
    <2>1. /\ a => Report(ERROR, 0, "usage") \in CpuReasons(u, l)
          /\ c => Report(ERROR, 0, "load") \in CpuReasons(u, l)
          /\ b => Report(WARN, 0, "usage") \in CpuReasons(u, l)
          /\ d => Report(WARN, 0, "load") \in CpuReasons(u, l)
      BY <1>1 DEF When
    <2>2. \A f \in CpuReasons(u, l) : f.level <= given.level
      BY <1>2 DEF IsWorstOf
    <2>3. \A lv, what : Report(lv, 0, what).level = lv
      BY DEF Report
    <2> QED
      BY <2>1, <2>2, <2>3
  <1>4. /\ given.level = ERROR => a \/ c
        /\ given.level = WARN => b \/ d
    BY <1>1, <1>2 DEF IsWorstOf, When, Report, OK, WARN, ERROR
  <1>5. given.level = IF a \/ c THEN ERROR ELSE IF b \/ d THEN WARN ELSE OK
    BY <1>2, <1>3, <1>4 DEF OK, WARN, ERROR
  <1>6. given.level = IF Cpu!Severity(a, b) > Cpu!Severity(c, d)
                      THEN Cpu!Severity(a, b) ELSE Cpu!Severity(c, d)
    BY <1>5 DEF Cpu!Severity, Cpu!OK, Cpu!WARN, Cpu!ERROR, OK, WARN, ERROR
  <1> QED
    BY <1>6 DEF a, b, c, d, given

\* The difference of two counters, as unsigned numbers.
LEMMA CpuDelta ==
    ASSUME NEW now \in 0 .. 3 * MaxTicks, NEW before \in 0 .. 3 * MaxTicks
    PROVE  /\ Cpu!Delta(now, before) \in Nat
           /\ Cpu!Delta(now, before) = IF now >= before THEN now - before
                                       ELSE now - before + TwoToThe64
  <1>1. MaxTicks \in Nat /\ TwoToThe64 \in Nat /\ 201 * MaxTicks < TwoToThe64
    BY ThresholdAssumption, CpuAssumption
  <1> DEFINE x == now - before
  <1>2. x \in Int /\ -TwoToThe64 < x /\ x < TwoToThe64
    BY <1>1
  <1>3. Cpu!Delta(now, before) = (x + TwoToThe64) % TwoToThe64
    BY DEF Cpu!Delta
  <1>4. x >= 0 <=> now >= before
    OBVIOUS
  <1> HIDE DEF x
  <1>5. (x + TwoToThe64) % TwoToThe64 = IF x < 0 THEN x + TwoToThe64 ELSE x
    BY <1>1, <1>2
  <1> QED
    BY <1>1, <1>2, <1>3, <1>4, <1>5 DEF x

LEMMA CpuTypes ==
    /\ MaxTicks \in Nat /\ TwoToThe64 \in Nat /\ 201 * MaxTicks < TwoToThe64
    /\ WarnUsage \in Int /\ ErrorUsage \in Int
    /\ LoadsPerCore \cup {0} \subseteq Int
  BY ThresholdAssumption, CpuAssumption

\* What a comparison publishes, in terms of the ticks since the last read.
LEMMA CpuUsage ==
    ASSUME CpuInv, Cpu!CompareSamples
    PROVE  LET ticks == since.busy + since.idle + since.guest
           IN  /\ usage' = [idle |-> IF since.idle >= 0 THEN since.idle
                                     ELSE since.idle + TwoToThe64,
                            total |-> IF ticks >= 0 THEN ticks ELSE ticks + TwoToThe64]
               /\ usage'.idle \in Nat /\ usage'.total \in Nat
  <1> DEFINE i0 == idle - since.idle
             t0 == idle - since.idle + (busy - since.busy) + (guest - since.guest)
             t1 == idle + busy + guest
  <1>1. previous_sample_ = Cpu!Sample(i0, t0)
    BY DEF CpuInv, Cpu!CompareSamples
  <1>2. /\ i0 \in 0 .. MaxTicks /\ busy - since.busy \in 0 .. MaxTicks
        /\ guest - since.guest \in 0 .. MaxTicks
        /\ idle \in 0 .. MaxTicks /\ busy \in 0 .. MaxTicks /\ guest \in 0 .. MaxTicks
        /\ since.idle \in Int /\ since.busy \in Nat /\ since.guest \in Nat
    BY DEF CpuInv, Cpu!CompareSamples
  <1>3. /\ i0 \in 0 .. 3 * MaxTicks /\ t0 \in 0 .. 3 * MaxTicks
        /\ idle \in 0 .. 3 * MaxTicks /\ t1 \in 0 .. 3 * MaxTicks
    BY <1>2, CpuTypes
  <1>4. usage' = [idle |-> Cpu!Delta(idle, i0), total |-> Cpu!Delta(t1, t0)]
    BY <1>1 DEF Cpu!CompareSamples, Cpu!Reading, Cpu!Sample
  <1>5. /\ idle >= i0 <=> since.idle >= 0
        /\ idle - i0 = since.idle
        /\ t1 >= t0 <=> since.busy + since.idle + since.guest >= 0
        /\ t1 - t0 = since.busy + since.idle + since.guest
    BY <1>2
  <1> HIDE DEF i0, t0, t1
  <1>6. /\ Cpu!Delta(idle, i0) \in Nat
        /\ Cpu!Delta(idle, i0) = IF idle >= i0 THEN idle - i0 ELSE idle - i0 + TwoToThe64
    BY <1>3, CpuDelta
  <1>7. /\ Cpu!Delta(t1, t0) \in Nat
        /\ Cpu!Delta(t1, t0) = IF t1 >= t0 THEN t1 - t0 ELSE t1 - t0 + TwoToThe64
    BY <1>3, CpuDelta
  <1> QED
    BY <1>4, <1>5, <1>6, <1>7

LEMMA CpuInit ==
    HostInit => CpuInv
  BY CpuTypes DEF HostInit, Cpu!Init, CpuInv, Cpu!NoTicks, Cpu!NoUsage

\* Reading the counters stores a sample with no ticks since then.
LEMMA CpuStore ==
    ASSUME CpuInv, previous_sample_' = Cpu!Reading, since' = Cpu!NoTicks,
           UNCHANGED <<idle, busy, guest>>
    PROVE  /\ {idle, busy, guest}' \subseteq 0 .. MaxTicks
           /\ since' \in [idle : Int, busy : Nat, guest : Nat]
           /\ (guest <= busy /\ since.guest <= since.busy)'
           /\ {idle - since.idle, busy - since.busy, guest - since.guest}'
                  \subseteq 0 .. MaxTicks
           /\ previous_sample_' =
                  Cpu!Sample(idle - since.idle,
                             idle - since.idle + (busy - since.busy) + (guest - since.guest))'
  <1>1. /\ since'.idle = 0 /\ since'.busy = 0 /\ since'.guest = 0
        /\ since' \in [idle : Int, busy : Nat, guest : Nat]
    BY DEF Cpu!NoTicks
  <1>2. /\ idle \in 0 .. MaxTicks /\ busy \in 0 .. MaxTicks /\ guest \in 0 .. MaxTicks
        /\ guest <= busy
    BY DEF CpuInv
  <1>3. /\ (idle - since.idle)' = idle /\ (busy - since.busy)' = busy
        /\ (guest - since.guest)' = guest
        /\ (idle - since.idle + (busy - since.busy) + (guest - since.guest))' =
                idle + busy + guest
    BY <1>1, <1>2, CpuTypes
  <1>4. previous_sample_' = Cpu!Sample(idle, idle + busy + guest)
    BY DEF Cpu!Reading
  <1>5. Cpu!Sample(idle - since.idle,
                   idle - since.idle + (busy - since.busy) + (guest - since.guest))' =
            Cpu!Sample(idle, idle + busy + guest)
    BY <1>3 DEF Cpu!Sample
  <1> QED
    BY <1>1, <1>2, <1>3, <1>4, <1>5

\* A tick, or one taken back, is counted since the last read too.
LEMMA CpuTick ==
    ASSUME CpuInv, {idle, busy, guest}' \subseteq 0 .. MaxTicks,
           since' \in [idle : Int, busy : Nat, guest : Nat],
           (guest <= busy /\ since.guest <= since.busy)',
           UNCHANGED <<idle - since.idle, busy - since.busy, guest - since.guest>>,
           UNCHANGED <<previous_sample_, level, usage, load, sampled>>
    PROVE  CpuInv'
  BY DEF CpuInv, Cpu!Sample, Cpu!NoSample, Cpu!Summary, Cpu!UsageReaches

LEMMA CpuTicks ==
    ASSUME CpuInv, Cpu!BusyTick \/ Cpu!GuestTick \/ Cpu!IdleTick \/ Cpu!IdleSlips
    PROVE  CpuInv'
  <1> USE DEF Cpu!status
  <1>1. CASE Cpu!BusyTick
    <2>1. /\ busy' \in 0 .. MaxTicks /\ idle' = idle /\ guest' = guest
          /\ since' = [idle |-> since.idle, busy |-> since.busy + 1, guest |-> since.guest]
      BY <1>1, CpuTypes DEF Cpu!BusyTick, CpuInv
    <2>2. UNCHANGED <<idle - since.idle, busy - since.busy, guest - since.guest>>
      BY <1>1, <2>1 DEF Cpu!BusyTick, CpuInv
    <2>3. (guest <= busy /\ since.guest <= since.busy)'
      BY <1>1, <2>1 DEF Cpu!BusyTick, CpuInv
    <2> QED
      BY <1>1, <2>1, <2>2, <2>3, CpuTick DEF Cpu!BusyTick, CpuInv
  <1>2. CASE Cpu!GuestTick
    <2>1. /\ busy' \in 0 .. MaxTicks /\ guest' \in 0 .. MaxTicks /\ idle' = idle
          /\ since' = [idle |-> since.idle, busy |-> since.busy + 1,
                       guest |-> since.guest + 1]
      <3>1. busy \in 0 .. MaxTicks /\ guest \in 0 .. MaxTicks /\ guest <= busy
        BY DEF CpuInv
      <3>2. busy < MaxTicks /\ busy' = busy + 1 /\ guest' = guest + 1 /\ idle' = idle
        BY <1>2 DEF Cpu!GuestTick
      <3>3. since' = [idle |-> since.idle, busy |-> since.busy + 1,
                      guest |-> since.guest + 1]
        BY <1>2 DEF Cpu!GuestTick, CpuInv
      <3> QED
        BY <3>1, <3>2, <3>3, CpuTypes
    <2>2. UNCHANGED <<idle - since.idle, busy - since.busy, guest - since.guest>>
      BY <1>2, <2>1 DEF Cpu!GuestTick, CpuInv
    <2>3. (guest <= busy /\ since.guest <= since.busy)'
      BY <1>2, <2>1 DEF Cpu!GuestTick, CpuInv
    <2> QED
      BY <1>2, <2>1, <2>2, <2>3, CpuTick DEF Cpu!GuestTick, CpuInv
  <1>3. CASE Cpu!IdleTick \/ Cpu!IdleSlips
    <2>1. /\ idle' \in 0 .. MaxTicks /\ busy' = busy /\ guest' = guest
          /\ \/ idle' = idle + 1 /\ since' = [since EXCEPT !.idle = @ + 1]
             \/ idle' = idle - 1 /\ since' = [since EXCEPT !.idle = @ - 1]
          /\ UNCHANGED <<previous_sample_, level, usage, load, sampled>>
      BY <1>3, CpuTypes DEF Cpu!IdleTick, Cpu!IdleSlips, CpuInv
    <2>2. /\ since' \in [idle : Int, busy : Nat, guest : Nat]
          /\ since'.busy = since.busy /\ since'.guest = since.guest
      BY <2>1 DEF CpuInv
    <2>3. UNCHANGED <<idle - since.idle, busy - since.busy, guest - since.guest>>
      BY <2>1, <2>2 DEF CpuInv
    <2> QED
      BY <2>1, <2>2, <2>3, CpuTick DEF CpuInv
  <1> QED
    BY <1>1, <1>2, <1>3

LEMMA CpuStep ==
    ASSUME CpuInv, Cpu!Next
    PROVE  CpuInv'
  <1> USE DEF Cpu!status, Cpu!kernel
  <1>1. CASE Cpu!BusyTick \/ Cpu!GuestTick \/ Cpu!IdleTick \/ Cpu!IdleSlips
    BY <1>1, CpuTicks
  <1>2. CASE Cpu!Configure \/ Cpu!Cleanup
    <2>1. /\ previous_sample_' = Cpu!NoSample
          /\ UNCHANGED <<idle, busy, guest, since, level, usage, load, sampled>>
      BY <1>2 DEF Cpu!Configure, Cpu!Cleanup, Cpu!DropSample
    <2>2. Cpu!NoSample' = Cpu!NoSample
      BY DEF Cpu!NoSample
    <2>3. Cpu!Summary(usage, load)' = Cpu!Summary(usage, load)
      BY <2>1
    <2> QED
      BY <2>1, <2>2, <2>3 DEF CpuInv
  <1>3. CASE Cpu!FirstSample
    <2>1. /\ usage' \in [idle : Int, total : Int] /\ load' \in Int /\ ~sampled'
          /\ since' = Cpu!NoTicks /\ previous_sample_' = Cpu!Reading
          /\ UNCHANGED <<idle, busy, guest>>
      BY <1>3, CpuTypes DEF Cpu!FirstSample, Cpu!NoUsage
    <2> QED
      BY <2>1, CpuStore DEF CpuInv
  <1>4. CASE Cpu!CompareSamples
    <2>1. /\ usage' \in [idle : Int, total : Int]
          /\ load' \in Int
          /\ level' = Cpu!Summary(usage', load').level
          /\ since' = Cpu!NoTicks /\ previous_sample_' = Cpu!Reading
          /\ UNCHANGED <<idle, busy, guest>>
      <3>1. usage' \in [idle : Int, total : Int]
        BY <1>4, CpuUsage
      <3>2. load' \in Int
        BY <1>4, CpuTypes DEF Cpu!CompareSamples
      <3> QED
        BY <1>4, <3>1, <3>2 DEF Cpu!CompareSamples, Cpu!StoreSample
    <2>2. Cpu!Summary(usage, load)' = Cpu!Summary(usage', load')
      OBVIOUS
    <2> QED
      BY <2>1, <2>2, CpuStore DEF CpuInv
  <1>5. CASE Cpu!FailToRead
    <2>1. /\ usage' \in [idle : Int, total : Int] /\ load' = 0 /\ ~sampled'
          /\ UNCHANGED <<idle, busy, guest, since, previous_sample_>>
      BY <1>5 DEF Cpu!FailToRead, Cpu!NoUsage
    <2> QED
      BY <2>1 DEF CpuInv, Cpu!NoSample, Cpu!Sample
  <1> QED
    BY <1>1, <1>2, <1>3, <1>4, <1>5 DEF Cpu!Next

LEMMA CpuIdle ==
    ASSUME CpuInv, UNCHANGED cpu_vars
    PROVE  CpuInv'
  BY DEF CpuInv, cpu_vars, Cpu!NoSample, Cpu!Sample, Cpu!Summary, Cpu!UsageReaches

LEMMA CpuInvariance == HostSpec => []CpuInv
  <1>1. HostInit => CpuInv
    BY CpuInit
  <1>2. CpuInv /\ [HostNext]_<<vars, cpu_vars>> => CpuInv'
    BY CpuStep, CpuIdle DEF HostNext
  <1> QED
    BY <1>1, <1>2, PTL DEF HostSpec

\* The level of the CPU is the worse one of those of the usage and the load.
THEOREM CpuIsJudgedByBoth == HostSpec => []LevelIsWorstOfBoth
  <1>1. CpuInv => LevelIsWorstOfBoth
    BY CpuSummaryLevel DEF CpuInv, LevelIsWorstOfBoth, Cpu!LevelIsWorstOfBoth
  <1> QED
    BY <1>1, CpuInvariance, PTL

\* Ticks that count twice raise a share of the busy ticks, up to all of them.
LEMMA GuestsRaiseUsage ==
    ASSUME NEW b \in Nat \ {0}, NEW i \in Nat, NEW g \in Nat, NEW t \in Int,
           100 * b >= t * (b + i)
    PROVE  100 * (b + g) >= t * (b + i + g)
  <1>1. t <= 100
    <2>1. SUFFICES ASSUME t > 100
                   PROVE  FALSE
      OBVIOUS
    <2>2. \A n \in Nat : t * n >= 101 * n
      BY <2>1
    <2>3. t * (b + i) >= 101 * (b + i)
      BY <2>2
    <2> QED
      BY <2>3
  <1>2. t * g <= 100 * g
    BY <1>1
  <1>3. t * (b + i + g) = t * (b + i) + t * g
    OBVIOUS
  <1> DEFINE x == t * (b + i)
             y == t * g
  <1>4. x \in Int /\ y \in Int
    OBVIOUS
  <1> HIDE DEF x, y
  <1>5. 100 * b >= x /\ y <= 100 * g
    BY <1>2 DEF x, y
  <1>6. 100 * (b + g) >= x + y
    BY <1>4, <1>5
  <1> QED
    BY <1>3, <1>6 DEF x, y

\* An overloaded CPU raises an error when it is next compared.
THEOREM OverloadIsReported == HostSpec => HighUsageIsReported
  <1>1. ASSUME CpuInv, Cpu!CompareSamples, since.idle >= 0, since.busy > 0,
               Cpu!RealUsageReaches(ErrorUsage)
        PROVE  level' = ERROR
    <2>1. since.idle \in Nat /\ since.busy \in Nat \ {0} /\ since.guest \in Nat
      BY <1>1 DEF CpuInv
    <2>2. /\ usage'.idle = since.idle
          /\ usage'.total = since.busy + since.idle + since.guest
          /\ usage'.total # 0
      BY <1>1, <2>1, CpuUsage
    <2>3. usage'.total - usage'.idle = since.busy + since.guest
      BY <2>1, <2>2
    <2>4. Cpu!UsageReaches(usage', ErrorUsage)
      BY <1>1, <2>1, <2>2, <2>3, GuestsRaiseUsage, CpuTypes
         DEF Cpu!UsageReaches, Cpu!RealUsageReaches
    <2>5. /\ level' = Cpu!Summary(usage', load').level
          /\ Cpu!Summary(usage', load').level \in {OK, WARN, ERROR}
          /\ IsWorstOf(CpuReasons(usage', load'), Cpu!Summary(usage', load'))
      BY <1>1, CpuSummary DEF Cpu!CompareSamples
    <2>6. Report(ERROR, 0, "usage") \in CpuReasons(usage', load')
      BY <2>4 DEF CpuReasons, FourReasons, Check, When
    <2>7. ERROR <= level'
      BY <2>5, <2>6 DEF IsWorstOf, Report
    <2> QED
      BY <2>5, <2>7 DEF OK, WARN, ERROR
  <1>2. Cpu!ERROR = ERROR
    BY CpuLevels
  <1>3. CpuInv => [Cpu!CompareSamples /\ since.idle >= 0 /\ since.busy > 0 /\
                      Cpu!RealUsageReaches(ErrorUsage) => level' = Cpu!ERROR]_Cpu!vars
    BY <1>1, <1>2
  <1> QED
    BY <1>3, CpuInvariance, PTL DEF HighUsageIsReported, Cpu!HighUsageIsReported

\* Thresholds in their order: what reaches the one for errors reaches the other.
LEMMA CpuErrorWarns ==
    ASSUME NEW u \in [idle : Nat, total : Nat], 0 < WarnUsage, WarnUsage <= ErrorUsage,
           Cpu!UsageReaches(u, ErrorUsage)
    PROVE  Cpu!UsageReaches(u, WarnUsage)
  <1>1. CASE u.total = 0
    BY <1>1, CpuTypes DEF Cpu!UsageReaches
  <1>2. CASE u.total # 0
    <2>1. \A t \in Nat : ErrorUsage * t >= WarnUsage * t
      BY CpuTypes
    <2>2. 100 * (u.total - u.idle) >= ErrorUsage * u.total
      BY <1>2 DEF Cpu!UsageReaches
    <2> QED
      BY <1>2, <2>1, <2>2, CpuTypes DEF Cpu!UsageReaches
  <1> QED
    BY <1>1, <1>2

\* A usage alarm is raised only after ticks that reach the threshold, those of guests
\* counted twice, and never by an idle counter that slipped.  The warning threshold is
\* above zero and not above the one for errors: one that any usage reaches is reached by
\* a counter that slipped, too.
THEOREM CpuAlarmsAreReal ==
    ASSUME 0 < WarnUsage, WarnUsage <= ErrorUsage
    PROVE  HostSpec => UsageAlarmsAreReal
  <1>1. ASSUME CpuInv, Cpu!CompareSamples, cause' = "usage"
        PROVE  /\ since.idle >= 0
               /\ since.guest = 0 => Cpu!RealUsageReaches(WarnUsage)
               /\ 100 * (2 * since.busy) >= WarnUsage * (2 * since.busy + since.idle)
    <2> DEFINE ticks == since.busy + since.idle + since.guest
    <2>1. /\ usage' \in [idle : Nat, total : Nat]
          /\ usage'.idle = IF since.idle >= 0 THEN since.idle ELSE since.idle + TwoToThe64
          /\ usage'.total = IF ticks >= 0 THEN ticks ELSE ticks + TwoToThe64
      BY <1>1, CpuUsage
    <2>2. /\ since.idle \in Int /\ since.busy \in Nat
          /\ since.guest \in Nat /\ since.guest <= since.busy
          /\ since.busy <= MaxTicks
          /\ since.idle >= -MaxTicks
      BY <1>1, CpuTypes DEF CpuInv, Cpu!CompareSamples
    <2>3. Cpu!UsageReaches(usage', WarnUsage)
      <3> DEFINE given == Cpu!Summary(usage', load')
      <3>1. /\ given.what = "usage"
            /\ given.level # OK => given \in CpuReasons(usage', load')
        BY <1>1, CpuSummary DEF Cpu!CompareSamples, IsWorstOf
      <3>2. given.level # OK
        BY <3>1, CpuSummary DEF Fine, Report
      <3>3. \/ Cpu!UsageReaches(usage', ErrorUsage)
            \/ Cpu!UsageReaches(usage', WarnUsage)
        BY <3>1, <3>2 DEF CpuReasons, FourReasons, Check, When, Report
      <3> QED
        BY <2>1, <3>3, CpuErrorWarns
    <2>4. usage'.total # 0
      BY <2>3, CpuTypes DEF Cpu!UsageReaches
    <2>5. 100 * (usage'.total - usage'.idle) >= WarnUsage * usage'.total
      BY <2>3, <2>4 DEF Cpu!UsageReaches
    <2>6. \A t \in Nat : WarnUsage * t >= t
      BY CpuTypes
    <2>7. 100 * (usage'.total - usage'.idle) >= usage'.total
      BY <2>1, <2>5, <2>6, CpuTypes
    <2>8. since.idle >= 0
      BY <2>1, <2>2, <2>7, CpuTypes
    <2>9. usage'.total = ticks /\ usage'.total - usage'.idle = since.busy + since.guest
      BY <2>1, <2>2, <2>8
    <2>10. 100 * (since.busy + since.guest) >= WarnUsage * ticks
      BY <2>5, <2>9
    <2>11. since.busy # 0
      <3>1. usage'.total \in Nat
        BY <2>1
      <3>2. 100 * (since.busy + since.guest) >= usage'.total
        BY <2>7, <2>9
      <3> QED
        BY <2>2, <2>4, <3>1, <3>2
    <2>12. 100 * (2 * since.busy) >= WarnUsage * (2 * since.busy + since.idle)
      <3> DEFINE b == since.busy + since.guest
                 g == since.busy - since.guest
      <3>1. b \in Nat \ {0} /\ g \in Nat /\ since.idle \in Nat
        BY <2>2, <2>8, <2>11
      <3>2. b + g = 2 * since.busy /\ ticks = b + since.idle
        BY <2>2
      <3> HIDE DEF b, g
      <3>3. 100 * (b + g) >= WarnUsage * (b + since.idle + g)
        BY <2>10, <3>1, <3>2, GuestsRaiseUsage, CpuTypes DEF b
      <3>4. b + since.idle + g = 2 * since.busy + since.idle
        BY <2>2, <3>1, <3>2
      <3> QED
        BY <3>2, <3>3, <3>4
    <2>13. since.guest = 0 => 100 * since.busy >= WarnUsage * (since.busy + since.idle)
      <3>1. since.guest = 0 => ticks = since.busy + since.idle
                               /\ since.busy + since.guest = since.busy
        BY <2>2
      <3> QED
        BY <2>10, <3>1
    <2> QED
      BY <2>8, <2>12, <2>13 DEF Cpu!RealUsageReaches
  <1>2. CpuInv => [Cpu!CompareSamples /\ cause' = "usage" =>
                      /\ since.idle >= 0
                      /\ since.guest = 0 => Cpu!RealUsageReaches(WarnUsage)
                      /\ 100 * (2 * since.busy) >=
                             WarnUsage * (2 * since.busy + since.idle)]_Cpu!vars
    BY <1>1
  <1> QED
    BY <1>2, CpuInvariance, PTL DEF UsageAlarmsAreReal, Cpu!UsageAlarmsAreReal

-----------------------------------------------------------------------------
(* The levels and chains of the tasks that judge one reading               *)

LEMMA MemoryLevels ==
    /\ Memory!OK = OK /\ Memory!WARN = WARN /\ Memory!ERROR = ERROR
    /\ \A reached, l, what : Memory!Check(reached, l, what) = Check(reached, l, what)
    /\ \A who, checks : Memory!FirstReached(who, checks) = FirstReached(who, checks)
    /\ \A l, who, what : Memory!Report(l, who, what) = Report(l, who, what)
    /\ \A condition, set : Memory!When(condition, set) = When(condition, set)
    /\ Memory!Failed = Failed
    /\ \A who : Memory!Fine(who) = Fine(who)
  BY DEF Memory!OK, Memory!WARN, Memory!ERROR, OK, WARN, ERROR, Memory!Check, Check,
         Memory!FirstReached, FirstReached, Memory!Fine, Fine, Memory!Report, Report,
         Memory!When, When, Memory!Failed, Failed

LEMMA TimeSyncLevels ==
    /\ TimeSync!OK = OK /\ TimeSync!WARN = WARN /\ TimeSync!ERROR = ERROR
    /\ \A reached, l, what : TimeSync!Check(reached, l, what) = Check(reached, l, what)
    /\ \A who, checks : TimeSync!FirstReached(who, checks) = FirstReached(who, checks)
    /\ \A l, who, what : TimeSync!Report(l, who, what) = Report(l, who, what)
    /\ \A condition, set : TimeSync!When(condition, set) = When(condition, set)
    /\ TimeSync!Failed = Failed
    /\ \A who : TimeSync!Fine(who) = Fine(who)
  BY DEF TimeSync!OK, TimeSync!WARN, TimeSync!ERROR, OK, WARN, ERROR, TimeSync!Check, Check,
         TimeSync!FirstReached, FirstReached, TimeSync!Fine, Fine, TimeSync!Report, Report,
         TimeSync!When, When, TimeSync!Failed, Failed

LEMMA ThermalLevels ==
    /\ Thermal!OK = OK /\ Thermal!WARN = WARN /\ Thermal!ERROR = ERROR
    /\ \A reached, l, what : Thermal!Check(reached, l, what) = Check(reached, l, what)
    /\ \A who, checks : Thermal!FirstReached(who, checks) = FirstReached(who, checks)
    /\ \A l, who, what : Thermal!Report(l, who, what) = Report(l, who, what)
    /\ \A condition, set : Thermal!When(condition, set) = When(condition, set)
    /\ Thermal!Failed = Failed
    /\ \A who : Thermal!Fine(who) = Fine(who)
  BY DEF Thermal!OK, Thermal!WARN, Thermal!ERROR, OK, WARN, ERROR, Thermal!Check, Check,
         Thermal!FirstReached, FirstReached, Thermal!Fine, Fine, Thermal!Report, Report,
         Thermal!When, When, Thermal!Failed, Failed

LEMMA DockerLevels ==
    /\ Docker!OK = OK /\ Docker!WARN = WARN /\ Docker!ERROR = ERROR
    /\ \A reached, l, what : Docker!Check(reached, l, what) = Check(reached, l, what)
    /\ \A who, checks : Docker!FirstReached(who, checks) = FirstReached(who, checks)
    /\ \A l, who, what : Docker!Report(l, who, what) = Report(l, who, what)
    /\ \A condition, set : Docker!When(condition, set) = When(condition, set)
    /\ Docker!Failed = Failed
    /\ \A who : Docker!Fine(who) = Fine(who)
  BY DEF Docker!OK, Docker!WARN, Docker!ERROR, OK, WARN, ERROR, Docker!Check, Check,
         Docker!FirstReached, FirstReached, Docker!Fine, Fine, Docker!Report, Report,
         Docker!When, When, Docker!Failed, Failed

LEMMA BatteryLevels ==
    /\ Battery!OK = OK /\ Battery!WARN = WARN /\ Battery!ERROR = ERROR
    /\ \A reached, l, what : Battery!Check(reached, l, what) = Check(reached, l, what)
    /\ \A who, checks : Battery!FirstReached(who, checks) = FirstReached(who, checks)
    /\ \A l, who, what : Battery!Report(l, who, what) = Report(l, who, what)
    /\ \A condition, set : Battery!When(condition, set) = When(condition, set)
    /\ Battery!Failed = Failed
    /\ \A who : Battery!Fine(who) = Fine(who)
  BY DEF Battery!OK, Battery!WARN, Battery!ERROR, OK, WARN, ERROR, Battery!Check, Check,
         Battery!FirstReached, FirstReached, Battery!Fine, Fine, Battery!Report, Report,
         Battery!When, When, Battery!Failed, Failed

-----------------------------------------------------------------------------
(* The memory task                                                         *)

\* The unsigned difference is never less than the true one, and the same if that is
\* not negative.
LEMMA UsedAtLeast ==
    ASSUME NEW total \in 0 .. TwoToThe64 - 1, NEW free \in 0 .. TwoToThe64 - 1
    PROVE  /\ Memory!Used(total, free) \in Nat
           /\ Memory!Used(total, free) >= total - free
           /\ free <= total => Memory!Used(total, free) = total - free
  <1> DEFINE x == total - free
  <1>1. TwoToThe64 \in Nat /\ TwoToThe64 > 0
    BY ThresholdAssumption
  <1>2. /\ x \in Int /\ -TwoToThe64 < x /\ x < TwoToThe64
        /\ (free <= total) = (x >= 0)
    BY <1>1
  <1>3. Memory!Used(total, free) = x % TwoToThe64
    BY DEF Memory!Used
  <1> HIDE DEF x
  <1>4. x % TwoToThe64 = IF x < 0 THEN x + TwoToThe64 ELSE x
    BY <1>1, <1>2
  <1> QED
    BY <1>1, <1>2, <1>3, <1>4 DEF x

\* The share that is judged against a threshold, and the true one.
LEMMA UsageIsJudgedHigh ==
    ASSUME NEW total \in 0 .. TwoToThe64 - 1, NEW free \in 0 .. TwoToThe64 - 1,
           NEW t \in Int
    PROVE  LET really == IF total = 0 THEN 0 >= t ELSE 100 * (total - free) >= t * total
           IN  /\ really => Memory!UsageReaches(total, free, t)
               /\ free <= total => Memory!UsageReaches(total, free, t) = really
  <1>1. /\ Memory!Used(total, free) \in Nat
        /\ Memory!Used(total, free) >= total - free
        /\ free <= total => Memory!Used(total, free) = total - free
    BY UsedAtLeast
  <1>2. t * total \in Int /\ TwoToThe64 \in Nat
    BY ThresholdAssumption
  <1>3. total - free \in Int
    BY <1>2
  <1>4. 100 * (total - free) >= t * total => 100 * Memory!Used(total, free) >= t * total
    BY <1>1, <1>2, <1>3
  <1> QED
    BY <1>1, <1>4 DEF Memory!UsageReaches

\* The four conditions of the chain, and the four reasons for an alarm.
MemoryReasons(p, meminfo) ==
    LET memory(t) == Memory!UsageReaches(meminfo["MemTotal"], meminfo["MemAvailable"], t)
        swap(t) == Memory!UsageReaches(meminfo["SwapTotal"], meminfo["SwapFree"], t)
    IN  FourReasons(0, Check(memory(p.error_usage), ERROR, "error_usage"),
                       Check(swap(p.error_swap_usage), ERROR, "error_swap_usage"),
                       Check(memory(p.warn_usage), WARN, "warn_usage"),
                       Check(swap(p.warn_swap_usage), WARN, "warn_swap_usage"))

LEMMA MemoryChain ==
    ASSUME NEW p, NEW meminfo, ~Memory!Unusable(meminfo)
    PROVE  IsWorstOf(MemoryReasons(p, meminfo), Memory!update(p, meminfo))
  <1> DEFINE memory(t) == Memory!UsageReaches(meminfo["MemTotal"], meminfo["MemAvailable"], t)
             swap(t) == Memory!UsageReaches(meminfo["SwapTotal"], meminfo["SwapFree"], t)
             c1 == Check(memory(p.error_usage), ERROR, "error_usage")
             c2 == Check(swap(p.error_swap_usage), ERROR, "error_swap_usage")
             c3 == Check(memory(p.warn_usage), WARN, "warn_usage")
             c4 == Check(swap(p.warn_swap_usage), WARN, "warn_swap_usage")
  <1>1. Memory!update(p, meminfo) = FirstReached(0, <<c1, c2, c3, c4>>)
    BY MemoryLevels DEF Memory!update
  <1>2. /\ c1.level = ERROR /\ c2.level = ERROR /\ c3.level = WARN /\ c4.level = WARN
    BY DEF Check
  <1>3. MemoryReasons(p, meminfo) = FourReasons(0, c1, c2, c3, c4)
    BY DEF MemoryReasons
  <1> HIDE DEF c1, c2, c3, c4
  <1> QED
    BY <1>1, <1>2, <1>3, FourChecks

LEMMA MemoryIsJudged ==
    ASSUME NEW p \in Parameters["memory"], NEW meminfo \in Readings["memory"]
    PROVE  /\ \A f \in Memory!Findings(p, meminfo) :
                 f.level <= Memory!update(p, meminfo).level
           /\ Memory!IsPlausible(meminfo) /\ Memory!update(p, meminfo).level # OK =>
                 Memory!update(p, meminfo) \in Memory!Findings(p, meminfo)
  <1>1. CASE Memory!Unusable(meminfo)
    <2>1. Memory!update(p, meminfo) = Failed /\ Memory!Findings(p, meminfo) = {Failed}
      BY <1>1, MemoryLevels DEF Memory!update, Memory!Findings
    <2> QED
      BY <2>1 DEF Failed, Report, ERROR
  <1>2. CASE ~Memory!Unusable(meminfo)
    <2>1. Memory!Keys \subseteq DOMAIN meminfo /\ meminfo \in [DOMAIN meminfo -> 0 .. TwoToThe64 - 1]
      BY <1>2, ThresholdAssumption DEF Memory!Unusable
    <2> DEFINE mt == meminfo["MemTotal"]
               ma == meminfo["MemAvailable"]
               st == meminfo["SwapTotal"]
               sf == meminfo["SwapFree"]
               really(total, free, t) ==
                 IF total = 0 THEN 0 >= t ELSE 100 * (total - free) >= t * total
               given == Memory!update(p, meminfo)
               seen == MemoryReasons(p, meminfo)
    <2>2. /\ mt \in 0 .. TwoToThe64 - 1 /\ ma \in 0 .. TwoToThe64 - 1
          /\ st \in 0 .. TwoToThe64 - 1 /\ sf \in 0 .. TwoToThe64 - 1
      BY <2>1 DEF Memory!Keys
    <2>3. /\ p.warn_usage \in Int /\ p.error_usage \in Int
          /\ p.warn_swap_usage \in Int /\ p.error_swap_usage \in Int
      BY ThresholdAssumption
    <2>4. Memory!Findings(p, meminfo) =
            When(really(mt, ma, p.error_usage), {Report(ERROR, 0, "error_usage")}) \cup
            When(really(st, sf, p.error_swap_usage), {Report(ERROR, 0, "error_swap_usage")}) \cup
            When(really(mt, ma, p.warn_usage), {Report(WARN, 0, "warn_usage")}) \cup
            When(really(st, sf, p.warn_swap_usage), {Report(WARN, 0, "warn_swap_usage")})
      BY <1>2, MemoryLevels DEF Memory!Findings
    <2>5. seen =
            When(Memory!UsageReaches(mt, ma, p.error_usage), {Report(ERROR, 0, "error_usage")}) \cup
            When(Memory!UsageReaches(st, sf, p.error_swap_usage), {Report(ERROR, 0, "error_swap_usage")}) \cup
            When(Memory!UsageReaches(mt, ma, p.warn_usage), {Report(WARN, 0, "warn_usage")}) \cup
            When(Memory!UsageReaches(st, sf, p.warn_swap_usage), {Report(WARN, 0, "warn_swap_usage")})
      BY DEF MemoryReasons, FourReasons, Check
    <2>6. IsWorstOf(seen, given)
      BY <1>2, MemoryChain
    <2>7. /\ really(mt, ma, p.error_usage) => Memory!UsageReaches(mt, ma, p.error_usage)
          /\ really(st, sf, p.error_swap_usage) => Memory!UsageReaches(st, sf, p.error_swap_usage)
          /\ really(mt, ma, p.warn_usage) => Memory!UsageReaches(mt, ma, p.warn_usage)
          /\ really(st, sf, p.warn_swap_usage) => Memory!UsageReaches(st, sf, p.warn_swap_usage)
      BY <2>2, <2>3, UsageIsJudgedHigh
    <2>8. ASSUME Memory!IsPlausible(meminfo)
          PROVE  /\ Memory!UsageReaches(mt, ma, p.error_usage) => really(mt, ma, p.error_usage)
                 /\ Memory!UsageReaches(st, sf, p.error_swap_usage) => really(st, sf, p.error_swap_usage)
                 /\ Memory!UsageReaches(mt, ma, p.warn_usage) => really(mt, ma, p.warn_usage)
                 /\ Memory!UsageReaches(st, sf, p.warn_swap_usage) => really(st, sf, p.warn_swap_usage)
      <3>1. ma <= mt /\ sf <= st
        BY <1>2, <2>8 DEF Memory!IsPlausible
      <3> QED
        BY <2>2, <2>3, <3>1, UsageIsJudgedHigh
    <2> HIDE DEF really, mt, ma, st, sf, given, seen
    <2>9. Memory!Findings(p, meminfo) \subseteq seen
      BY <2>4, <2>5, <2>7 DEF When
    <2>10. Memory!IsPlausible(meminfo) => Memory!Findings(p, meminfo) = seen
      BY <2>4, <2>5, <2>8, <2>9 DEF When
    <2> QED
      BY <2>6, <2>9, <2>10 DEF IsWorstOf, given
  <1> QED
    BY <1>1, <1>2

-----------------------------------------------------------------------------
(* The time synchronization task                                           *)

TimeSyncReasons(p, kernel) ==
    LET offset(t) == TimeSync!Absolute(TimeSync!ReportedOffset(kernel)) >= 1000 * t
        max_error(t) == kernel.maxerror >= 1000 * t
    IN  When(p.require_synchronized /\ (kernel.unsync \/ kernel.time_error),
             {Report(ERROR, 0, "unsynchronized")}) \cup
        When(offset(p.error_offset_ms), {Report(ERROR, 0, "error_offset_ms")}) \cup
        When(max_error(p.error_max_error_ms), {Report(ERROR, 0, "error_max_error_ms")}) \cup
        When(offset(p.warn_offset_ms), {Report(WARN, 0, "warn_offset_ms")}) \cup
        When(max_error(p.warn_max_error_ms), {Report(WARN, 0, "warn_max_error_ms")})

\* A chain of three errors and two warnings.
LEMMA FiveChecks ==
    ASSUME NEW c1, NEW c2, NEW c3, NEW c4, NEW c5, NEW who,
           c1.level = ERROR, c2.level = ERROR, c3.level = ERROR,
           c4.level = WARN, c5.level = WARN
    PROVE  IsWorstOf(When(c1.reached, {Report(ERROR, who, c1.what)}) \cup
                     When(c2.reached, {Report(ERROR, who, c2.what)}) \cup
                     When(c3.reached, {Report(ERROR, who, c3.what)}) \cup
                     When(c4.reached, {Report(WARN, who, c4.what)}) \cup
                     When(c5.reached, {Report(WARN, who, c5.what)}),
                     FirstReached(who, <<c1, c2, c3, c4, c5>>))
  <1> DEFINE checks == <<c1, c2, c3, c4, c5>>
  <1>1. DOMAIN checks = 1 .. 5 /\ 5 \in Nat
    OBVIOUS
  <1>2. checks[1] = c1 /\ checks[2] = c2 /\ checks[3] = c3 /\ checks[4] = c4 /\ checks[5] = c5
    OBVIOUS
  <1> HIDE DEF checks
  <1>3. \A n \in 1 .. 5 : n = 1 \/ n = 2 \/ n = 3 \/ n = 4 \/ n = 5
    OBVIOUS
  <1>4. IsChain(checks)
    <2>1. \A n \in 1 .. 5 : checks[n].level = IF n <= 3 THEN ERROR ELSE WARN
      BY <1>2, <1>3
    <2>2. \A n \in 1 .. 5 : checks[n].level \in {WARN, ERROR}
      BY <2>1
    <2>3. \A m, n \in 1 .. 5 : m <= n => checks[n].level <= checks[m].level
      BY <2>1 DEF WARN, ERROR
    <2> QED
      BY <1>1, <2>2, <2>3 DEF IsChain
  <1>5. {n \in DOMAIN checks : checks[n].reached} =
          When(c1.reached, {1}) \cup When(c2.reached, {2}) \cup When(c3.reached, {3}) \cup
          When(c4.reached, {4}) \cup When(c5.reached, {5})
    BY <1>1, <1>2, <1>3 DEF When
  <1>6. Reasons(who, checks) =
          When(c1.reached, {Report(ERROR, who, c1.what)}) \cup
          When(c2.reached, {Report(ERROR, who, c2.what)}) \cup
          When(c3.reached, {Report(ERROR, who, c3.what)}) \cup
          When(c4.reached, {Report(WARN, who, c4.what)}) \cup
          When(c5.reached, {Report(WARN, who, c5.what)})
    BY <1>2, <1>5 DEF Reasons, When
  <1>7. IsWorstOf(Reasons(who, checks), FirstReached(who, checks))
    BY <1>4, ChainFindsTheWorst
  <1> QED
    BY <1>6, <1>7 DEF checks

\* An offset that is misread is taken for a larger one.
LEMMA OffsetIsNotUnderestimated ==
    ASSUME NEW kernel \in Readings["time_sync"], NEW t
    PROVE  LET really == TimeSync!Absolute(kernel.offset) >= 1000 * t
               read == TimeSync!Absolute(TimeSync!ReportedOffset(kernel)) >= 1000 * t
           IN  /\ t \in Int /\ really => read
               /\ ~kernel.nano => read = really
  <1>1. kernel.offset \in Int
    BY ThresholdAssumption
  <1> QED
    BY <1>1 DEF TimeSync!Absolute, TimeSync!ReportedOffset

LEMMA TimeSyncIsJudged ==
    ASSUME NEW p \in Parameters["time_sync"], NEW kernel \in Readings["time_sync"]
    PROVE  LET given == TimeSync!update(p, TimeSync!sample_adjtimex(kernel))
               findings == TimeSync!Findings(p, kernel)
           IN  /\ \A f \in findings : f.level <= given.level
               /\ given.level # OK /\ ~TimeSync!IsMisread(kernel, given.what) =>
                    given \in findings
  <1> DEFINE sample == TimeSync!sample_adjtimex(kernel)
             given == TimeSync!update(p, sample)
             offset(t) == TimeSync!Absolute(TimeSync!ReportedOffset(kernel)) >= 1000 * t
             really(t) == TimeSync!Absolute(kernel.offset) >= 1000 * t
             max_error(t) == kernel.maxerror >= 1000 * t
             late == p.require_synchronized /\ ~sample.synchronized
             c1 == Check(late, ERROR, "unsynchronized")
             c2 == Check(offset(p.error_offset_ms), ERROR, "error_offset_ms")
             c3 == Check(max_error(p.error_max_error_ms), ERROR, "error_max_error_ms")
             c4 == Check(offset(p.warn_offset_ms), WARN, "warn_offset_ms")
             c5 == Check(max_error(p.warn_max_error_ms), WARN, "warn_max_error_ms")
  <1>1. CASE ~kernel.works
    <2>1. /\ given = Failed
          /\ TimeSync!Findings(p, kernel) = {Failed}
      BY <1>1, TimeSyncLevels DEF TimeSync!update, TimeSync!Findings,
         TimeSync!sample_adjtimex, TimeSync!FailedSample
    <2> QED
      BY <2>1 DEF Failed, Report, ERROR
  <1>2. CASE kernel.works
    <2>1. /\ sample.success
          /\ sample.synchronized = (~kernel.unsync /\ ~kernel.time_error)
          /\ sample.offset = TimeSync!ReportedOffset(kernel)
          /\ sample.max_error = kernel.maxerror
      BY <1>2 DEF TimeSync!sample_adjtimex
    <2> HIDE DEF sample
    <2>2. given = FirstReached(0, <<c1, c2, c3, c4, c5>>)
      BY <2>1, TimeSyncLevels DEF TimeSync!update
    <2>3. /\ c1.level = ERROR /\ c2.level = ERROR /\ c3.level = ERROR
          /\ c4.level = WARN /\ c5.level = WARN
      BY DEF Check
    <2>4. kernel.unsync \in BOOLEAN /\ kernel.time_error \in BOOLEAN
      BY ThresholdAssumption
    <2>5. late = (p.require_synchronized /\ (kernel.unsync \/ kernel.time_error))
      BY <2>1, <2>4
    <2>6. TimeSync!Findings(p, kernel) =
            When(late, {Report(ERROR, 0, "unsynchronized")}) \cup
            When(really(p.error_offset_ms), {Report(ERROR, 0, "error_offset_ms")}) \cup
            When(max_error(p.error_max_error_ms), {Report(ERROR, 0, "error_max_error_ms")}) \cup
            When(really(p.warn_offset_ms), {Report(WARN, 0, "warn_offset_ms")}) \cup
            When(max_error(p.warn_max_error_ms), {Report(WARN, 0, "warn_max_error_ms")})
      BY <1>2, <2>5 DEF TimeSync!Findings, TimeSync!When, When,
         TimeSync!Report, Report, TimeSync!ERROR, ERROR, TimeSync!WARN, WARN
    <2>7. TimeSyncReasons(p, kernel) =
            When(c1.reached, {Report(ERROR, 0, c1.what)}) \cup
            When(c2.reached, {Report(ERROR, 0, c2.what)}) \cup
            When(c3.reached, {Report(ERROR, 0, c3.what)}) \cup
            When(c4.reached, {Report(WARN, 0, c4.what)}) \cup
            When(c5.reached, {Report(WARN, 0, c5.what)})
      BY <2>5 DEF TimeSyncReasons, Check
    <2>8. TimeSyncReasons(p, kernel) =
            When(late, {Report(ERROR, 0, "unsynchronized")}) \cup
            When(offset(p.error_offset_ms), {Report(ERROR, 0, "error_offset_ms")}) \cup
            When(max_error(p.error_max_error_ms), {Report(ERROR, 0, "error_max_error_ms")}) \cup
            When(offset(p.warn_offset_ms), {Report(WARN, 0, "warn_offset_ms")}) \cup
            When(max_error(p.warn_max_error_ms), {Report(WARN, 0, "warn_max_error_ms")})
      BY <2>5 DEF TimeSyncReasons
    <2> HIDE DEF c1, c2, c3, c4, c5, late, given
    <2>9. IsWorstOf(TimeSyncReasons(p, kernel), given)
      BY <2>2, <2>3, <2>7, FiveChecks
    <2>10. /\ p.error_offset_ms \in Int /\ p.warn_offset_ms \in Int
      BY ThresholdAssumption
    <2>11. /\ really(p.error_offset_ms) => offset(p.error_offset_ms)
           /\ really(p.warn_offset_ms) => offset(p.warn_offset_ms)
           /\ ~kernel.nano => /\ offset(p.error_offset_ms) = really(p.error_offset_ms)
                              /\ offset(p.warn_offset_ms) = really(p.warn_offset_ms)
      BY <2>10, OffsetIsNotUnderestimated
    <2> HIDE DEF offset, really, max_error
    <2>12. TimeSync!Findings(p, kernel) \subseteq TimeSyncReasons(p, kernel)
      BY <2>6, <2>8, <2>11 DEF When
    <2>13. ASSUME given \in TimeSyncReasons(p, kernel),
                  ~TimeSync!IsMisread(kernel, given.what)
           PROVE  given \in TimeSync!Findings(p, kernel)
      <3>1. CASE ~kernel.nano
        BY <2>6, <2>8, <2>11, <2>13, <3>1 DEF When
      <3>2. CASE kernel.nano
        <4>1. given.what \notin {"error_offset_ms", "warn_offset_ms"}
          BY <2>13, <3>2 DEF TimeSync!IsMisread
        <4>2. \A l, what : Report(l, 0, what).what = what
          BY DEF Report
        <4> QED
          BY <2>6, <2>8, <2>13, <4>1, <4>2 DEF When
      <3> QED
        BY <3>1, <3>2
    <2> QED
      BY <2>9, <2>12, <2>13 DEF IsWorstOf, given, sample
  <1> QED
    BY <1>1, <1>2

-----------------------------------------------------------------------------
(* The battery task                                                        *)

BatteryReports ==
    [level : {OK, WARN, ERROR}, who : Nat, what : {"none", "error_capacity", "warn_capacity"}]

LEMMA SupplyType ==
    ASSUME NEW p, NEW supply, NEW n \in Nat, NEW found \in BatteryReports
    PROVE  Battery!AfterSupply(p, supply, found, n) \in BatteryReports
  BY BatteryLevels DEF Battery!AfterSupply, BatteryReports, Report

LEMMA SupplyLoop ==
    ASSUME NEW p, NEW supplies, Len(supplies) \in Nat
    PROVE  \E g : /\ g[0] = Fine(0)
                  /\ \A n \in 1 .. Len(supplies) :
                        g[n] = Battery!AfterSupply(p, supplies[n], g[n - 1], n)
                  /\ Battery!AfterSupplies(p, supplies) = g[Len(supplies)]
  <1> DEFINE N == Len(supplies)
             V == BatteryReports
             base == Fine(0)
             turn(n, v) == Battery!AfterSupply(p, supplies[n], v, n)
  <1>1. N \in Nat /\ base \in V
    BY DEF BatteryReports, Fine, Report
  <1>2. \A n \in 1 .. N : \A v \in V : turn(n, v) \in V
    BY SupplyType
  <1> HIDE DEF N, V, base
  <1> DEFINE F == [n \in 1 .. N |-> [v \in V |-> turn(n, v)]]
  <1>3. F \in [1 .. N -> [V -> V]]
    BY <1>2
  <1>4. \A n \in 1 .. N : \A v \in V : F[n][v] = turn(n, v)
    OBVIOUS
  <1> HIDE DEF F
  <1>5. PICK g : IsLoop(g, N, V, base, F)
    BY <1>1, <1>3, LoopExists
  <1>6. g \in [0 .. N -> V] /\ g[0] = base
    BY <1>5 DEF IsLoop
  <1>7. ASSUME NEW n \in 1 .. N
        PROVE  g[n] = turn(n, g[n - 1])
    <2>1. n - 1 \in 0 .. N
      BY <1>1
    <2>2. g[n] = F[n][g[n - 1]]
      BY <1>5 DEF IsLoop
    <2> QED
      BY <1>4, <1>6, <2>1, <2>2
  <1> DEFINE Solves(h) == h = [n \in 0 .. N |->
                                 IF n = 0 THEN base ELSE turn(n, h[n - 1])]
             after == CHOOSE h : Solves(h)
  <1>8. Solves(g)
    <2>1. \A n \in 0 .. N : g[n] = IF n = 0 THEN base ELSE turn(n, g[n - 1])
      BY <1>1, <1>6, <1>7
    <2> QED
      BY <1>6, <2>1
  <1>9. Solves(after)
    <2> HIDE DEF Solves
    <2> QED
      BY <1>8
  <1>10. Battery!AfterSupplies(p, supplies) = after[N]
    BY BatteryLevels DEF Battery!AfterSupplies, N, base
  <1> HIDE DEF after
  <1>11. /\ after[0] = base
         /\ \A n \in 1 .. N : after[n] = turn(n, after[n - 1])
    BY <1>1, <1>9
  <1> QED
    BY <1>10, <1>11 DEF N, base

\* What one supply is a reason for.
SupplyReasons(p, supply, n) ==
    When(supply.capacity <= p.error_capacity, {Report(ERROR, n, "error_capacity")}) \cup
    When(supply.capacity <= p.warn_capacity, {Report(WARN, n, "warn_capacity")})

\* One turn of the loop takes the reasons of its supply in.
LEMMA SupplySumsUp ==
    ASSUME NEW p, NEW supply, NEW n \in Nat, NEW found \in BatteryReports,
           NEW reasons, \A f \in reasons : f.level \in {WARN, ERROR},
           IsWorstOf(reasons, found)
    PROVE  IsWorstOf(reasons \cup SupplyReasons(p, supply, n),
                     Battery!AfterSupply(p, supply, found, n))
  <1> DEFINE low == supply.capacity <= p.error_capacity
             warned == supply.capacity <= p.warn_capacity
             after == Battery!AfterSupply(p, supply, found, n)
             own == SupplyReasons(p, supply, n)
  <1>1. /\ low => after = Report(ERROR, n, "error_capacity")
        /\ ~low /\ warned /\ found.level < WARN => after = Report(WARN, n, "warn_capacity")
        /\ ~low /\ ~(warned /\ found.level < WARN) => after = found
    BY BatteryLevels DEF Battery!AfterSupply
  <1>2. own = When(low, {Report(ERROR, n, "error_capacity")}) \cup
              When(warned, {Report(WARN, n, "warn_capacity")})
    BY DEF SupplyReasons
  <1>3. found.level \in {OK, WARN, ERROR}
    BY DEF BatteryReports
  <1> HIDE DEF low, warned, after, own
  <1>4. CASE low
    <2>1. \A f \in own : f.level \in {WARN, ERROR}
      BY <1>2 DEF When, Report
    <2>2. after \in own /\ after.level = ERROR
      BY <1>1, <1>2, <1>4 DEF When, Report
    <2> QED
      BY <2>1, <2>2 DEF IsWorstOf, OK, WARN, ERROR, after, own
  <1>5. CASE ~low /\ warned
    <2>1. own = {Report(WARN, n, "warn_capacity")}
      BY <1>2, <1>5 DEF When
    <2>2. CASE found.level < WARN
      <3>1. after \in own /\ after.level = WARN /\ found.level = OK
        BY <1>1, <1>3, <1>5, <2>1, <2>2 DEF Report, OK, WARN, ERROR
      <3>2. \A f \in reasons : FALSE
        BY <3>1 DEF IsWorstOf, OK, WARN, ERROR
      <3> QED
        BY <2>1, <3>1, <3>2 DEF IsWorstOf, OK, WARN, ERROR, after, own
    <2>3. CASE ~(found.level < WARN)
      <3>1. after = found /\ WARN <= found.level
        BY <1>1, <1>3, <1>5, <2>3 DEF OK, WARN, ERROR
      <3> QED
        BY <2>1, <3>1 DEF IsWorstOf, Report, after, own
    <2> QED
      BY <2>2, <2>3
  <1>6. CASE ~low /\ ~warned
    <2>1. own = {} /\ after = found
      BY <1>1, <1>2, <1>6 DEF When
    <2> QED
      BY <2>1 DEF after, own
  <1> QED
    BY <1>4, <1>5, <1>6

\* After the loop, the reasons of all supplies are taken in.
LEMMA SuppliesSumUp ==
    ASSUME NEW p, NEW supplies, Len(supplies) \in Nat
    PROVE  IsWorstOf(UNION {SupplyReasons(p, supplies[k], k) : k \in 1 .. Len(supplies)},
                     Battery!AfterSupplies(p, supplies))
  <1> DEFINE N == Len(supplies)
             upTo(n) == UNION {SupplyReasons(p, supplies[k], k) : k \in 1 .. n}
             J == [n \in 0 .. N |-> {found \in BatteryReports : IsWorstOf(upTo(n), found)}]
  <1>1. PICK g : /\ g[0] = Fine(0)
                 /\ \A n \in 1 .. N : g[n] = Battery!AfterSupply(p, supplies[n], g[n - 1], n)
                 /\ Battery!AfterSupplies(p, supplies) = g[N]
    BY SupplyLoop
  <1>2. \A n : \A f \in upTo(n) : f.level \in {WARN, ERROR}
    BY DEF SupplyReasons, When, Report
  <1>3. upTo(0) = {}
    OBVIOUS
  <1>4. ASSUME NEW n \in 1 .. N
        PROVE  upTo(n) = upTo(n - 1) \cup SupplyReasons(p, supplies[n], n)
    <2>1. 1 .. n = (1 .. n - 1) \cup {n}
      OBVIOUS
    <2> QED
      BY <2>1
  <1> HIDE DEF upTo
  <1>5. g[0] \in J[0]
    <2>1. 0 \in 0 .. N /\ Fine(0) \in BatteryReports
      BY DEF BatteryReports, Fine, Report
    <2>2. IsWorstOf(upTo(0), Fine(0))
      BY <1>3 DEF IsWorstOf, Fine, Report
    <2> QED
      BY <1>1, <2>1, <2>2
  <1>6. ASSUME NEW n \in 1 .. N, g[n - 1] \in J[n - 1]
        PROVE  g[n] \in J[n]
    <2>1. n - 1 \in 0 .. N /\ n \in 0 .. N /\ n \in Nat
      OBVIOUS
    <2>2. g[n - 1] \in BatteryReports /\ IsWorstOf(upTo(n - 1), g[n - 1])
      BY <1>6, <2>1
    <2>3. g[n] \in BatteryReports
      BY <1>1, <2>1, <2>2, SupplyType
    <2>4. IsWorstOf(upTo(n), g[n])
      BY <1>1, <1>2, <1>4, <2>1, <2>2, SupplySumsUp
    <2> QED
      BY <2>1, <2>3, <2>4
  <1> HIDE DEF J
  <1>7. \A n \in 0 .. N : g[n] \in J[n]
    BY <1>5, <1>6, LoopKeeps
  <1>8. g[N] \in J[N] /\ N \in 0 .. N
    BY <1>7
  <1> QED
    BY <1>1, <1>8 DEF J, upTo

LEMMA BatteryIsJudged ==
    ASSUME NEW p, NEW supplies \in Readings["battery"]
    PROVE  IsWorstOf(Battery!Findings(p, supplies), Battery!update(p, supplies))
  <1> DEFINE failing == {n \in DOMAIN supplies : Battery!Throws(p, supplies[n])}
             at_most(capacity) ==
                 {n \in DOMAIN supplies \ failing : supplies[n].capacity <= capacity}
             errors == {Report(ERROR, n, "error_capacity") : n \in at_most(p.error_capacity)}
             warnings == {Report(WARN, n, "warn_capacity") : n \in at_most(p.warn_capacity)}
  <1>1. Battery!Findings(p, supplies) =
            When(supplies = <<>> \/ failing # {}, {Failed}) \cup errors \cup warnings
    BY BatteryLevels DEF Battery!Findings, Battery!When, When, Battery!Report, Report,
       Battery!ERROR, ERROR, Battery!WARN, WARN
  <1>2. supplies \in Seq([exists : BOOLEAN, present : BOOLEAN, readable : BOOLEAN, capacity : Int])
    BY ThresholdAssumption
  <1>3. DOMAIN supplies = 1 .. Len(supplies) /\ Len(supplies) \in Nat
    BY <1>2
  <1>4. CASE supplies = <<>> \/ failing # {}
    <2>1. Battery!update(p, supplies) = Failed
      BY <1>4, BatteryLevels DEF Battery!update
    <2>2. \A f \in errors \cup warnings : f.level <= ERROR
      BY DEF Report, WARN, ERROR
    <2>3. Failed.level = ERROR /\ ERROR <= ERROR
      BY DEF Failed, Report, ERROR
    <2> HIDE DEF errors, warnings, failing
    <2> QED
      BY <1>1, <1>4, <2>1, <2>2, <2>3 DEF When, IsWorstOf
  <1>5. CASE ~(supplies = <<>> \/ failing # {})
    <2>1. Battery!update(p, supplies) = Battery!AfterSupplies(p, supplies)
      BY <1>5 DEF Battery!update
    <2>2. errors \cup warnings =
            UNION {SupplyReasons(p, supplies[k], k) : k \in 1 .. Len(supplies)}
      BY <1>3, <1>5 DEF SupplyReasons, When
    <2>3. Battery!Findings(p, supplies) = errors \cup warnings
      BY <1>1, <1>5 DEF When
    <2> QED
      BY <1>3, <2>1, <2>2, <2>3, SuppliesSumUp
  <1> QED
    BY <1>4, <1>5

-----------------------------------------------------------------------------
(* The Docker memory task: percentages compared by multiplying out         *)

LEMMA Scale ==
    ASSUME NEW x \in Int, NEW y \in Int, NEW k \in Nat
    PROVE  /\ x >= y => x * k >= y * k
           /\ k > 0 /\ x * k >= y * k => x >= y
  OBVIOUS

LEMMA Reorder ==
    ASSUME NEW x \in Int, NEW y \in Int, NEW z \in Int
    PROVE  (x * y) * z = (x * z) * y /\ x * y = y * x
  OBVIOUS

ContainersType == [usage : Nat, limit : Nat]

\* Of three containers, the middle one lies on one side or the other of a difference.
LEMMA FullnessIsOrdered ==
    ASSUME NEW a \in ContainersType, NEW b \in ContainersType, NEW c \in ContainersType
    PROVE  /\ Docker!LessFull(a, b) => ~Docker!LessFull(b, a)
           /\ Docker!LessFull(a, c) => Docker!LessFull(a, b) \/ Docker!LessFull(b, c)
  <1>1. /\ a.usage \in Nat /\ a.limit \in Nat /\ b.usage \in Nat /\ b.limit \in Nat
        /\ c.usage \in Nat /\ c.limit \in Nat
    BY DEF ContainersType
  <1>2. Docker!LessFull(a, b) => ~Docker!LessFull(b, a)
    BY <1>1 DEF Docker!LessFull
  <1>3. ASSUME ~Docker!LessFull(a, b), ~Docker!LessFull(b, c), Docker!LessFull(a, c)
        PROVE  FALSE
    <2>1. c.limit # 0
      BY <1>3 DEF Docker!LessFull
    <2>2. CASE a.limit = 0
      <3>1. c.usage > 0
        BY <1>3, <2>1, <2>2 DEF Docker!LessFull
      <3>2. b.limit # 0
        BY <1>3, <2>1, <3>1 DEF Docker!LessFull
      <3>3. b.usage = 0
        BY <1>1, <1>3, <2>2, <3>2 DEF Docker!LessFull
      <3>4. ~(b.usage * c.limit < c.usage * b.limit)
        BY <1>3, <2>1, <3>2 DEF Docker!LessFull
      <3>5. b.usage * c.limit = 0
        BY <1>1, <3>3
      <3>6. c.usage * b.limit > 0
        BY <1>1, <3>1, <3>2
      <3> QED
        BY <3>4, <3>5, <3>6
    <2>3. CASE a.limit # 0 /\ b.limit = 0
      <3>1. a.usage * c.limit < c.usage * a.limit
        BY <1>3, <2>1, <2>3 DEF Docker!LessFull
      <3>2. ~(c.usage > 0)
        BY <1>3, <2>1, <2>3 DEF Docker!LessFull
      <3>3. c.usage = 0
        BY <1>1, <3>2
      <3>4. c.usage * a.limit = 0 /\ a.usage * c.limit \in Nat
        BY <1>1, <3>3
      <3> QED
        BY <3>1, <3>4
    <2>4. CASE a.limit # 0 /\ b.limit # 0
      <3> DEFINE ab == a.usage * b.limit
                 ba == b.usage * a.limit
                 bc == b.usage * c.limit
                 cb == c.usage * b.limit
                 ac == a.usage * c.limit
                 ca == c.usage * a.limit
      <3>1. ab >= ba /\ bc >= cb /\ ac < ca
        BY <1>1, <1>3, <2>1, <2>4 DEF Docker!LessFull
      <3>2. /\ ab \in Int /\ ba \in Int /\ bc \in Int
            /\ cb \in Int /\ ac \in Int /\ ca \in Int
        BY <1>1
      <3>3. ab * c.limit = ac * b.limit
        BY <1>1, Reorder
      <3>4. ba * c.limit = bc * a.limit
        BY <1>1, Reorder
      <3>5. cb * a.limit = ca * b.limit
        BY <1>1, Reorder
      <3> HIDE DEF ab, ba, bc, cb, ac, ca
      <3>6. ab * c.limit >= ba * c.limit
        BY <1>1, <3>1, <3>2, Scale
      <3>7. bc * a.limit >= cb * a.limit
        BY <1>1, <3>1, <3>2, Scale
      <3>8. ac * b.limit >= ca * b.limit
        <4>1. /\ ab * c.limit \in Int /\ bc * a.limit \in Int /\ cb * a.limit \in Int
              /\ ba * c.limit \in Int
          BY <1>1, <3>2
        <4> QED
          BY <3>3, <3>4, <3>5, <3>6, <3>7, <4>1
      <3>9. ac >= ca
        BY <1>1, <2>4, <3>2, <3>8, Scale
      <3> QED
        BY <3>1, <3>2, <3>9
    <2> QED
      BY <2>2, <2>3, <2>4
  <1> QED
    BY <1>2, <1>3

\* A percentage that a container reaches is reached by a fuller one.
LEMMA FullerReaches ==
    ASSUME NEW worst \in ContainersType, NEW other \in ContainersType, NEW t \in Int,
           ~Docker!LessFull(worst, other), Docker!PercentReaches(other, t)
    PROVE  Docker!PercentReaches(worst, t)
  <1>1. /\ worst.usage \in Nat /\ worst.limit \in Nat
        /\ other.usage \in Nat /\ other.limit \in Nat
    BY DEF ContainersType
  <1>2. CASE other.limit = 0
    <2>1. 0 >= t
      BY <1>2 DEF Docker!PercentReaches
    <2>2. t * worst.limit <= 0
      BY <1>1, <2>1
    <2> QED
      BY <1>1, <2>1, <2>2 DEF Docker!PercentReaches
  <1>3. CASE other.limit # 0 /\ worst.limit = 0
    <2>1. other.usage = 0
      BY <1>1, <1>3 DEF Docker!LessFull
    <2>2. 0 >= t * other.limit
      BY <1>1, <1>3, <2>1 DEF Docker!PercentReaches
    <2>3. 0 >= t
      BY <1>1, <1>3, <2>2
    <2> QED
      BY <1>3, <2>3 DEF Docker!PercentReaches
  <1>4. CASE other.limit # 0 /\ worst.limit # 0
    <2> DEFINE wo == worst.usage * other.limit
               ow == other.usage * worst.limit
               to == t * other.limit
               tw == t * worst.limit
    <2>1. wo >= ow /\ 100 * other.usage >= to
      BY <1>1, <1>4 DEF Docker!LessFull, Docker!PercentReaches
    <2>2. wo \in Int /\ ow \in Int /\ to \in Int /\ tw \in Int
      BY <1>1
    <2>3. (100 * other.usage) * worst.limit = 100 * ow
      BY <1>1
    <2>4. to * worst.limit = tw * other.limit
      BY <1>1, Reorder
    <2>5. 100 * wo = (100 * worst.usage) * other.limit
      BY <1>1
    <2> HIDE DEF wo, ow, to, tw
    <2>6. (100 * other.usage) * worst.limit >= to * worst.limit
      BY <1>1, <2>1, <2>2, Scale
    <2>7. (100 * worst.usage) * other.limit >= tw * other.limit
      <3>1. tw * other.limit \in Int
        BY <1>1, <2>2
      <3> QED
        BY <2>1, <2>2, <2>3, <2>4, <2>5, <2>6, <3>1
    <2>8. 100 * worst.usage >= tw
      BY <1>1, <1>4, <2>2, <2>7, Scale
    <2> QED
      BY <1>4, <2>8 DEF tw, Docker!PercentReaches
  <1> QED
    BY <1>2, <1>3, <1>4

\* There is a container that is judged, and none is fuller.
LEMMA WorstContainerExists ==
    ASSUME NEW containers \in Seq(ContainersType), containers # <<>>
    PROVE  LET worst == Docker!WorstContainer(containers)
           IN  /\ worst \in DOMAIN containers
               /\ \A m \in DOMAIN containers :
                     ~Docker!LessFull(containers[worst], containers[m])
  <1> DEFINE N == Len(containers)
             Less == {ab \in (1 .. N) \X (1 .. N) :
                        Docker!LessFull(containers[ab[1]], containers[ab[2]])}
             IsFirst(n) == /\ \A m \in DOMAIN containers :
                                  ~Docker!LessFull(containers[n], containers[m])
                           /\ \A m \in 1 .. (n - 1) :
                                  Docker!LessFull(containers[m], containers[n])
  <1>1. N \in Nat \ {0} /\ DOMAIN containers = 1 .. N
    OBVIOUS
  <1>2. \A n \in 1 .. N : containers[n] \in ContainersType
    OBVIOUS
  <1>3. \A a, b \in 1 .. N :
            <<a, b>> \in Less <=> Docker!LessFull(containers[a], containers[b])
    OBVIOUS
  <1> HIDE DEF Less, N
  <1>4. \A a, b \in 1 .. N : <<a, b>> \in Less => <<b, a>> \notin Less
    BY <1>2, <1>3, FullnessIsOrdered
  <1>5. \A a, b, c \in 1 .. N :
            <<a, c>> \in Less => <<a, b>> \in Less \/ <<b, c>> \in Less
    BY <1>2, <1>3, FullnessIsOrdered
  <1>6. PICK n \in 1 .. N : /\ \A m \in 1 .. N : <<n, m>> \notin Less
                            /\ \A m \in 1 .. n - 1 : <<m, n>> \in Less
    BY <1>1, <1>4, <1>5, FirstLargestExists
  <1>7. \A m \in 1 .. n - 1 : m \in 1 .. N
    BY <1>1
  <1>8. n \in DOMAIN containers /\ IsFirst(n)
    BY <1>1, <1>3, <1>6, <1>7
  <1>9. Docker!WorstContainer(containers) = CHOOSE m \in DOMAIN containers : IsFirst(m)
    BY DEF Docker!WorstContainer
  <1> HIDE DEF IsFirst
  <1>10. /\ Docker!WorstContainer(containers) \in DOMAIN containers
         /\ IsFirst(Docker!WorstContainer(containers))
    BY <1>8, <1>9
  <1> QED
    BY <1>10 DEF IsFirst

\* A byte threshold that is not misread is the one that was set.
LEMMA BytesAreKept ==
    ASSUME NEW n \in 0 .. TwoToThe32 \div 2 - 1
    PROVE  Docker!StoredBytes(n) = n
  <1> DEFINE h == TwoToThe32 \div 2
  <1>1. TwoToThe32 \in Nat /\ TwoToThe64 \in Nat /\ TwoToThe32 <= TwoToThe64
    BY ThresholdAssumption
  <1>2. h \in Nat /\ 2 * h <= TwoToThe32
    BY <1>1
  <1>3. n \in Nat /\ n < h
    BY <1>2
  <1>4. Docker!AsInt(n) = ((n + h) % TwoToThe32) - h
    BY DEF Docker!AsInt
  <1> HIDE DEF h
  <1>5. n + h \in Nat /\ n + h < TwoToThe32
    BY <1>1, <1>2, <1>3
  <1>6. (n + h) % TwoToThe32 = n + h
    BY <1>1, <1>5
  <1>7. Docker!AsInt(n) = n
    BY <1>2, <1>3, <1>4, <1>6
  <1>8. n % TwoToThe64 = n
    BY <1>1, <1>2, <1>3
  <1> QED
    BY <1>7, <1>8 DEF Docker!StoredBytes

LEMMA DockerIsJudged ==
    ASSUME NEW p \in Parameters["docker"], NEW sample \in Readings["docker"]
    PROVE  LET given == Docker!update(p, sample)
               findings == Docker!Findings(p, sample)
           IN  /\ \A f \in findings :
                    \/ f.level <= given.level
                    \/ f.what \in Docker!ByteThresholds /\ f.who # given.who
                    \/ Docker!IsMisread(p, f.what)
               /\ given.level # OK /\ ~Docker!IsMisread(p, given.what) => given \in findings
  <1> DEFINE given == Docker!update(p, sample)
             findings == Docker!Findings(p, sample)
             containers == sample.containers
  <1>1. sample.containers \in Seq(ContainersType) /\ sample.success \in BOOLEAN
    BY ThresholdAssumption DEF ContainersType
  <1>2. CASE ~sample.success
    <2>1. given = Failed /\ findings = {Failed}
      BY <1>2, DockerLevels DEF Docker!update, Docker!Findings
    <2> QED
      BY <2>1 DEF Failed, Report, ERROR
  <1>3. CASE sample.success /\ containers = <<>>
    <2>1. given = Fine(0)
      BY <1>3, DockerLevels DEF Docker!update
    <2>2. findings = {}
      BY <1>3 DEF Docker!Findings
    <2> QED
      BY <2>1, <2>2 DEF Fine, Report
  <1>4. CASE sample.success /\ containers # <<>>
    <2> DEFINE n == Docker!WorstContainer(containers)
               worst == containers[n]
               bytes(container, t) == t > 0 /\ container.usage >= t
               seen == When(Docker!BytesReach(worst, p.error_usage_bytes),
                            {Report(ERROR, n, "error_usage_bytes")}) \cup
                       When(Docker!PercentReaches(worst, p.error_usage),
                            {Report(ERROR, n, "error_usage")}) \cup
                       When(Docker!BytesReach(worst, p.warn_usage_bytes),
                            {Report(WARN, n, "warn_usage_bytes")}) \cup
                       When(Docker!PercentReaches(worst, p.warn_usage),
                            {Report(WARN, n, "warn_usage")})
               of(m) == When(Docker!PercentReaches(containers[m], p.error_usage),
                             {Report(ERROR, m, "error_usage")}) \cup
                        When(Docker!PercentReaches(containers[m], p.warn_usage),
                             {Report(WARN, m, "warn_usage")}) \cup
                        When(bytes(containers[m], p.error_usage_bytes),
                             {Report(ERROR, m, "error_usage_bytes")}) \cup
                        When(bytes(containers[m], p.warn_usage_bytes),
                             {Report(WARN, m, "warn_usage_bytes")})
    <2>1. IsWorstOf(seen, given) /\ given.who = n
      <3> DEFINE c1 == Check(Docker!BytesReach(worst, p.error_usage_bytes), ERROR, "error_usage_bytes")
                 c2 == Check(Docker!PercentReaches(worst, p.error_usage), ERROR, "error_usage")
                 c3 == Check(Docker!BytesReach(worst, p.warn_usage_bytes), WARN, "warn_usage_bytes")
                 c4 == Check(Docker!PercentReaches(worst, p.warn_usage), WARN, "warn_usage")
      <3>1. given = FirstReached(n, <<c1, c2, c3, c4>>)
        BY <1>4, DockerLevels DEF Docker!update, Docker!Summary
      <3>2. /\ c1.level = ERROR /\ c2.level = ERROR /\ c3.level = WARN /\ c4.level = WARN
        BY DEF Check
      <3>3. seen = FourReasons(n, c1, c2, c3, c4)
        BY DEF FourReasons, Check
      <3> HIDE DEF given, c1, c2, c3, c4, n, seen
      <3> QED
        BY <3>1, <3>2, <3>3, FourChecks
    <2>2. /\ n \in DOMAIN containers
          /\ \A m \in DOMAIN containers : ~Docker!LessFull(worst, containers[m])
      BY <1>1, <1>4, WorstContainerExists
    <2>3. \A m \in DOMAIN containers : containers[m] \in ContainersType
      BY <1>1
    <2>4. /\ p.error_usage \in Int /\ p.warn_usage \in Int
          /\ p.error_usage_bytes \in Int /\ p.warn_usage_bytes \in Int
      BY ThresholdAssumption
    <2>5. findings = UNION {of(m) : m \in DOMAIN containers}
      BY <1>4 DEF Docker!Findings, Docker!FindingsOf, Docker!When, When, Docker!Report,
         Report, Docker!ERROR, ERROR, Docker!WARN, WARN
    <2>6. /\ ~Docker!IsMisread(p, "error_usage_bytes") =>
               (Docker!BytesReach(worst, p.error_usage_bytes) <=>
                    bytes(worst, p.error_usage_bytes))
          /\ ~Docker!IsMisread(p, "warn_usage_bytes") =>
               (Docker!BytesReach(worst, p.warn_usage_bytes) <=>
                    bytes(worst, p.warn_usage_bytes))
      <3>1. /\ ~Docker!IsMisread(p, "error_usage_bytes") =>
                 p.error_usage_bytes \in 0 .. TwoToThe32 \div 2 - 1
            /\ ~Docker!IsMisread(p, "warn_usage_bytes") =>
                 p.warn_usage_bytes \in 0 .. TwoToThe32 \div 2 - 1
        BY DEF Docker!IsMisread, Docker!ByteThresholds
      <3> HIDE DEF n
      <3> QED
        BY <3>1, BytesAreKept DEF Docker!BytesReach
    <2>7. ASSUME NEW m \in DOMAIN containers
          PROVE  /\ Docker!PercentReaches(containers[m], p.error_usage) =>
                      Docker!PercentReaches(worst, p.error_usage)
                 /\ Docker!PercentReaches(containers[m], p.warn_usage) =>
                      Docker!PercentReaches(worst, p.warn_usage)
      BY <2>2, <2>3, <2>4, FullerReaches
    <2>8. \A l, m, what : /\ Report(l, m, what).level = l
                          /\ Report(l, m, what).who = m
                          /\ Report(l, m, what).what = what
      BY DEF Report
    <2>9. \A f \in seen : f.level <= given.level
      BY <2>1 DEF IsWorstOf
    <2> HIDE DEF given, findings, n, bytes
    <2>10. ASSUME NEW m \in DOMAIN containers, NEW f \in of(m)
           PROVE  \/ f.level <= given.level
                  \/ f.what \in Docker!ByteThresholds /\ f.who # n
                  \/ Docker!IsMisread(p, f.what)
      <3>1. CASE f = Report(ERROR, m, "error_usage") /\
                 Docker!PercentReaches(containers[m], p.error_usage)
        <4>1. Report(ERROR, n, "error_usage") \in seen
          BY <2>7, <3>1 DEF When
        <4> QED
          BY <2>8, <2>9, <3>1, <4>1
      <3>2. CASE f = Report(WARN, m, "warn_usage") /\
                 Docker!PercentReaches(containers[m], p.warn_usage)
        <4>1. Report(WARN, n, "warn_usage") \in seen
          BY <2>7, <3>2 DEF When
        <4> QED
          BY <2>8, <2>9, <3>2, <4>1
      <3>3. CASE f = Report(ERROR, m, "error_usage_bytes") /\
                 bytes(containers[m], p.error_usage_bytes)
        <4>1. m = n /\ ~Docker!IsMisread(p, "error_usage_bytes") =>
                Report(ERROR, n, "error_usage_bytes") \in seen
          BY <2>6, <3>3 DEF When
        <4>2. f.what = "error_usage_bytes" /\ f.who = m /\ f.level = ERROR
          BY <2>8, <3>3
        <4> QED
          BY <2>8, <2>9, <4>1, <4>2 DEF Docker!ByteThresholds
      <3>4. CASE f = Report(WARN, m, "warn_usage_bytes") /\
                 bytes(containers[m], p.warn_usage_bytes)
        <4>1. m = n /\ ~Docker!IsMisread(p, "warn_usage_bytes") =>
                Report(WARN, n, "warn_usage_bytes") \in seen
          BY <2>6, <3>4 DEF When
        <4>2. f.what = "warn_usage_bytes" /\ f.who = m /\ f.level = WARN
          BY <2>8, <3>4
        <4> QED
          BY <2>8, <2>9, <4>1, <4>2 DEF Docker!ByteThresholds
      <3> QED
        BY <2>10, <3>1, <3>2, <3>3, <3>4 DEF When
    <2>11. ASSUME given \in seen, ~Docker!IsMisread(p, given.what)
           PROVE  given \in of(n)
      <3>1. given.what = "error_usage_bytes" => ~Docker!IsMisread(p, "error_usage_bytes")
        BY <2>11
      <3>2. given.what = "warn_usage_bytes" => ~Docker!IsMisread(p, "warn_usage_bytes")
        BY <2>11
      <3>3. CASE given = Report(ERROR, n, "error_usage_bytes") /\
                 Docker!BytesReach(worst, p.error_usage_bytes)
        BY <2>6, <2>8, <3>1, <3>3 DEF When
      <3>4. CASE given = Report(WARN, n, "warn_usage_bytes") /\
                 Docker!BytesReach(worst, p.warn_usage_bytes)
        BY <2>6, <2>8, <3>2, <3>4 DEF When
      <3>5. CASE \/ given = Report(ERROR, n, "error_usage") /\
                    Docker!PercentReaches(worst, p.error_usage)
                 \/ given = Report(WARN, n, "warn_usage") /\
                    Docker!PercentReaches(worst, p.warn_usage)
        BY <3>5 DEF When
      <3> QED
        BY <2>11, <3>3, <3>4, <3>5 DEF When
    <2> HIDE DEF seen, of
    <2>12. given.level # OK => given \in seen
      BY <2>1 DEF IsWorstOf
    <2>13. \A f \in findings :
              \/ f.level <= given.level
              \/ f.what \in Docker!ByteThresholds /\ f.who # given.who
              \/ Docker!IsMisread(p, f.what)
      BY <2>1, <2>5, <2>10
    <2>14. given.level # OK /\ ~Docker!IsMisread(p, given.what) => given \in findings
      BY <2>2, <2>5, <2>11, <2>12
    <2> QED
      BY <2>13, <2>14 DEF given, findings
  <1> QED
    BY <1>1, <1>2, <1>3, <1>4

-----------------------------------------------------------------------------
(* The thermal task                                                        *)

\* A finite set of numbers is enumerated in its order, without leaving one out.
LEMMA ZonesAreEnumerated ==
    ASSUME NEW sysfs, IsFiniteSet(DOMAIN sysfs.zone), DOMAIN sysfs.zone \subseteq Nat
    PROVE  LET zones == Thermal!discover_thermal_zones(sysfs)
           IN  /\ DOMAIN zones = 1 .. Cardinality(DOMAIN sysfs.zone)
               /\ Cardinality(DOMAIN sysfs.zone) \in Nat
               /\ zones \in [DOMAIN zones -> DOMAIN sysfs.zone]
               /\ {zones[n] : n \in DOMAIN zones} = DOMAIN sysfs.zone
  <1> DEFINE there == DOMAIN sysfs.zone
             N == Cardinality(there)
             below(z) == {y \in there : y < z}
             rank == [z \in there |-> Cardinality(below(z)) + 1]
             zones == Thermal!discover_thermal_zones(sysfs)
  <1>1. IsFiniteSet(there) /\ there \subseteq Nat /\ N \in Nat
    BY FS_CardinalityType
  <1>2. zones = [n \in 1 .. N |-> CHOOSE z \in there : Cardinality(below(z)) = n - 1]
    BY DEF Thermal!discover_thermal_zones, Thermal!Cardinality, Cardinality
  <1> HIDE DEF there, N, zones
  <1>3. ASSUME NEW z \in there
        PROVE  /\ IsFiniteSet(below(z)) /\ Cardinality(below(z)) \in Nat
               /\ Cardinality(below(z)) + 1 \in 1 .. N
    <2>1. IsFiniteSet(below(z)) /\ below(z) \subseteq there
      BY <1>1, FS_Subset
    <2>2. z \notin below(z)
      BY <1>1
    <2> HIDE DEF below
    <2>3. Cardinality(below(z)) \in Nat
      BY <2>1, FS_CardinalityType
    <2>4. below(z) \cup {z} \subseteq there
      BY <2>1
    <2>5. Cardinality(below(z) \cup {z}) = Cardinality(below(z)) + 1
      BY <2>1, <2>2, FS_AddElement
    <2>6. Cardinality(below(z) \cup {z}) <= Cardinality(there)
      BY <1>1, <2>4, FS_Subset
    <2> QED
      BY <1>1, <2>1, <2>3, <2>5, <2>6 DEF N
  <1>4. ASSUME NEW y \in there, NEW z \in there, y < z
        PROVE  Cardinality(below(y)) < Cardinality(below(z))
    <2>1. below(y) \cup {y} \subseteq below(z) /\ y \notin below(y)
      <3>1. y \in Nat /\ z \in Nat
        BY <1>1
      <3>2. ~(y < y)
        BY <3>1
      <3>3. \A x \in there : x < y => x < z
        BY <1>1, <1>4, <3>1
      <3> QED
        BY <1>4, <3>2, <3>3
    <2> HIDE DEF below
    <2>2. Cardinality(below(y) \cup {y}) = Cardinality(below(y)) + 1
      BY <1>3, <2>1, FS_AddElement
    <2>3. Cardinality(below(y) \cup {y}) <= Cardinality(below(z))
      BY <1>3, <2>1, FS_Subset
    <2> QED
      BY <1>3, <2>2, <2>3
  <1>5. \A y, z \in there : Cardinality(below(y)) = Cardinality(below(z)) => y = z
    <2> TAKE y, z \in there
    <2>1. y \in Nat /\ z \in Nat
      BY <1>1
    <2>2. y < z \/ z < y \/ y = z
      BY <2>1
    <2>3. Cardinality(below(y)) \in Nat /\ Cardinality(below(z)) \in Nat
      BY <1>3
    <2> HIDE DEF below
    <2> QED
      BY <1>4, <2>2, <2>3
  <1>6. rank \in [there -> 1 .. N]
    BY <1>3
  <1>7. \A z \in there : rank[z] = Cardinality(below(z)) + 1
    OBVIOUS
  <1> HIDE DEF rank, below
  <1>8. rank \in Injection(there, 1 .. N)
    <2>1. \A y, z \in there : rank[y] = rank[z] => y = z
      BY <1>3, <1>5, <1>7
    <2> QED
      BY <1>6, <2>1 DEF Injection, IsInjective
  <1>9. IsFiniteSet(1 .. N) /\ Cardinality(1 .. N) = N
    BY <1>1, FS_Interval
  <1>10. rank \in Surjection(there, 1 .. N)
    BY <1>8, <1>9, FS_Injection DEF N
  <1>11. \A n \in 1 .. N : \E z \in there : Cardinality(below(z)) = n - 1
    <2> TAKE n \in 1 .. N
    <2>1. PICK z \in there : rank[z] = n
      BY <1>10 DEF Surjection
    <2> QED
      BY <1>3, <1>7, <2>1
  <1>12. \A n \in 1 .. N : zones[n] \in there /\ Cardinality(below(zones[n])) = n - 1
    BY <1>2, <1>11
  <1>13. \A z \in there : \E n \in 1 .. N : zones[n] = z
    <2> TAKE z \in there
    <2>1. rank[z] \in 1 .. N /\ rank[z] - 1 = Cardinality(below(z))
      BY <1>3, <1>7
    <2>2. zones[rank[z]] \in there /\ Cardinality(below(zones[rank[z]])) = Cardinality(below(z))
      BY <1>12, <2>1
    <2> QED
      BY <1>5, <2>1, <2>2
  <1>14. DOMAIN zones = 1 .. N
    BY <1>2
  <1>15. {zones[n] : n \in DOMAIN zones} = there
    BY <1>12, <1>13, <1>14
  <1>16. zones \in [DOMAIN zones -> there]
    BY <1>2, <1>12, <1>14
  <1> QED
    BY <1>1, <1>14, <1>15, <1>16 DEF there, N, zones

\* There is a zone that is judged, and none is hotter.
LEMMA WorstZoneExists ==
    ASSUME NEW zones, NEW sysfs, NEW N \in Nat \ {0}, DOMAIN zones = 1 .. N,
           \A n \in 1 .. N : sysfs.zone[zones[n]].temp \in Int
    PROVE  \E n \in DOMAIN zones :
             /\ Thermal!WorstZone(zones, sysfs) = zones[n]
             /\ \A m \in DOMAIN zones :
                   sysfs.zone[zones[m]].temp <= sysfs.zone[zones[n]].temp
  <1> DEFINE temp(n) == sysfs.zone[zones[n]].temp
             Less == {ab \in (1 .. N) \X (1 .. N) : temp(ab[1]) < temp(ab[2])}
             IsFirst(n) == /\ \A m \in DOMAIN zones : temp(m) <= temp(n)
                           /\ \A m \in 1 .. (n - 1) : temp(m) < temp(n)
  <1>1. \A a, b \in 1 .. N : <<a, b>> \in Less <=> temp(a) < temp(b)
    OBVIOUS
  <1>2. \A n \in 1 .. N : temp(n) \in Int
    OBVIOUS
  <1>3. Thermal!WorstZone(zones, sysfs) = zones[CHOOSE n \in DOMAIN zones : IsFirst(n)]
    BY DEF Thermal!WorstZone
  <1> HIDE DEF Less, temp
  <1>4. \A a, b \in 1 .. N : <<a, b>> \in Less => <<b, a>> \notin Less
    BY <1>1, <1>2
  <1>5. \A a, b, c \in 1 .. N :
            <<a, c>> \in Less => <<a, b>> \in Less \/ <<b, c>> \in Less
    BY <1>1, <1>2
  <1>6. PICK n \in 1 .. N : /\ \A m \in 1 .. N : <<n, m>> \notin Less
                            /\ \A m \in 1 .. n - 1 : <<m, n>> \in Less
    BY <1>4, <1>5, FirstLargestExists
  <1>7. \A m \in 1 .. n - 1 : m \in 1 .. N
    OBVIOUS
  <1>8. n \in DOMAIN zones /\ IsFirst(n)
    <2>1. \A m \in 1 .. N : temp(m) <= temp(n)
      <3> TAKE m \in 1 .. N
      <3>1. ~(temp(n) < temp(m))
        BY <1>1, <1>6
      <3> QED
        BY <1>2, <3>1
    <2>2. \A m \in 1 .. (n - 1) : temp(m) < temp(n)
      BY <1>1, <1>6, <1>7
    <2> QED
      BY <2>1, <2>2
  <1> HIDE DEF IsFirst
  <1> DEFINE first == CHOOSE m \in DOMAIN zones : IsFirst(m)
  <1>9. first \in DOMAIN zones /\ IsFirst(first)
    BY <1>8
  <1>10. Thermal!WorstZone(zones, sysfs) = zones[first]
    BY <1>3
  <1> HIDE DEF first
  <1> QED
    BY <1>9, <1>10 DEF IsFirst, temp

\* The zones that configure() fixes are the ones that are wanted.
Wanted(p, before) ==
    IF p.zones = <<>> THEN DOMAIN before.zone ELSE {p.zones[n] : n \in DOMAIN p.zones}

LEMMA WantedZonesAreActive ==
    ASSUME NEW p \in Parameters["thermal"], NEW before \in Readings["thermal"]
    PROVE  LET active == Thermal!configure(p, before)
           IN  /\ active.failed \in BOOLEAN
               /\ active.failed => Wanted(p, before) = {}
               /\ ~active.failed => {active.zones[n] : n \in DOMAIN active.zones} = Wanted(p, before)
               /\ \E N \in Nat : DOMAIN active.zones = 1 .. N
               /\ active.zones = <<>> <=> DOMAIN active.zones = {}
  <1> DEFINE active == Thermal!configure(p, before)
  <1>1. p.zones \in Seq(Nat)
    BY ThresholdAssumption
  <1>2. /\ before.exists \in BOOLEAN
        /\ IsFiniteSet(DOMAIN before.zone) /\ DOMAIN before.zone \subseteq Nat
        /\ ~before.exists => DOMAIN before.zone = {}
    BY ThresholdAssumption
  <1>3. CASE p.zones # <<>>
    <2>1. active = [zones |-> p.zones, failed |-> FALSE]
      BY <1>3 DEF Thermal!configure, Thermal!Active
    <2>2. DOMAIN p.zones = 1 .. Len(p.zones) /\ Len(p.zones) \in Nat /\ Len(p.zones) # 0
      BY <1>1, <1>3
    <2> HIDE DEF active
    <2>3. active.zones = p.zones /\ active.failed = FALSE
      BY <2>1
    <2>4. 1 \in DOMAIN active.zones
      BY <2>2, <2>3
    <2> QED
      BY <1>3, <2>2, <2>3, <2>4 DEF Wanted, active
  <1>4. CASE p.zones = <<>> /\ ~before.exists
    <2>1. active = [zones |-> <<>>, failed |-> TRUE]
      BY <1>4 DEF Thermal!configure, Thermal!Active
    <2>2. Wanted(p, before) = {}
      BY <1>2, <1>4 DEF Wanted
    <2>3. DOMAIN active.zones = 1 .. 0 /\ active.zones = <<>> /\ DOMAIN active.zones = {}
      BY <2>1
    <2> QED
      BY <2>1, <2>2, <2>3
  <1>5. CASE p.zones = <<>> /\ before.exists
    <2> DEFINE found == Thermal!discover_thermal_zones(before)
               N == Cardinality(DOMAIN before.zone)
    <2>1. active = [zones |-> found, failed |-> FALSE]
      BY <1>5 DEF Thermal!configure, Thermal!Active
    <2>2. /\ DOMAIN found = 1 .. N /\ N \in Nat
          /\ found \in [DOMAIN found -> DOMAIN before.zone]
          /\ {found[n] : n \in DOMAIN found} = DOMAIN before.zone
      BY <1>2, ZonesAreEnumerated
    <2> HIDE DEF found, N
    <2>3. <<>> = [n \in {} |-> found[n]]
      OBVIOUS
    <2>4. found = <<>> <=> DOMAIN found = {}
      BY <2>2, <2>3
    <2> HIDE DEF active
    <2> QED
      BY <1>5, <2>1, <2>2, <2>4 DEF Wanted, active
  <1> QED
    BY <1>2, <1>3, <1>4, <1>5

\* A chain of an error and a warning.
LEMMA TwoChecks ==
    ASSUME NEW c1, NEW c2, NEW who, c1.level = ERROR, c2.level = WARN
    PROVE  /\ IsWorstOf(When(c1.reached, {Report(ERROR, who, c1.what)}) \cup
                        When(c2.reached, {Report(WARN, who, c2.what)}),
                        FirstReached(who, <<c1, c2>>))
           /\ FirstReached(who, <<c1, c2>>).level \in {OK, WARN, ERROR}
  <1> DEFINE checks == <<c1, c2>>
  <1>1. DOMAIN checks = 1 .. 2 /\ 2 \in Nat
    OBVIOUS
  <1>2. checks[1] = c1 /\ checks[2] = c2
    OBVIOUS
  <1> HIDE DEF checks
  <1>3. \A n \in 1 .. 2 : n = 1 \/ n = 2
    OBVIOUS
  <1>4. IsChain(checks)
    BY <1>1, <1>2, <1>3 DEF IsChain, WARN, ERROR
  <1>5. {n \in DOMAIN checks : checks[n].reached} =
          When(c1.reached, {1}) \cup When(c2.reached, {2})
    BY <1>1, <1>2, <1>3 DEF When
  <1>6. Reasons(who, checks) = When(c1.reached, {Report(ERROR, who, c1.what)}) \cup
                               When(c2.reached, {Report(WARN, who, c2.what)})
    BY <1>2, <1>5 DEF Reasons, When
  <1> QED
    BY <1>4, <1>6, ChainFindsTheWorst DEF checks

LEMMA ThermalIsJudged ==
    ASSUME NEW p \in Parameters["thermal"], NEW before \in Readings["thermal"],
           NEW sysfs \in Readings["thermal"]
    PROVE  IsWorstOf(Thermal!Findings(p, before, sysfs),
                     Thermal!update(p, Thermal!configure(p, before), sysfs))
  <1> DEFINE active == Thermal!configure(p, before)
             zones == active.zones
             given == Thermal!update(p, active, sysfs)
             wanted == Wanted(p, before)
             there == {z \in wanted \cap DOMAIN sysfs.zone : sysfs.zone[z].readable}
             reaches(t) == {z \in there : sysfs.zone[z].temp >= t}
             errors == {Report(ERROR, z, "error_temperature_c") : z \in reaches(p.error_temperature_c)}
             warnings == {Report(WARN, z, "warn_temperature_c") : z \in reaches(p.warn_temperature_c)}
             fails == \/ active.failed
                      \/ zones = <<>>
                      \/ \E n \in DOMAIN zones : Thermal!Unreadable(sysfs, zones[n])
  <1>1. /\ active.failed \in BOOLEAN
        /\ active.failed => wanted = {}
        /\ ~active.failed => {zones[n] : n \in DOMAIN zones} = wanted
        /\ \E N \in Nat : DOMAIN zones = 1 .. N
        /\ zones = <<>> <=> DOMAIN zones = {}
    BY WantedZonesAreActive
  <1>2. Thermal!Findings(p, before, sysfs) =
            When(wanted = {} \/ wanted # there, {Failed}) \cup errors \cup warnings
    BY ThermalLevels DEF Thermal!Findings, Wanted, Thermal!When, When, Thermal!Report, Report,
       Thermal!ERROR, ERROR, Thermal!WARN, WARN
  <1>3. \A z \in DOMAIN sysfs.zone : sysfs.zone[z].readable \in BOOLEAN /\ sysfs.zone[z].temp \in Int
    BY ThresholdAssumption
  <1>4. p.error_temperature_c \in Int /\ p.warn_temperature_c \in Int
    BY ThresholdAssumption
  <1> HIDE DEF active, wanted
  <1>5. fails <=> wanted = {} \/ wanted # there
    <2>1. CASE active.failed
      BY <1>1, <2>1
    <2>2. CASE ~active.failed
      <3>1. zones = <<>> <=> wanted = {}
        BY <1>1, <2>2
      <3>2. (\E n \in DOMAIN zones : Thermal!Unreadable(sysfs, zones[n])) <=>
              \E z \in wanted : z \notin DOMAIN sysfs.zone \/ ~sysfs.zone[z].readable
        BY <1>1, <2>2 DEF Thermal!Unreadable
      <3> QED
        BY <2>2, <3>1, <3>2
    <2> QED
      BY <1>1, <2>1, <2>2
  <1>6. CASE fails
    <2>1. given = Failed
      BY <1>6, ThermalLevels DEF Thermal!update
    <2>2. \A f \in errors \cup warnings : f.level <= ERROR
      BY DEF Report, WARN, ERROR
    <2>3. Failed.level = ERROR /\ ERROR <= ERROR
      BY DEF Failed, Report, ERROR
    <2>4. Failed \in Thermal!Findings(p, before, sysfs)
      BY <1>2, <1>5, <1>6 DEF When
    <2>5. \A f \in Thermal!Findings(p, before, sysfs) : f.level <= ERROR
      BY <1>2, <2>2, <2>3 DEF When
    <2> QED
      BY <2>1, <2>3, <2>4, <2>5 DEF IsWorstOf, active
  <1>7. CASE ~fails
    <2>1. wanted = there /\ wanted # {} /\ ~active.failed
      BY <1>5, <1>7
    <2>2. PICK N \in Nat : DOMAIN zones = 1 .. N
      BY <1>1
    <2>3. N # 0
      BY <1>1, <1>7, <2>2
    <2>4. \A n \in DOMAIN zones : zones[n] \in there
      BY <1>1, <2>1
    <2>5. \A z \in there : sysfs.zone[z].temp \in Int
      BY <1>3
    <2>6. PICK n \in DOMAIN zones :
            /\ Thermal!WorstZone(zones, sysfs) = zones[n]
            /\ \A m \in DOMAIN zones : sysfs.zone[zones[m]].temp <= sysfs.zone[zones[n]].temp
      BY <2>2, <2>3, <2>4, <2>5, WorstZoneExists
    <2> DEFINE worst == zones[n]
               temp == sysfs.zone[worst].temp
               c1 == Check(temp >= p.error_temperature_c, ERROR, "error_temperature_c")
               c2 == Check(temp >= p.warn_temperature_c, WARN, "warn_temperature_c")
    <2>7. given = FirstReached(worst, <<c1, c2>>)
      BY <1>7, <2>6, ThermalLevels DEF Thermal!update
    <2>8. worst \in there /\ temp \in Int
      BY <2>4, <2>5
    <2>9. \A z \in there : sysfs.zone[z].temp <= temp
      BY <1>1, <2>1, <2>6
    <2>10. Thermal!Findings(p, before, sysfs) = errors \cup warnings
      BY <1>2, <2>1 DEF When
    <2>11. /\ c1.level = ERROR /\ c1.what = "error_temperature_c"
           /\ c1.reached = (temp >= p.error_temperature_c)
           /\ c2.level = WARN /\ c2.what = "warn_temperature_c"
           /\ c2.reached = (temp >= p.warn_temperature_c)
      BY DEF Check
    <2> DEFINE seen == When(c1.reached, {Report(ERROR, worst, c1.what)}) \cup
                       When(c2.reached, {Report(WARN, worst, c2.what)})
    <2> HIDE DEF worst, temp, given, there, c1, c2
    <2>12. IsWorstOf(seen, given) /\ given.level \in {OK, WARN, ERROR}
      BY <2>7, <2>11, TwoChecks
    <2>13. seen \subseteq errors \cup warnings
      BY <2>8, <2>11 DEF When, temp
    <2>14. \A f \in errors : f.level = ERROR /\ c1.reached
      <3> TAKE f \in errors
      <3>1. PICK z \in reaches(p.error_temperature_c) :
              f = Report(ERROR, z, "error_temperature_c")
        OBVIOUS
      <3>2. temp >= p.error_temperature_c
        BY <1>4, <2>5, <2>8, <2>9
      <3> QED
        BY <2>11, <3>1, <3>2 DEF Report
    <2>15. \A f \in warnings : f.level = WARN /\ c2.reached
      <3> TAKE f \in warnings
      <3>1. PICK z \in reaches(p.warn_temperature_c) :
              f = Report(WARN, z, "warn_temperature_c")
        OBVIOUS
      <3>2. temp >= p.warn_temperature_c
        BY <1>4, <2>5, <2>8, <2>9
      <3> QED
        BY <2>11, <3>1, <3>2 DEF Report
    <2>16. /\ c1.reached => ERROR <= given.level
           /\ c2.reached => WARN <= given.level
      <3>1. /\ c1.reached => Report(ERROR, worst, c1.what) \in seen
            /\ c2.reached => Report(WARN, worst, c2.what) \in seen
        BY DEF When
      <3> QED
        BY <2>12, <3>1 DEF IsWorstOf, Report
    <2> QED
      BY <2>10, <2>12, <2>13, <2>14, <2>15, <2>16 DEF IsWorstOf, given, active
  <1> QED
    BY <1>6, <1>7

-----------------------------------------------------------------------------
(* The inductive invariant of the tasks that judge one reading             *)

\* What configure() has stored stays until cleanup(), and the last report is the
\* judgement of the last reading.
ThresholdInv ==
    /\ task \in Tasks \cup {"cpu"}
    /\ configured =>
         /\ task \in Tasks
         /\ parameters \in Parameters[task]
         /\ task = "thermal" =>
              /\ found_at_configure \in Readings[task]
              /\ active_ = Thermal!configure(parameters, found_at_configure)
    /\ reading # Unread =>
         /\ configured
         /\ LastReading \in Readings[task]
         /\ report = Judge(LastReading)

LEMMA ThresholdInit ==
    HostInit => ThresholdInv
  BY DEF HostInit, Init, ThresholdInv, Tasks

LEMMA ThresholdStep ==
    ASSUME ThresholdInv, task # "cpu", Next
    PROVE  ThresholdInv'
  <1>1. Unread' = Unread
    BY DEF Unread
  <1>2. CASE Configure
    <2>1. ~configured /\ reading = Unread
      BY <1>2 DEF Configure, ThresholdInv
    <2>2. /\ configured' /\ task' = task /\ reading' = Unread
          /\ parameters' \in Parameters[task]
      BY <1>2, <2>1 DEF Configure
    <2>3. task \in Tasks
      BY DEF ThresholdInv
    <2>4. ASSUME task = "thermal"
          PROVE  /\ found_at_configure' \in Readings[task]
                 /\ active_' = Thermal!configure(parameters', found_at_configure')
      BY <1>2, <2>4 DEF Configure
    <2> QED
      BY <1>1, <2>2, <2>3, <2>4 DEF ThresholdInv
  <1>3. CASE Cleanup
    BY <1>1, <1>3 DEF Cleanup, ThresholdInv
  <1>4. CASE Update
    <2>1. PICK r \in Readings[task] : reading' = <<r>> /\ report' = Judge(r)
      BY <1>4 DEF Update
    <2>2. /\ UNCHANGED <<task, configured, parameters, found_at_configure, active_>>
          /\ configured
      BY <1>4 DEF Update
    <2>3. LastReading' = r
      BY <2>1 DEF LastReading
    <2>4. Judge(LastReading)' = Judge(r)
      BY <2>2, <2>3 DEF Judge
    <2> QED
      BY <1>1, <2>1, <2>2, <2>3, <2>4 DEF ThresholdInv
  <1> QED
    BY <1>2, <1>3, <1>4 DEF Next

LEMMA ThresholdInvariance == HostSpec => []ThresholdInv
  <1>1. HostInit => ThresholdInv
    BY ThresholdInit
  <1>2. ASSUME ThresholdInv, UNCHANGED vars
        PROVE  ThresholdInv'
    BY <1>2 DEF ThresholdInv, vars, LastReading, Judge, Unread
  <1>3. ThresholdInv /\ [HostNext]_<<vars, cpu_vars>> => ThresholdInv'
    BY <1>2, ThresholdStep DEF HostNext
  <1> QED
    BY <1>1, <1>3, PTL DEF HostSpec

-----------------------------------------------------------------------------
(* The theorems                                                            *)

LEMMA EveryTaskJudges ==
    ASSUME ThresholdInv, Updated
    PROVE  NothingIsMasked /\ AlarmsAreReal
  <1>1. /\ task \in Tasks /\ parameters \in Parameters[task]
        /\ LastReading \in Readings[task] /\ report = Judge(LastReading)
    BY DEF ThresholdInv, Updated
  <1> USE DEF NothingIsMasked, AlarmsAreReal
  <1>2. CASE task = "memory"
    <2>1. /\ report = Memory!update(parameters, LastReading)
          /\ Findings = Memory!Findings(parameters, LastReading)
      BY <1>1, <1>2 DEF Judge, Findings
    <2> QED
      BY <1>1, <1>2, <2>1, MemoryIsJudged
  <1>3. CASE task = "battery"
    <2>1. /\ report = Battery!update(parameters, LastReading)
          /\ Findings = Battery!Findings(parameters, LastReading)
      BY <1>1, <1>3 DEF Judge, Findings
    <2> QED
      BY <1>1, <1>3, <2>1, BatteryIsJudged DEF IsWorstOf
  <1>4. CASE task = "time_sync"
    <2>1. /\ report = TimeSync!update(parameters, TimeSync!sample_adjtimex(LastReading))
          /\ Findings = TimeSync!Findings(parameters, LastReading)
      BY <1>1, <1>4 DEF Judge, Findings
    <2> QED
      BY <1>1, <1>4, <2>1, TimeSyncIsJudged
  <1>5. CASE task = "thermal"
    <2>1. /\ report = Thermal!update(parameters, active_, LastReading)
          /\ Findings = Thermal!Findings(parameters, found_at_configure, LastReading)
      BY <1>1, <1>5 DEF Judge, Findings
    <2>2. /\ found_at_configure \in Readings[task]
          /\ active_ = Thermal!configure(parameters, found_at_configure)
      BY <1>5 DEF ThresholdInv, Updated
    <2> QED
      BY <1>1, <1>5, <2>1, <2>2, ThermalIsJudged DEF IsWorstOf
  <1>6. CASE task = "docker"
    <2>1. /\ report = Docker!update(parameters, LastReading)
          /\ Findings = Docker!Findings(parameters, LastReading)
      BY <1>1, <1>6 DEF Judge, Findings
    <2> QED
      BY <1>1, <1>6, <2>1, DockerIsJudged DEF IsOfAnotherContainer, ThresholdIsMisread
  <1> QED
    BY <1>1, <1>2, <1>3, <1>4, <1>5, <1>6 DEF Tasks

\* No summary is milder than a reason for an alarm, by the true figures and of every
\* battery, zone and container; of the bytes of containers, those of the fullest one, by
\* thresholds that fit into an int.
THEOREM NoAlarmIsMasked == HostSpec => []NothingIsMasked
  <1>1. ThresholdInv => NothingIsMasked
    BY EveryTaskJudges DEF NothingIsMasked
  <1> QED
    BY <1>1, ThresholdInvariance, PTL

\* Every alarm has a reason, by the true figures, unless the code misreads them: the
\* shares of an implausible memory, an offset in nanoseconds, or a byte threshold that
\* does not fit into an int.
THEOREM AlarmsHaveReasons == HostSpec => []AlarmsAreReal
  <1>1. ThresholdInv => AlarmsAreReal
    BY EveryTaskJudges DEF AlarmsAreReal
  <1> QED
    BY <1>1, ThresholdInvariance, PTL
=============================================================================
