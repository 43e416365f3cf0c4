-------------------------- MODULE DockerSamplingProofs --------------------------
(***************************************************************************)
(* Proofs about DockerSampling, for any finite set of containers.          *)
(***************************************************************************)
EXTENDS DockerSampling, SetInduction, FiniteSetTheorems, SequenceTheorems

-----------------------------------------------------------------------------
(* The inductive invariant                                                 *)

Usages == {"real", "zero", "short"}
Objects == Ids \cup {NoId} \cup Usages
ContainerLists == Seq([id : Ids, usage : Usages])
Connected == {"connect", "send", "receive"}
Answered == {"receive", "parse"}
Asking == {"socket", "parse"} \cup Connected

TypeOK ==
    /\ running \subseteq Ids
    /\ throughout \subseteq running
    /\ pc \in {"idle", "killed"} \cup Asking
    /\ request \in Ids \cup {List}
    /\ fd \in BOOLEAN
    /\ answer \in [status : Nat, objects : Seq(Objects)]
    /\ received \in 0 .. 1 + Len(answer.objects)
    /\ whole \in BOOLEAN
    /\ todo \in Seq(Ids)
    /\ containers \in ContainerLists
    /\ sample \in {NoSample} \cup
          [completed : {TRUE}, success : BOOLEAN, containers : ContainerLists]

\* What the daemon answered is true of every container that runs throughout.
AnswerIsTrue ==
    pc \in Answered =>
        IF request = List
          THEN /\ answer.objects \in Seq(Ids \cup {NoId})
               /\ throughout \subseteq ToSet(answer.objects)
          ELSE /\ answer.status = 200 => answer.objects \in {<<"real">>, <<"zero">>}
               /\ request \in throughout => answer.objects = <<"real">>

\* Until it is given up or parsed to the end, nothing is known of the new sample.
SampleIsOpen == pc # "idle" => sample = NoSample

WholeIsComplete == pc = "parse" /\ whole => Complete

\* A container that runs throughout has been asked for, or it is its turn, or it
\* will be.
IsChecked(id, list) == \E n \in DOMAIN list : list[n] = Container(id, "real")

NobodyIsForgotten ==
    pc \in Asking /\ request # List /\ whole =>
        \A id \in throughout :
            id = request \/ id \in ToSet(todo) \/ IsChecked(id, containers)

IInv ==
    /\ TypeOK
    /\ AnswerIsTrue
    /\ SampleIsOpen
    /\ WholeIsComplete
    /\ NobodyIsForgotten
    /\ NoDescriptorLeft
    /\ SuccessMeansAllChecked

-----------------------------------------------------------------------------
(* Lemmas                                                                  *)

\* The daemon lists every container that runs, in some order.
LEMMA OrdersListAll ==
    ASSUME NEW S, IsFiniteSet(S), NEW order \in SetToSeqs(S)
    PROVE  order \in Seq(S) /\ ToSet(order) = S
  <1> DEFINE D == 1 .. Cardinality(S)
  <1>1. Cardinality(S) \in Nat
    BY FS_CardinalityType
  <1>2. /\ order \in [D -> S]
        /\ \A i, j \in D : i # j => order[i] # order[j]
    BY DEF SetToSeqs
  <1>3. order \in Injection(D, S)
    BY <1>2 DEF Injection, IsInjective
  <1>4. Cardinality(D) = Cardinality(S)
    BY <1>1, FS_Interval
  <1>5. order \in Surjection(D, S)
    <2> HIDE DEF D
    <2> QED
      BY <1>3, <1>4, FS_Injection
  <1>6. ToSet(order) = S
    BY <1>2, <1>5 DEF Surjection, ToSet
  <1> QED
    BY <1>1, <1>2, <1>6

LEMMA AppendAddsOne ==
    ASSUME NEW S, NEW s \in Seq(S), NEW e \in S
    PROVE  ToSet(Append(s, e)) = ToSet(s) \cup {e}
  <1>1. DOMAIN Append(s, e) = 1 .. Len(s) + 1
    OBVIOUS
  <1>2. \A i \in 1 .. Len(s) : Append(s, e)[i] = s[i]
    OBVIOUS
  <1>3. Append(s, e)[Len(s) + 1] = e
    OBVIOUS
  <1>4. DOMAIN s = 1 .. Len(s) /\ Len(s) \in Nat
    OBVIOUS
  <1> QED
    BY <1>1, <1>2, <1>3, <1>4 DEF ToSet

\* One turn of the loop over the objects of a list.
Listed(objects, n, ids) == IF HasId(objects[n]) THEN Append(ids, objects[n]) ELSE ids

LEMMA ListedIsSeq ==
    ASSUME NEW objects \in Seq(Ids \cup {NoId}), NEW n \in 1 .. Len(objects),
           NEW ids \in Seq(Ids)
    PROVE  /\ Listed(objects, n, ids) \in Seq(Ids)
           /\ ToSet(Listed(objects, n, ids)) = ToSet(ids) \cup ({objects[n]} \ {NoId})
  <1>1. objects[n] \in Ids \cup {NoId}
    OBVIOUS
  <1>2. CASE HasId(objects[n])
    <2>1. objects[n] \in Ids
      BY <1>1, <1>2 DEF HasId
    <2>2. ToSet(Append(ids, objects[n])) = ToSet(ids) \cup {objects[n]}
      BY <2>1, AppendAddsOne
    <2> QED
      BY <1>2, <2>1, <2>2 DEF Listed, HasId
  <1>3. CASE ~ HasId(objects[n])
    BY <1>3 DEF Listed, HasId
  <1> QED
    BY <1>2, <1>3

\* The loop over the objects comes to an end with each of them.
LEMMA ListLoop ==
    ASSUME NEW objects \in Seq(Ids \cup {NoId})
    PROVE  \E g \in [0 .. Len(objects) -> Seq(Ids)] :
              /\ g[0] = <<>>
              /\ \A n \in 1 .. Len(objects) : g[n] = Listed(objects, n, g[n - 1])
              /\ IdsAmong(objects) = g[Len(objects)]
  <1> DEFINE N == Len(objects)
             V == Seq(Ids)
             empty == <<>>
  <1>1. N \in Nat /\ empty \in V
    OBVIOUS
  <1>2. \A n \in 1 .. N : \A ids \in V : Listed(objects, n, ids) \in V
    BY ListedIsSeq
  <1> HIDE DEF N, V, empty
  <1>3. \E g \in [0 .. N -> V] :
           g[0] = empty /\ \A n \in 1 .. N : g[n] = Listed(objects, n, g[n - 1])
    <2> DEFINE F == [n \in 1 .. N |-> [ids \in V |-> Listed(objects, n, ids)]]
    <2>1. F \in [1 .. N -> [V -> V]]
      BY <1>2
    <2>2. \A n \in 1 .. N : \A ids \in V : F[n][ids] = Listed(objects, n, ids)
      OBVIOUS
    <2> HIDE DEF F
    <2>3. PICK g \in [0 .. N -> V] :
             g[0] = empty /\ \A n \in 1 .. N : g[n] = F[n][g[n - 1]]
      <3>1. \E g : IsLoop(g, N, V, empty, F)
        BY <1>1, <2>1, LoopExists
      <3> QED
        BY <3>1 DEF IsLoop
    <2>4. ASSUME NEW n \in 1 .. N
          PROVE  g[n] = Listed(objects, n, g[n - 1])
      <3>1. n - 1 \in 0 .. N
        BY <1>1
      <3> QED
        BY <2>2, <2>3, <3>1
    <2> QED
      BY <2>3, <2>4
  <1> DEFINE Solves(g) == g = [n \in 0 .. N |->
                                 IF n = 0 THEN empty ELSE Listed(objects, n, g[n - 1])]
             listed == CHOOSE g : Solves(g)
  <1>4. \E g : Solves(g)
    <2>1. PICK g \in [0 .. N -> V] :
             g[0] = empty /\ \A n \in 1 .. N : g[n] = Listed(objects, n, g[n - 1])
      BY <1>3
    <2>2. \A n \in 0 .. N : g[n] = IF n = 0 THEN empty ELSE Listed(objects, n, g[n - 1])
      BY <1>1, <2>1
    <2> QED
      BY <2>1, <2>2
  <1>5. Solves(listed)
    <2> HIDE DEF Solves
    <2> QED
      BY <1>4
  <1>6. IdsAmong(objects) = listed[N]
    BY DEF IdsAmong, Listed, N, empty
  <1> HIDE DEF listed
  <1>7. /\ listed[0] = empty
        /\ \A n \in 1 .. N : listed[n] = Listed(objects, n, listed[n - 1])
    BY <1>1, <1>5
  <1>8. \A n \in 0 .. N : listed[n] \in V
    <2> DEFINE J == [n \in 0 .. N |-> V]
    <2>1. listed[0] \in J[0]
      BY <1>1, <1>7
    <2>2. \A n \in 1 .. N : listed[n - 1] \in J[n - 1] => listed[n] \in J[n]
      BY <1>1, <1>2, <1>7
    <2>3. \A n \in 0 .. N : J[n] = V
      OBVIOUS
    <2> HIDE DEF J
    <2>4. \A n \in 0 .. N : listed[n] \in J[n]
      BY <1>1, <2>1, <2>2, LoopKeeps
    <2> QED
      BY <2>3, <2>4
  <1>9. listed \in [0 .. N -> V]
    BY <1>5, <1>8
  <1> QED
    BY <1>6, <1>7, <1>9 DEF N, V, empty

\* The ids of a list are its objects but those without an id.
LEMMA IdsOfList ==
    ASSUME NEW objects \in Seq(Ids \cup {NoId})
    PROVE  /\ ListedIds(objects) \in Seq(Ids)
           /\ ToSet(ListedIds(objects)) = ToSet(objects) \ {NoId}
  <1> DEFINE N == Len(objects)
             Among(n) == {objects[i] : i \in 1 .. n} \ {NoId}
             J == [n \in 0 .. N |-> {s \in Seq(Ids) : ToSet(s) = Among(n)}]
  <1>1. PICK g \in [0 .. N -> Seq(Ids)] :
           /\ g[0] = <<>>
           /\ \A n \in 1 .. N : g[n] = Listed(objects, n, g[n - 1])
           /\ IdsAmong(objects) = g[N]
    BY ListLoop
  <1>2. N \in Nat
    OBVIOUS
  <1>3. g[0] \in J[0]
    BY <1>1, <1>2 DEF ToSet
  <1>4. ASSUME NEW n \in 1 .. N, g[n - 1] \in J[n - 1]
        PROVE  g[n] \in J[n]
    <2>1. n - 1 \in 0 .. N
      OBVIOUS
    <2>2. Among(n) = Among(n - 1) \cup ({objects[n]} \ {NoId})
      OBVIOUS
    <2> HIDE DEF Among
    <2>3. g[n - 1] \in Seq(Ids) /\ ToSet(g[n - 1]) = Among(n - 1)
      BY <1>4, <2>1
    <2>4. g[n] \in Seq(Ids) /\ ToSet(g[n]) = Among(n)
      <3> HIDE DEF N
      <3>1. n \in 1 .. Len(objects)
        BY DEF N
      <3>2. g[n] = Listed(objects, n, g[n - 1])
        BY <1>1
      <3> QED
        BY <2>2, <2>3, <3>1, <3>2, ListedIsSeq
    <2> QED
      BY <2>4
  <1>5. \A n \in 0 .. N : g[n] \in J[n]
    <2> HIDE DEF J, N
    <2> QED
      BY <1>2, <1>3, <1>4, LoopKeeps
  <1>6. Among(N) = ToSet(objects) \ {NoId}
    BY DEF ToSet
  <1>7. g[N] \in Seq(Ids) /\ ToSet(g[N]) = Among(N)
    <2> HIDE DEF Among
    <2> QED
      BY <1>2, <1>5
  <1> QED
    BY <1>1, <1>6, <1>7 DEF ListedIds

\* An answer names every container that runs, and gives the usage of one that runs.
LEMMA AnswersAreTrue ==
    ASSUME running \subseteq Ids, NEW r \in Ids \cup {List}, NEW a \in Answers(r)
    PROVE  /\ a \in [status : Nat, objects : Seq(Objects)]
           /\ r = List => a.objects \in Seq(Ids \cup {NoId}) /\ running \subseteq ToSet(a.objects)
           /\ r # List /\ a.status = 200 => a.objects \in {<<"real">>, <<"zero">>}
           /\ r \in running => a.objects = <<"real">>
  <1>1. List \notin running
    BY SamplingAssumption
  <1>2. CASE r = List
    <2>1. IsFiniteSet(running) /\ IsFiniteSet(running \cup {NoId})
      BY SamplingAssumption, FS_Subset, FS_AddElement
    <2>2. PICK order \in SetToSeqs(running) \cup SetToSeqs(running \cup {NoId}) :
             a = [status |-> 200, objects |-> order]
      BY <1>2 DEF Answers
    <2>3. \/ order \in Seq(running) /\ ToSet(order) = running
          \/ order \in Seq(running \cup {NoId}) /\ ToSet(order) = running \cup {NoId}
      BY <2>1, <2>2, OrdersListAll
    <2>4. order \in Seq(Ids \cup {NoId}) /\ order \in Seq(Objects)
      BY <2>3, SeqMonotonic DEF Objects
    <2> QED
      BY <1>1, <1>2, <2>2, <2>3, <2>4
  <1>3. CASE r # List
    <2>1. \/ a = [status |-> 200, objects |-> <<"real">>]
          \/ r \notin running /\ a = [status |-> 404, objects |-> <<>>]
          \/ r \notin running /\ a = [status |-> 200, objects |-> <<"zero">>]
      BY <1>3 DEF Answers
    <2>2. "real" \in Objects /\ "zero" \in Objects
      BY DEF Objects, Usages
    <2>3. \A x \in Objects : <<x>> \in Seq(Objects)
      OBVIOUS
    <2>4. <<>> \in Seq(Objects)
      OBVIOUS
    <2>5. 200 \in Nat /\ 404 \in Nat /\ 404 # 200
      OBVIOUS
    <2>6. <<"real">> \in Seq(Objects) /\ <<"zero">> \in Seq(Objects)
      BY <2>2, <2>3
    <2>7. /\ a.objects \in {<<"real">>, <<"zero">>, <<>>}
          /\ a = [status |-> a.status, objects |-> a.objects] /\ a.status \in Nat
          /\ a.status = 200 => a.objects \in {<<"real">>, <<"zero">>}
          /\ r \in running => a.objects = <<"real">>
      BY <2>1, <2>5
    <2> QED
      BY <1>3, <2>4, <2>6, <2>7
  <1> QED
    BY <1>2, <1>3

LEMMA NoAnswerType ==
    /\ NoAnswer \in [status : Nat, objects : Seq(Objects)]
    /\ 0 \in 0 .. 1 + Len(NoAnswer.objects)
  <1>1. <<>> \in Seq(Objects) /\ Len(<<>>) = 0
    OBVIOUS
  <1>2. NoAnswer.objects = <<>>
    BY DEF NoAnswer
  <1> QED
    BY <1>1, <1>2 DEF NoAnswer

LEMMA HeadAndTail ==
    ASSUME NEW S, NEW s \in Seq(S), s # <<>>
    PROVE  /\ Head(s) \in S
           /\ Tail(s) \in Seq(S)
           /\ ToSet(s) = {Head(s)} \cup ToSet(Tail(s))
  <1>1. /\ Len(s) \in Nat /\ Len(s) > 0 /\ DOMAIN s = 1 .. Len(s)
        /\ Head(s) = s[1]
        /\ Tail(s) \in Seq(S) /\ DOMAIN Tail(s) = 1 .. Len(s) - 1
        /\ \A i \in 1 .. Len(s) - 1 : Tail(s)[i] = s[i + 1]
    OBVIOUS
  <1>2. \A i \in 2 .. Len(s) : i - 1 \in 1 .. Len(s) - 1 /\ s[i] = Tail(s)[i - 1]
    BY <1>1
  <1>3. ToSet(s) \subseteq {Head(s)} \cup ToSet(Tail(s))
    <2> SUFFICES ASSUME NEW i \in 1 .. Len(s)
                 PROVE  s[i] \in {Head(s)} \cup ToSet(Tail(s))
      BY <1>1 DEF ToSet
    <2>1. CASE i = 1
      BY <1>1, <2>1
    <2>2. CASE i # 1
      <3>1. i \in 2 .. Len(s)
        BY <2>2
      <3> QED
        BY <1>1, <1>2, <3>1 DEF ToSet
    <2> QED
      BY <2>1, <2>2
  <1>4. {Head(s)} \cup ToSet(Tail(s)) \subseteq ToSet(s)
    BY <1>1 DEF ToSet
  <1> QED
    BY <1>1, <1>3, <1>4

LEMMA SampleType ==
    ASSUME NEW list \in ContainerLists, NEW success \in BOOLEAN
    PROVE  Sample(success, list) \in
              [completed : {TRUE}, success : BOOLEAN, containers : ContainerLists]
  BY DEF Sample

LEMMA CheckedStays ==
    ASSUME NEW list \in ContainerLists, NEW c \in [id : Ids, usage : Usages]
    PROVE  /\ Append(list, c) \in ContainerLists
           /\ \A id : IsChecked(id, list) => IsChecked(id, Append(list, c))
           /\ \A id : c = Container(id, "real") => IsChecked(id, Append(list, c))
  <1>1. /\ Append(list, c) \in ContainerLists
        /\ DOMAIN list = 1 .. Len(list) /\ Len(list) \in Nat
        /\ DOMAIN Append(list, c) = 1 .. Len(list) + 1
        /\ \A n \in 1 .. Len(list) : Append(list, c)[n] = list[n]
        /\ Append(list, c)[Len(list) + 1] = c
    BY DEF ContainerLists
  <1> QED
    BY <1>1 DEF IsChecked

-----------------------------------------------------------------------------
(* The invariant holds, and every step keeps it.                           *)

LEMMA InitIInv == Init => IInv
  <1> SUFFICES ASSUME Init
               PROVE  IInv
    OBVIOUS
  <1>1. TypeOK
    <2>1. <<>> \in Seq(Ids) /\ <<>> \in ContainerLists
      BY DEF ContainerLists
    <2> QED
      BY <2>1, NoAnswerType DEF Init, TypeOK
  <1> QED
    BY <1>1 DEF Init, IInv, AnswerIsTrue, SampleIsOpen, WholeIsComplete, Answered,
                NobodyIsForgotten, Asking, Connected, NoDescriptorLeft,
                SuccessMeansAllChecked, NoSample

\* A sample that is given up leaves no claim behind.
LEMMA ThrowKeepsIInv ==
    ASSUME IInv, Throw, fd' = FALSE
    PROVE  IInv'
  <1> USE DEF Throw, daemon
  <1>1. TypeOK'
    <2>1. sample' \in [completed : {TRUE}, success : BOOLEAN, containers : ContainerLists]
      BY DEF IInv, TypeOK, Sample
    <2> QED
      <3>1. <<>> \in Seq(Ids)
        OBVIOUS
      <3> QED
        BY <2>1, <3>1, NoAnswerType DEF IInv, TypeOK
  <1>2. SuccessMeansAllChecked'
    BY DEF SuccessMeansAllChecked, Sample
  <1> QED
    BY <1>1, <1>2 DEF IInv, AnswerIsTrue, SampleIsOpen, WholeIsComplete, Answered,
                      NobodyIsForgotten, Asking, Connected, NoDescriptorLeft

LEMMA DaemonKeepsIInv ==
    ASSUME IInv, NEW id \in Ids, Start(id) \/ Stop(id)
    PROVE  IInv'
  <1>1. /\ running' \subseteq Ids
        /\ throughout' \subseteq throughout
        /\ throughout' \subseteq running'
        /\ UNCHANGED <<pc, http, todo, containers, sample>>
    BY DEF Start, Stop, IInv, TypeOK
  <1> USE <1>1 DEF http
  <1>2. TypeOK'
    BY DEF IInv, TypeOK
  <1>3. AnswerIsTrue' /\ NobodyIsForgotten'
    BY DEF IInv, AnswerIsTrue, NobodyIsForgotten
  <1>4. SuccessMeansAllChecked'
    BY DEF IInv, SuccessMeansAllChecked
  <1> QED
    BY <1>2, <1>3, <1>4
       DEF IInv, SampleIsOpen, WholeIsComplete, Complete, NoDescriptorLeft

LEMMA BeginKeepsIInv ==
    ASSUME IInv, BeginSample
    PROVE  IInv'
  <1> USE DEF BeginSample
  <1>1. TypeOK'
    BY DEF IInv, TypeOK, Asking, ContainerLists
  <1> QED
    BY <1>1 DEF IInv, AnswerIsTrue, SampleIsOpen, WholeIsComplete, Answered,
                NobodyIsForgotten, NoDescriptorLeft, SuccessMeansAllChecked, NoSample

LEMMA ConnectingKeepsIInv ==
    ASSUME IInv, OpenSocket \/ Connect \/ SendRaisesSigpipe
    PROVE  IInv'
  <1>1. /\ UNCHANGED <<daemon, request, answer, received, whole, todo, containers, sample>>
        /\ pc' \in {"connect", "send", "killed"} /\ pc \in {"socket", "connect", "send"}
        /\ fd' \in BOOLEAN
    BY DEF OpenSocket, Connect, SendRaisesSigpipe, IInv, TypeOK, http
  <1> USE <1>1 DEF daemon
  <1>2. TypeOK'
    BY DEF IInv, TypeOK, Asking, Connected
  <1>3. NobodyIsForgotten'
    BY DEF IInv, NobodyIsForgotten, Asking, Connected
  <1> QED
    BY <1>2, <1>3 DEF IInv, AnswerIsTrue, SampleIsOpen, WholeIsComplete, Answered,
                      NoDescriptorLeft, SuccessMeansAllChecked

LEMMA SendKeepsIInv ==
    ASSUME IInv, Send
    PROVE  IInv'
  <1> USE DEF Send, daemon
  <1>1. /\ answer' \in [status : Nat, objects : Seq(Objects)]
        /\ request = List => /\ answer'.objects \in Seq(Ids \cup {NoId})
                             /\ running \subseteq ToSet(answer'.objects)
        /\ request # List /\ answer'.status = 200 =>
              answer'.objects \in {<<"real">>, <<"zero">>}
        /\ request \in running => answer'.objects = <<"real">>
    BY AnswersAreTrue DEF IInv, TypeOK
  <1>2. TypeOK'
    <2>1. received' \in 0 .. 1 + Len(answer'.objects)
      <3>1. Len(answer'.objects) \in Nat
        BY <1>1
      <3> QED
        BY <3>1
    <2> QED
      BY <1>1, <2>1 DEF IInv, TypeOK, Asking, Connected
  <1>3. AnswerIsTrue'
    BY <1>1 DEF IInv, TypeOK, AnswerIsTrue
  <1>4. NobodyIsForgotten'
    BY DEF IInv, NobodyIsForgotten, Asking, Connected
  <1> QED
    BY <1>2, <1>3, <1>4 DEF IInv, SampleIsOpen, WholeIsComplete,
                            NoDescriptorLeft, SuccessMeansAllChecked

LEMMA ReceiveKeepsIInv ==
    ASSUME IInv, Receive
    PROVE  IInv'
  <1> USE DEF Receive, daemon
  <1>1. TypeOK'
    <2>1. Len(answer.objects) \in Nat /\ received \in Nat
      BY DEF IInv, TypeOK
    <2>2. received' \in 0 .. 1 + Len(answer.objects)
      BY <2>1
    <2> QED
      BY <2>2 DEF IInv, TypeOK
  <1>2. AnswerIsTrue' /\ NobodyIsForgotten'
    BY DEF IInv, AnswerIsTrue, NobodyIsForgotten
  <1> QED
    BY <1>1, <1>2 DEF IInv, SampleIsOpen, WholeIsComplete,
                      NoDescriptorLeft, SuccessMeansAllChecked

LEMMA EndKeepsIInv ==
    ASSUME IInv, EndOfAnswer
    PROVE  IInv'
  <1> USE DEF EndOfAnswer, daemon, Close
  <1>1. TypeOK'
    BY DEF IInv, TypeOK, Asking, Complete
  <1>2. AnswerIsTrue'
    BY DEF IInv, AnswerIsTrue, Answered
  <1>3. NobodyIsForgotten'
    BY DEF IInv, NobodyIsForgotten, Asking, Connected
  <1>4. WholeIsComplete'
    BY DEF WholeIsComplete, Complete
  <1>5. SampleIsOpen' /\ SuccessMeansAllChecked'
    BY DEF IInv, SampleIsOpen, SuccessMeansAllChecked, NoSample
  <1> QED
    BY <1>1, <1>2, <1>3, <1>4, <1>5 DEF IInv, NoDescriptorLeft

LEMMA ParseListKeepsIInv ==
    ASSUME IInv, ParseList
    PROVE  IInv'
  <1> USE DEF daemon
  <1> DEFINE objects == SubSeq(answer.objects, 1, received - 1)
             listed == ListedIds(objects)
  <1>1. /\ answer.objects \in Seq(Ids \cup {NoId})
        /\ throughout \subseteq ToSet(answer.objects)
        /\ received - 1 \in 0 .. Len(answer.objects)
    BY DEF ParseList, IInv, TypeOK, AnswerIsTrue, Answered
  <1>2. objects \in Seq(Ids \cup {NoId})
    <2>1. \A i \in 1 .. received - 1 : answer.objects[i] \in Ids \cup {NoId}
      BY <1>1
    <2> QED
      BY <1>1, <2>1, SubSeqProperties
  <1>3. listed \in Seq(Ids) /\ ToSet(listed) = ToSet(objects) \ {NoId}
    BY <1>2, IdsOfList
  <1>4. whole => throughout \subseteq ToSet(listed)
    <2>1. whole => objects = answer.objects
      BY <1>1, SubSeqFull DEF ParseList, IInv, WholeIsComplete, Complete
    <2>2. NoId \notin throughout
      BY SamplingAssumption DEF IInv, TypeOK
    <2> QED
      BY <1>1, <1>3, <2>1, <2>2
  <1> HIDE DEF objects
  <1>5. /\ UNCHANGED <<daemon, fd, whole, containers>>
        /\ answer' = NoAnswer /\ received' = 0
        /\ pc = "parse" /\ request = List
        /\ \/ /\ listed = <<>> /\ pc' = "idle" /\ sample' = Sample(TRUE, containers)
              /\ UNCHANGED <<request, todo>>
           \/ /\ listed # <<>> /\ pc' = "socket" /\ sample' = sample
              /\ request' = Head(listed) /\ todo' = Tail(listed)
    BY DEF ParseList, objects
  <1> HIDE DEF listed
  <1>6. TypeOK'
    <2>1. pc' \in {"idle", "socket"}
      BY <1>5
    <2>2. request' \in Ids \cup {List} /\ todo' \in Seq(Ids)
      <3>1. listed # <<>> => Head(listed) \in Ids /\ Tail(listed) \in Seq(Ids)
        BY <1>3, HeadAndTail
      <3> QED
        BY <1>5, <3>1 DEF IInv, TypeOK
    <2>3. sample' = sample \/ sample' = Sample(TRUE, containers)
      BY <1>5
    <2> QED
      BY <1>5, <2>1, <2>2, <2>3, NoAnswerType, SampleType DEF IInv, TypeOK, Asking
  <1>7. NobodyIsForgotten'
    <2>1. listed # <<>> => ToSet(listed) = {Head(listed)} \cup ToSet(Tail(listed))
      BY <1>3, HeadAndTail
    <2> QED
      BY <1>4, <1>5, <2>1 DEF NobodyIsForgotten, Asking, Connected
  <1>8. SuccessMeansAllChecked'
    <2>1. listed = <<>> => ToSet(listed) = {}
      BY DEF ToSet
    <2> QED
      BY <1>4, <1>5, <2>1 DEF IInv, SampleIsOpen, SuccessMeansAllChecked, NoSample
  <1> QED
    BY <1>5, <1>6, <1>7, <1>8 DEF IInv, AnswerIsTrue, SampleIsOpen, WholeIsComplete,
                                  Answered, NoDescriptorLeft

LEMMA ParseStatisticsKeepsIInv ==
    ASSUME IInv, ParseStatistics
    PROVE  IInv'
  <1> USE DEF daemon
  <1>1. PICK usage \in FoundUsages : containers' = Append(containers, Container(request, usage))
    BY DEF ParseStatistics
  <1>2. /\ UNCHANGED <<daemon, fd, whole>>
        /\ answer' = NoAnswer /\ received' = 0
        /\ pc = "parse" /\ request # List /\ answer.status = 200
        /\ \/ /\ todo = <<>> /\ pc' = "idle" /\ sample' = Sample(TRUE, containers')
              /\ UNCHANGED <<request, todo>>
           \/ /\ todo # <<>> /\ pc' = "socket" /\ sample' = sample
              /\ request' = Head(todo) /\ todo' = Tail(todo)
    BY DEF ParseStatistics
  <1>3. request \in throughout /\ whole => usage = "real"
    <2> SUFFICES ASSUME request \in throughout, whole
                 PROVE  usage = "real"
      OBVIOUS
    <2>1. answer.objects = <<"real">> /\ Complete
      BY <1>2 DEF IInv, AnswerIsTrue, Answered, WholeIsComplete
    <2> QED
      BY <1>1, <2>1 DEF FoundUsages
  <1>4. usage \in Usages
    <2>1. answer.objects \in {<<"real">>, <<"zero">>}
      BY <1>2 DEF IInv, AnswerIsTrue, Answered
    <2>2. answer.objects[1] \in {"real", "zero"}
      BY <2>1
    <2> QED
      BY <1>1, <2>2 DEF FoundUsages, Usages
  <1>5. /\ request \in Ids
        /\ Container(request, usage) \in [id : Ids, usage : Usages]
    BY <1>2, <1>4 DEF IInv, TypeOK, Container
  <1>6. /\ containers' \in ContainerLists
        /\ \A id : IsChecked(id, containers) => IsChecked(id, containers')
        /\ usage = "real" => IsChecked(request, containers')
    BY <1>1, <1>5, CheckedStays DEF IInv, TypeOK
  <1>7. todo # <<>> => /\ Head(todo) \in Ids /\ Tail(todo) \in Seq(Ids)
                       /\ ToSet(todo) = {Head(todo)} \cup ToSet(Tail(todo))
    BY HeadAndTail DEF IInv, TypeOK
  <1>8. whole => \A id \in throughout : id \in ToSet(todo) \/ IsChecked(id, containers')
    BY <1>2, <1>3, <1>6 DEF IInv, NobodyIsForgotten, Asking
  <1>9. TypeOK'
    <2> HIDE DEF ContainerLists
    <2>1. pc' \in {"idle", "socket"}
      BY <1>2
    <2>2. request \in Ids \cup {List} /\ todo \in Seq(Ids)
      BY DEF IInv, TypeOK
    <2>3. request' \in Ids \cup {List} /\ todo' \in Seq(Ids)
      BY <1>2, <1>7, <2>2
    <2>4. sample' = sample \/ sample' = Sample(TRUE, containers')
      BY <1>2
    <2>5. sample' \in {NoSample} \cup
             [completed : {TRUE}, success : BOOLEAN, containers : ContainerLists]
      BY <1>6, <2>4, SampleType DEF IInv, TypeOK
    <2>6. /\ running' \subseteq Ids /\ throughout' \subseteq running'
          /\ fd' \in BOOLEAN /\ whole' \in BOOLEAN
      BY <1>2 DEF IInv, TypeOK
    <2>7. /\ answer' \in [status : Nat, objects : Seq(Objects)]
          /\ received' \in 0 .. 1 + Len(answer'.objects)
      BY <1>2, NoAnswerType
    <2> QED
      BY <1>6, <2>1, <2>3, <2>5, <2>6, <2>7 DEF TypeOK, Asking
  <1>10. NobodyIsForgotten'
    BY <1>2, <1>7, <1>8 DEF NobodyIsForgotten, Asking, Connected
  <1>11. SuccessMeansAllChecked'
    <2>1. todo = <<>> => ToSet(todo) = {}
      BY DEF ToSet
    <2>2. sample' = sample => ~ sample'.completed
      BY <1>2 DEF IInv, SampleIsOpen, NoSample
    <2>3. sample' = Sample(TRUE, containers') => sample'.containers = containers'
      BY DEF Sample
    <2>4. sample'.completed => todo = <<>> /\ sample' = Sample(TRUE, containers')
      BY <1>2, <2>2
    <2> SUFFICES ASSUME sample'.completed, whole', NEW id \in throughout'
                 PROVE  IsChecked(id, sample'.containers)
      BY DEF SuccessMeansAllChecked, IsChecked
    <2>5. whole /\ id \in throughout
      BY <1>2
    <2>6. IsChecked(id, containers')
      BY <1>8, <2>1, <2>4, <2>5
    <2> QED
      BY <2>3, <2>4, <2>6
  <1> QED
    BY <1>2, <1>9, <1>10, <1>11 DEF IInv, AnswerIsTrue, SampleIsOpen, WholeIsComplete,
                                    Answered, NoDescriptorLeft

LEMMA StepKeepsIInv == IInv /\ [Next]_vars => IInv'
  <1> SUFFICES ASSUME IInv, [Next]_vars
               PROVE  IInv'
    OBVIOUS
  <1>1. CASE \E id \in Ids : Start(id) \/ Stop(id)
    BY <1>1, DaemonKeepsIInv
  <1>2. CASE BeginSample
    BY <1>2, BeginKeepsIInv
  <1>3. CASE OpenSocket \/ Connect \/ SendRaisesSigpipe
    BY <1>3, ConnectingKeepsIInv
  <1>4. CASE Send
    BY <1>4, SendKeepsIInv
  <1>5. CASE Receive
    BY <1>5, ReceiveKeepsIInv
  <1>6. CASE EndOfAnswer
    BY <1>6, EndKeepsIInv
  <1>7. CASE ParseList
    BY <1>7, ParseListKeepsIInv
  <1>8. CASE ParseStatistics
    BY <1>8, ParseStatisticsKeepsIInv
  <1>9. CASE BadResponse \/ SocketFails \/ RequestFails
    <2>1. Throw /\ fd' = FALSE
      BY <1>9 DEF BadResponse, SocketFails, RequestFails, CloseAfterError, Close, IInv, TypeOK,
                  NoDescriptorLeft
    <2> QED
      BY <2>1, ThrowKeepsIInv
  <1>10. CASE UNCHANGED vars
    <2> USE <1>10 DEF vars, daemon, http
    <2>1. TypeOK' /\ AnswerIsTrue' /\ NobodyIsForgotten'
      BY DEF IInv, TypeOK, AnswerIsTrue, NobodyIsForgotten
    <2>2. SuccessMeansAllChecked'
      BY DEF IInv, SuccessMeansAllChecked
    <2> QED
      BY <2>1, <2>2 DEF IInv, SampleIsOpen, WholeIsComplete, Complete, NoDescriptorLeft
  <1> QED
    BY <1>1, <1>2, <1>3, <1>4, <1>5, <1>6, <1>7, <1>8, <1>9, <1>10 DEF Next, RequestStep

THEOREM Invariance == Spec => []IInv
  <1> QED
    BY InitIInv, StepKeepsIInv, PTL DEF Spec

\* However a request ends and whatever fails, the descriptor that
\* http_get_unix_socket opened is closed before the sampler goes on.
THEOREM DescriptorsAreClosed == Spec => []NoDescriptorLeft
  <1>1. IInv => NoDescriptorLeft
    BY DEF IInv
  <1> QED
    BY Invariance, <1>1, PTL

\* If no answer was cut off, the sample that sample_docker reports as a success
\* holds the real usage of every container that ran all the while.
THEOREM SuccessIsComplete == Spec => []SuccessMeansAllChecked
  <1>1. IInv => SuccessMeansAllChecked
    BY DEF IInv
  <1> QED
    BY Invariance, <1>1, PTL
=============================================================================
