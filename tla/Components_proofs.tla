--------------------------- MODULE Components_proofs ---------------------------
(***************************************************************************)
(* Proofs about the components of Components, for every value of their     *)
(* constants.                                                              *)
(***************************************************************************)
EXTENDS Components, FiniteSetTheorems, SequenceTheorems, TLAPS

USE ComponentAssumption

-----------------------------------------------------------------------------
(* Every step is a step of one component, and the others stutter. *)

LEMMA Steps ==
  ASSUME [Next]_vars
  PROVE  /\ [Registry!Next]_(Registry!vars)
         /\ [Keys!Next]_(Keys!vars)
         /\ [Pool!Next]_(Pool!vars)
BY DEF Next, InRegistry, InKeys, InScraper, vars, registryVars, keyVars, scraperVars,
       Registry!vars, Registry!workerVars, Registry!requestVars, Keys!vars,
       Pool!vars, Pool!executionVars, Pool!poolVars

-----------------------------------------------------------------------------
(* WorkerRegistry *)

\* The constants of the registry, with the operators of FiniteSets under one name.
LEMMA SameSets ==
  ASSUME NEW S
  PROVE  /\ Registry!Cardinality(S) = Cardinality(S)
         /\ Registry!IsFiniteSet(S) <=> IsFiniteSet(S)
BY DEF Registry!Cardinality, Registry!IsFiniteSet, Cardinality, IsFiniteSet

LEMMA RegistryConstants ==
  /\ IsFiniteSet(Workers) /\ IsFiniteSet(Dispatches)
  /\ Fitting \subseteq Workers /\ Unstable \subseteq Workers
  /\ NoWorker \notin Workers /\ MaxStarts \in Nat
BY SameSets DEF ComponentAssumption, Registry!RegistryAssumption

\* Sorted lists every worker of a set once.
LEMMA SortedList ==
  ASSUME NEW S \in SUBSET Workers
  PROVE  /\ Cardinality(S) \in Nat
         /\ Registry!Sorted(S) \in [1..Cardinality(S) -> S]
         /\ \A i, j \in 1..Cardinality(S) :
              Registry!Sorted(S)[i] = Registry!Sorted(S)[j] => i = j
         /\ \A w \in S : \E i \in 1..Cardinality(S) : Registry!Sorted(S)[i] = w
         /\ Len(Registry!Sorted(S)) = Cardinality(S)
<1>1. IsFiniteSet(S) /\ Cardinality(S) \in Nat
  BY RegistryConstants, FS_Subset, FS_CardinalityType
<1> DEFINE n == Cardinality(S)
<1>2. PICK f : f \in Bijection(1..n, S)
  BY <1>1, FS_CardinalityType DEF ExistsBijection
<1>3. f \in [1..n -> S] /\ \A i, j \in DOMAIN f : f[i] = f[j] => i = j
  BY <1>2 DEF Bijection, Injection, IsInjective
<1>4. Registry!Sorted(S) = CHOOSE g \in [1..n -> S] : Registry!IsInjective(g)
  BY SameSets DEF Registry!Sorted, Registry!SetToSeq
<1>5. Registry!IsInjective(f)
  BY <1>3 DEF Registry!IsInjective
<1>6. Registry!Sorted(S) \in [1..n -> S] /\ Registry!IsInjective(Registry!Sorted(S))
  BY <1>3, <1>4, <1>5
<1>7. Registry!Sorted(S) \in Injection(1..n, S)
  BY <1>6 DEF Registry!IsInjective, Injection, IsInjective
<1>8. Registry!Sorted(S) \in Surjection(1..n, S)
  BY <1>1, <1>7, FS_Injection, FS_Interval
<1> QED
  BY <1>1, <1>6, <1>7, <1>8 DEF Injection, IsInjective, Surjection

\* After t rounds and p turns the counter points at the next worker.
LEMMA NextTurn ==
  ASSUME NEW n \in Nat, n > 0, NEW t \in Nat, NEW p \in 0..(n - 1), NEW r \in Nat, r = n * t + p
  PROVE  /\ r % n = p
         /\ p = n - 1 => r + 1 = n * (t + 1) + 0
         /\ p < n - 1 => r + 1 = n * t + (p + 1)
OBVIOUS

LEMMA InitRegistry == Registry!Init => Registry!IInv
<1> SUFFICES ASSUME Registry!Init PROVE Registry!IInv
  OBVIOUS
<1> USE RegistryConstants
<1>1. Registry!TypeOK
  BY DEF Registry!Init, Registry!TypeOK
<1>2. Registry!StaysGone /\ Registry!GoneIsNotListed
  BY DEF Registry!Init, Registry!StaysGone, Registry!GoneIsNotListed
<1>3. ASSUME NEW S \in SUBSET Fitting, NEW w \in S PROVE Registry!Turns(S, w) = 0
  <2>1. {q \in Dispatches : listed[q] \cap Fitting = S /\ chosen[q] = w} = {}
    BY DEF Registry!Init
  <2> QED
    BY <2>1, SameSets, FS_EmptySet DEF Registry!Turns
<1>4. Registry!TurnsFollow
  <2> SUFFICES ASSUME NEW S \in SUBSET Fitting, Cardinality(S) > 1
               PROVE  \E t \in 0..rotation, p \in 0..(Cardinality(S) - 1) :
                         /\ rotation = Cardinality(S) * t + p
                         /\ \A i \in 1..Cardinality(S) :
                              Registry!Turns(S, Registry!Sorted(S)[i]) = IF i <= p THEN t + 1 ELSE t
    BY SameSets DEF Registry!TurnsFollow, Registry!Init
  <2>1. rotation = 0 /\ Cardinality(S) \in Nat
    BY SortedList DEF Registry!Init
  <2>2. \A i \in 1..Cardinality(S) : Registry!Turns(S, Registry!Sorted(S)[i]) = 0
    BY <1>3, SortedList
  <2>3. 0 \in 0..rotation /\ 0 \in 0..(Cardinality(S) - 1) /\ rotation = Cardinality(S) * 0 + 0
    BY <2>1
  <2>4. \A i \in 1..Cardinality(S) :
           Registry!Turns(S, Registry!Sorted(S)[i]) = IF i <= 0 THEN 0 + 1 ELSE 0
    BY <2>1, <2>2
  <2> QED
    BY <2>3, <2>4
<1> QED
  BY <1>1, <1>2, <1>4 DEF Registry!IInv

\* What Choose does: the only worker found is chosen, or of several the one at the counter.
LEMMA Chosen ==
  ASSUME Registry!TypeOK, NEW q \in Dispatches, Registry!Choose(q), NEW S, S = listed[q] \cap Fitting
  PROVE  LET n == Cardinality(S) IN
         /\ n \in Nat
         /\ n = 0 => chosen' = chosen /\ rotation' = rotation
         /\ n = 1 => chosen' = [chosen EXCEPT ![q] = Registry!Sorted(S)[1]] /\ rotation' = rotation
         /\ n > 1 => /\ chosen' = [chosen EXCEPT ![q] = Registry!Sorted(S)[1 + (rotation % n)]]
                     /\ rotation' = rotation + 1
                     /\ rotation % n \in 0..(n - 1)
<1>1. S \in SUBSET Workers /\ rotation \in Nat
  BY RegistryConstants DEF Registry!TypeOK
<1>2. Registry!Candidates(q) = Registry!Sorted(S) /\ Cardinality(S) \in Nat
      /\ Len(Registry!Candidates(q)) = Cardinality(S)
  BY <1>1, SortedList DEF Registry!Candidates
<1>3. ASSUME NEW n \in Nat, n > 1 PROVE rotation % n \in 0..(n - 1)
  BY <1>1, <1>3
<1> DEFINE n == Cardinality(S)
<1>4. /\ rotation' = IF n > 1 THEN rotation + 1 ELSE rotation
      /\ chosen' = IF n = 0 THEN chosen
                   ELSE [chosen EXCEPT ![q] =
                           Registry!Sorted(S)[IF n = 1 THEN 1 ELSE 1 + (rotation % n)]]
  BY <1>2 DEF Registry!Choose
<1>5. n \in Nat
  BY <1>2
<1> HIDE DEF n
<1>6. n = 0 => chosen' = chosen /\ rotation' = rotation
  BY <1>4
<1>7. n = 1 => chosen' = [chosen EXCEPT ![q] = Registry!Sorted(S)[1]] /\ rotation' = rotation
  BY <1>4
<1>8. ASSUME n > 1
      PROVE  /\ chosen' = [chosen EXCEPT ![q] = Registry!Sorted(S)[1 + (rotation % n)]]
             /\ rotation' = rotation + 1
             /\ rotation % n \in 0..(n - 1)
  <2>1. n # 0 /\ n # 1
    BY <1>8
  <2>2. chosen' = [chosen EXCEPT ![q] = Registry!Sorted(S)[1 + (rotation % n)]]
    BY <1>4, <2>1, Zenon
  <2> QED
    BY <1>3, <1>4, <1>5, <1>8, <2>2
<1> QED
  BY <1>5, <1>6, <1>7, <1>8 DEF n

LEMMA ChosenType ==
  ASSUME Registry!TypeOK, NEW q \in Dispatches, Registry!Choose(q)
  PROVE  chosen' \in [Dispatches -> Fitting \cup {NoWorker}] /\ rotation' \in Nat
<1> DEFINE S == listed[q] \cap Fitting
           n == Cardinality(S)
<1>1. S \in SUBSET Workers /\ S \subseteq Fitting /\ rotation \in Nat
      /\ chosen \in [Dispatches -> Fitting \cup {NoWorker}]
  BY RegistryConstants DEF Registry!TypeOK
<1>2. n \in Nat /\ \A i \in 1..n : Registry!Sorted(S)[i] \in Fitting
  BY <1>1, SortedList
<1>3. CASE n = 0
  BY <1>1, <1>3, Chosen
<1>4. CASE n = 1
  BY <1>1, <1>2, <1>4, Chosen
<1>5. CASE n > 1
  <2>1. 1 + (rotation % n) \in 1..n
    BY <1>2, <1>5, Chosen
  <2> QED
    BY <1>1, <1>2, <1>5, <2>1, Chosen
<1> QED
  BY <1>2, <1>3, <1>4, <1>5

LEMMA NextTypes == ASSUME Registry!IInv, [Registry!Next]_(Registry!vars)
                   PROVE  Registry!TypeOK' /\ Registry!StaysGone' /\ Registry!GoneIsNotListed'
<1> DEFINE Inv == Registry!TypeOK /\ Registry!StaysGone /\ Registry!GoneIsNotListed
<1> SUFFICES Inv'
  OBVIOUS
<1> USE RegistryConstants
    DEF Registry!IInv, Registry!TypeOK, Registry!StaysGone, Registry!GoneIsNotListed, Registry!Gone,
        Registry!workerVars, Registry!requestVars
<1>1. ASSUME NEW w \in Workers, Registry!Start(w) PROVE Inv'
  BY <1>1 DEF Registry!Start
<1>2. ASSUME NEW w \in Workers, Registry!Beat(w) PROVE Inv'
  BY <1>2 DEF Registry!Beat
<1>3. ASSUME NEW w \in Workers, Registry!AddToIndex(w) PROVE Inv'
  BY <1>3 DEF Registry!AddToIndex
<1>4. ASSUME NEW w \in Workers, Registry!SetKey(w) PROVE Inv'
  BY <1>4 DEF Registry!SetKey
<1>5. ASSUME NEW w \in Workers, Registry!Shutdown(w) PROVE Inv'
  BY <1>5 DEF Registry!Shutdown
<1>6. ASSUME NEW w \in Workers, Registry!DeleteKey(w) PROVE Inv'
  BY <1>6 DEF Registry!DeleteKey
<1>7. ASSUME NEW w \in Workers, Registry!RemoveFromIndex(w) PROVE Inv'
  BY <1>7 DEF Registry!RemoveFromIndex
<1>8. ASSUME NEW w \in Workers, Registry!Exit(w) PROVE Inv'
  BY <1>8 DEF Registry!Exit
<1>9. ASSUME NEW w \in Workers, Registry!Expire(w) PROVE Inv'
  BY <1>9 DEF Registry!Expire
<1>10. ASSUME NEW q \in Dispatches, Registry!Members(q) PROVE Inv'
  BY <1>10 DEF Registry!Members
<1>11. ASSUME NEW q \in Dispatches, NEW w \in Workers, Registry!ReadKey(q, w) PROVE Inv'
  BY <1>11 DEF Registry!ReadKey
<1>12. ASSUME NEW q \in Dispatches, NEW w \in Workers, Registry!RemoveMissing(q, w) PROVE Inv'
  BY <1>12 DEF Registry!RemoveMissing
<1>13. ASSUME NEW q \in Dispatches, Registry!Choose(q) PROVE Inv'
  <2>1. /\ chosen' \in [Dispatches -> Fitting \cup {NoWorker}] /\ rotation' \in Nat
        /\ regPc' = [regPc EXCEPT ![q] = "done"] /\ gone' = [gone EXCEPT ![q] = {}]
        /\ UNCHANGED <<phase, starts, beat, alive, index, unread, missing, listed>>
    BY <1>13, ChosenType DEF Registry!Choose
  <2> QED
    BY <2>1
<1>14. CASE UNCHANGED Registry!vars
  BY <1>14 DEF Registry!vars
<1> QED
  BY <1>1, <1>2, <1>3, <1>4, <1>5, <1>6, <1>7, <1>8, <1>9, <1>10, <1>11, <1>12, <1>13, <1>14
     DEF Registry!Next, Registry!WorkerNext, Registry!RequestNext

\* A step of a request that has not chosen counts for nobody.
LEMMA TurnsKept ==
  ASSUME NEW S \in SUBSET Fitting, NEW w \in S,
         \A q \in Dispatches : (listed[q] \cap Fitting = S /\ chosen[q] = w)
                                 <=> (listed'[q] \cap Fitting = S /\ chosen'[q] = w)
  PROVE  Registry!Turns(S, w)' = Registry!Turns(S, w)
<1>1. {q \in Dispatches : listed'[q] \cap Fitting = S /\ chosen'[q] = w}
        = {q \in Dispatches : listed[q] \cap Fitting = S /\ chosen[q] = w}
  OBVIOUS
<1> QED
  BY <1>1 DEF Registry!Turns

LEMMA TurnsUp ==
  ASSUME NEW S \in SUBSET Fitting, NEW w \in S, NEW q \in Dispatches,
         chosen[q] # w, chosen'[q] = w, listed[q] \cap Fitting = S, listed' = listed,
         \A r \in Dispatches \ {q} : chosen'[r] = chosen[r]
  PROVE  Registry!Turns(S, w)' = Registry!Turns(S, w) + 1
<1> DEFINE A == {r \in Dispatches : listed[r] \cap Fitting = S /\ chosen[r] = w}
           B == {r \in Dispatches : listed'[r] \cap Fitting = S /\ chosen'[r] = w}
<1>1. B = A \cup {q} /\ q \notin A
  OBVIOUS
<1>2. IsFiniteSet(A)
  BY RegistryConstants, FS_Subset
<1>3. Cardinality(B) = Cardinality(A) + 1
  BY <1>1, <1>2, FS_AddElement
<1> QED
  BY <1>3, SameSets DEF Registry!Turns

\* The workers of S, in their order, after t rounds and p turns.
Spread(S, t, p) ==
  /\ rotation = Cardinality(S) * t + p
  /\ \A i \in 1..Cardinality(S) :
        Registry!Turns(S, Registry!Sorted(S)[i]) = IF i <= p THEN t + 1 ELSE t

LEMMA FollowSpread ==
  Registry!TurnsFollow <=>
    /\ \A q \in Dispatches : regPc[q] # "done" => chosen[q] = NoWorker
    /\ \A S \in SUBSET Fitting : Cardinality(S) > 1 /\ Registry!SameChoice(S) =>
         \E t \in 0..rotation, p \in 0..(Cardinality(S) - 1) : Spread(S, t, p)
BY SameSets DEF Registry!TurnsFollow, Spread

LEMMA QuietTurns ==
  ASSUME Registry!IInv, UNCHANGED <<chosen, rotation>>,
         \A q \in Dispatches : (regPc[q] = "done") <=> (regPc'[q] = "done"),
         \A q \in Dispatches : regPc[q] = "done" => listed'[q] = listed[q]
  PROVE  Registry!TurnsFollow'
<1> USE FollowSpread DEF Registry!IInv
<1> SUFFICES ASSUME NEW S \in SUBSET Fitting, Cardinality(S) > 1, Registry!SameChoice(S)'
             PROVE  \E t \in 0..rotation, p \in 0..(Cardinality(S) - 1) : Spread(S, t, p)'
  BY SameSets DEF Registry!TurnsFollow, Spread
<1>1. S \in SUBSET Workers /\ \A w \in S : w # NoWorker
  BY RegistryConstants
<1>2. Registry!SameChoice(S)
  BY DEF Registry!SameChoice
<1>3. PICK t \in 0..rotation, p \in 0..(Cardinality(S) - 1) : Spread(S, t, p)
  BY <1>2
<1>4. \A w \in S : Registry!Turns(S, w)' = Registry!Turns(S, w)
  BY <1>1, TurnsKept
<1>5. \A i \in 1..Cardinality(S) : Registry!Sorted(S)[i] \in S
  BY <1>1, SortedList
<1>6. \A i \in 1..Cardinality(S) :
         Registry!Turns(S, Registry!Sorted(S)[i])' = IF i <= p THEN t + 1 ELSE t
  BY <1>3, <1>4, <1>5 DEF Spread
<1> QED
  BY <1>3, <1>6 DEF Spread

LEMMA ChooseTurns ==
  ASSUME Registry!IInv, NEW q \in Dispatches, Registry!Choose(q)
  PROVE  Registry!TurnsFollow'
<1> DEFINE T == listed[q] \cap Fitting
<1>1. /\ regPc' = [regPc EXCEPT ![q] = "done"] /\ regPc[q] = "read" /\ listed' = listed
      /\ chosen[q] = NoWorker /\ rotation \in Nat
      /\ chosen \in [Dispatches -> Fitting \cup {NoWorker}]
      /\ regPc \in [Dispatches -> {"idle", "read", "done"}]
      /\ T \in SUBSET Workers /\ Cardinality(T) \in Nat
  BY RegistryConstants, SortedList, FollowSpread DEF Registry!IInv, Registry!TypeOK, Registry!Choose
<1>2. \A r \in Dispatches \ {q} : chosen'[r] = chosen[r] /\ regPc'[r] = regPc[r]
  BY <1>1, Chosen DEF Registry!IInv
<1>3. \A r \in Dispatches : regPc'[r] # "done" => chosen'[r] = NoWorker
  BY <1>1, <1>2, FollowSpread DEF Registry!IInv
<1>4. ASSUME NEW S \in SUBSET Fitting, Cardinality(S) > 1, Registry!SameChoice(S)'
      PROVE  \E t \in 0..rotation', p \in 0..(Cardinality(S) - 1) : Spread(S, t, p)'
  <2>1. Registry!SameChoice(S)
    BY <1>1, <1>2, <1>4 DEF Registry!SameChoice
  <2>2. PICK t \in 0..rotation, p \in 0..(Cardinality(S) - 1) : Spread(S, t, p)
    BY <1>4, <2>1, FollowSpread DEF Registry!IInv
  <2>3. /\ S \in SUBSET Workers /\ Cardinality(S) \in Nat
        /\ \A w \in S : w # NoWorker
        /\ Registry!Sorted(S) \in [1..Cardinality(S) -> S]
        /\ \A i, j \in 1..Cardinality(S) : Registry!Sorted(S)[i] = Registry!Sorted(S)[j] => i = j
    BY RegistryConstants, SortedList
  <2>4. CASE Cardinality(T) <= 1
    <3>1. rotation' = rotation /\ T # S
      BY <1>1, <1>4, <2>4, Chosen DEF Registry!IInv
    <3>2. \A w \in S : Registry!Turns(S, w)' = Registry!Turns(S, w)
      BY <1>1, <1>2, <2>3, <3>1, TurnsKept
    <3>3. \A i \in 1..Cardinality(S) :
             Registry!Turns(S, Registry!Sorted(S)[i])' = IF i <= p THEN t + 1 ELSE t
      BY <2>2, <2>3, <3>2 DEF Spread
    <3> QED
      BY <2>2, <3>1, <3>3 DEF Spread
  <2>5. CASE Cardinality(T) > 1
    <3>1. T = S
      BY <1>1, <1>4, <2>5, SameSets DEF Registry!SameChoice
    <3>2. /\ rotation % Cardinality(S) = p
          /\ p = Cardinality(S) - 1 => rotation + 1 = Cardinality(S) * (t + 1) + 0
          /\ p < Cardinality(S) - 1 => rotation + 1 = Cardinality(S) * t + (p + 1)
      <4>1. /\ Cardinality(S) \in Nat /\ Cardinality(S) > 0 /\ rotation \in Nat
            /\ t \in Nat /\ p \in 0..(Cardinality(S) - 1)
        BY <1>1, <1>4, <2>3
      <4>2. rotation = Cardinality(S) * t + p
        BY <2>2 DEF Spread
      <4>3. PICK n, r : n = Cardinality(S) /\ r = rotation
        OBVIOUS
      <4>4. n \in Nat /\ n > 0 /\ r \in Nat /\ t \in Nat /\ p \in 0..(n - 1) /\ r = n * t + p
        BY <4>1, <4>2, <4>3
      <4>5. /\ r % n = p
            /\ p = n - 1 => r + 1 = n * (t + 1) + 0
            /\ p < n - 1 => r + 1 = n * t + (p + 1)
        BY <4>4, NextTurn
      <4> QED
        BY <4>3, <4>5
    <3>3. chosen' = [chosen EXCEPT ![q] = Registry!Sorted(S)[1 + p]] /\ rotation' = rotation + 1
      BY <2>5, <3>1, <3>2, Chosen DEF Registry!IInv
    <3>4. ASSUME NEW i \in 1..Cardinality(S)
          PROVE  Registry!Turns(S, Registry!Sorted(S)[i])' = IF i <= p + 1 THEN t + 1 ELSE t
      <4> DEFINE w == Registry!Sorted(S)[i]
      <4>0. w \in S
        BY <2>3
      <4>1. Registry!Turns(S, w) = IF i <= p THEN t + 1 ELSE t
        BY <2>2 DEF Spread
      <4>2. CASE i = p + 1
        <5>1. Registry!Turns(S, w)' = Registry!Turns(S, w) + 1
          BY <1>1, <1>2, <2>3, <3>1, <3>3, <4>0, <4>2, TurnsUp
        <5> QED
          BY <4>1, <4>2, <5>1
      <4>3. CASE i # p + 1
        <5>1. 1 + p \in 1..Cardinality(S) /\ chosen'[q] = Registry!Sorted(S)[1 + p]
          BY <1>1, <2>3, <3>3
        <5>2. chosen'[q] # w /\ chosen[q] # w
          BY <1>1, <2>3, <4>0, <4>3, <5>1
        <5>3. Registry!Turns(S, w)' = Registry!Turns(S, w)
          BY <1>1, <1>2, <4>0, <5>2, TurnsKept
        <5> QED
          BY <4>1, <4>3, <5>3
      <4> QED
        BY <4>2, <4>3
    <3>5. CASE p < Cardinality(S) - 1
      <4>1. Spread(S, t, p + 1)'
        BY <3>2, <3>3, <3>4, <3>5 DEF Spread
      <4>2. t \in 0..rotation' /\ p + 1 \in 0..(Cardinality(S) - 1)
        BY <1>1, <2>3, <3>3, <3>5
      <4> QED
        BY <4>1, <4>2
    <3>6. CASE p = Cardinality(S) - 1
      <4>1. Spread(S, t + 1, 0)'
        BY <2>3, <3>2, <3>3, <3>4, <3>6 DEF Spread
      <4>2. t + 1 \in 0..rotation' /\ 0 \in 0..(Cardinality(S) - 1)
        BY <1>1, <1>4, <2>3, <3>3
      <4> QED
        BY <4>1, <4>2
    <3> QED
      BY <2>3, <3>5, <3>6
  <2> QED
    BY <1>1, <2>4, <2>5
<1> QED
  BY <1>3, <1>4, SameSets DEF Registry!TurnsFollow, Spread

LEMMA NextRegistry == ASSUME Registry!IInv, [Registry!Next]_(Registry!vars) PROVE Registry!IInv'
<1>1. Registry!TypeOK' /\ Registry!StaysGone' /\ Registry!GoneIsNotListed'
  BY NextTypes
<1>2. ASSUME NEW q \in Dispatches, Registry!Choose(q) PROVE Registry!TurnsFollow'
  BY <1>2, ChooseTurns
<1>3. ASSUME NEW q \in Dispatches,
             Registry!Members(q) \/ \E w \in Workers : Registry!ReadKey(q, w) \/ Registry!RemoveMissing(q, w)
      PROVE  Registry!TurnsFollow'
  <2>1. /\ UNCHANGED <<chosen, rotation>>
        /\ \A r \in Dispatches : (regPc[r] = "done") <=> (regPc'[r] = "done")
        /\ \A r \in Dispatches : regPc[r] = "done" => listed'[r] = listed[r]
    BY <1>3 DEF Registry!Members, Registry!ReadKey, Registry!RemoveMissing, Registry!IInv, Registry!TypeOK
  <2> QED
    BY <2>1, QuietTurns
<1>4. ASSUME UNCHANGED <<chosen, rotation, regPc, listed>> PROVE Registry!TurnsFollow'
  BY <1>4, QuietTurns
<1>5. ASSUME NEW w \in Workers, Registry!WorkerNext(w) \/ Registry!Expire(w)
      PROVE  UNCHANGED <<chosen, rotation, regPc, listed>>
  BY <1>5 DEF Registry!WorkerNext, Registry!Start, Registry!Beat, Registry!Shutdown, Registry!Exit,
              Registry!AddToIndex, Registry!SetKey, Registry!DeleteKey, Registry!RemoveFromIndex,
              Registry!Expire, Registry!requestVars
<1>6. CASE UNCHANGED Registry!vars
  <2>1. UNCHANGED <<chosen, rotation, regPc, listed>>
    BY <1>6 DEF Registry!vars, Registry!workerVars, Registry!requestVars
  <2> QED
    BY <1>1, <1>4, <2>1 DEF Registry!IInv
<1> QED
  BY <1>1, <1>2, <1>3, <1>4, <1>5, <1>6 DEF Registry!Next, Registry!RequestNext, Registry!IInv

LEMMA RegistryEven == Registry!IInv => Registry!RotationIsEven
<1> SUFFICES ASSUME Registry!IInv, NEW S \in SUBSET Fitting, Registry!SameChoice(S),
                    NEW v \in S, NEW w \in S
             PROVE  Registry!Turns(S, v) - Registry!Turns(S, w) <= 1
  BY DEF Registry!RotationIsEven
<1>1. S \in SUBSET Workers /\ IsFiniteSet(S) /\ Cardinality(S) \in Nat
  BY RegistryConstants, FS_Subset, SortedList
<1>2. CASE v = w
  <2>1. Registry!Turns(S, v) \in Nat
    <3>1. IsFiniteSet({q \in Dispatches : listed[q] \cap Fitting = S /\ chosen[q] = v})
      BY RegistryConstants, FS_Subset
    <3> QED
      BY <3>1, SameSets, FS_CardinalityType DEF Registry!Turns
  <2> QED
    BY <1>2, <2>1
<1>3. CASE v # w
  <2>1. Cardinality(S) > 1
    <3>1. Cardinality({v}) = 1 /\ IsFiniteSet({v}) /\ Cardinality({v} \cup {w}) = 2
      <4>1. Cardinality({v}) = 1 /\ IsFiniteSet({v})
        BY FS_Singleton
      <4>2. w \notin {v}
        BY <1>3
      <4>3. Cardinality({v} \cup {w}) = Cardinality({v}) + 1
        BY <4>1, <4>2, FS_AddElement
      <4> QED
        BY <4>1, <4>3
    <3>2. Cardinality({v} \cup {w}) <= Cardinality(S)
      BY <1>1, FS_Subset
    <3> QED
      BY <1>1, <3>1, <3>2
  <2>2. PICK t \in 0..rotation, p \in 0..(Cardinality(S) - 1) : Spread(S, t, p)
    BY <2>1, FollowSpread DEF Registry!IInv
  <2>3. \A x \in S : Registry!Turns(S, x) \in {t, t + 1}
    <3> TAKE x \in S
    <3>1. PICK i \in 1..Cardinality(S) : Registry!Sorted(S)[i] = x
      BY <1>1, SortedList
    <3> QED
      BY <2>2, <3>1 DEF Spread
  <2> QED
    BY <2>3
<1> QED
  BY <1>2, <1>3

-----------------------------------------------------------------------------
(* ApiKeys *)

LEMMA InitKeys == Keys!Init => Keys!IInv
BY DEF Keys!Init, Keys!IInv, Keys!TypeOK, Keys!NewKeys, Keys!OneInHand, Keys!RecordIsExact,
       Keys!InHand

LEMMA NextKeys == ASSUME Keys!IInv, [Keys!Next]_(Keys!vars) PROVE Keys!IInv'
<1> USE DEF Keys!ApiKeysAssumption, Keys!IInv, Keys!TypeOK, Keys!NewKeys, Keys!OneInHand,
        Keys!RecordIsExact, Keys!InHand, Keys!Status, Keys!Record, Keys!Goto, Keys!Usable
<1>1. ASSUME NEW k \in KeyIds, Keys!SaveNew(k) PROVE Keys!IInv'
  BY <1>1 DEF Keys!SaveNew
<1>2. ASSUME NEW k \in KeyIds, Keys!ListNew(k) PROVE Keys!IInv'
  BY <1>2 DEF Keys!ListNew
<1>3. ASSUME NEW q \in KeyRequests, Keys!GetStored(q) PROVE Keys!IInv'
  <2>1. Keys!TypeOK'
    BY <1>3 DEF Keys!GetStored
  <2>2. Keys!NewKeys'
    BY <1>3 DEF Keys!GetStored
  <2>3. Keys!OneInHand'
    BY <1>3 DEF Keys!GetStored
  <2>4. Keys!RecordIsExact'
    BY <1>3 DEF Keys!GetStored
  <2> QED
    BY <2>1, <2>2, <2>3, <2>4
<1>4. ASSUME NEW q \in KeyRequests, Keys!CountUse(q) PROVE Keys!IInv'
  <2>1. Keys!TypeOK'
    <3>0. seen[q] \in [status : {"active", "revoked"}, usageCount : Nat]
      BY <1>4, ComponentAssumption DEF Keys!CountUse
    <3>1. [seen[q] EXCEPT !.usageCount = @ + 1] \in Keys!Record
      BY <3>0, <1>4 DEF Keys!CountUse
    <3>2. record' \in [KeyIds -> Keys!Record \cup {NoRecord}]
      BY <3>1, <1>4 DEF Keys!CountUse
    <3> QED
      BY <3>2, <1>4 DEF Keys!CountUse
  <2>2. Keys!NewKeys'
    BY <1>4 DEF Keys!CountUse
  <2>3. Keys!OneInHand'
    BY <1>4 DEF Keys!CountUse
  <2>4. Keys!RecordIsExact'
    BY <1>4 DEF Keys!CountUse
  <2> QED
    BY <2>1, <2>2, <2>3, <2>4
<1>5. ASSUME NEW q \in KeyRequests, Keys!Revoke(q) PROVE Keys!IInv'
  <2>1. Keys!TypeOK'
    <3>0. seen[q] \in [status : {"active", "revoked"}, usageCount : Nat]
      BY <1>5 DEF Keys!Revoke
    <3>1. [seen[q] EXCEPT !.status = "revoked"] \in Keys!Record
      BY <3>0, <1>5 DEF Keys!Revoke
    <3>2. record' \in [KeyIds -> Keys!Record \cup {NoRecord}]
      BY <3>1, <1>5 DEF Keys!Revoke
    <3> QED
      BY <3>2, <1>5 DEF Keys!Revoke
  <2>2. Keys!NewKeys'
    BY <1>5 DEF Keys!Revoke
  <2>3. Keys!OneInHand'
    BY <1>5 DEF Keys!Revoke
  <2>4. Keys!RecordIsExact'
    BY <1>5 DEF Keys!Revoke
  <2> QED
    BY <2>1, <2>2, <2>3, <2>4
<1>6. ASSUME NEW q \in KeyRequests, Keys!Delete(q) PROVE Keys!IInv'
  BY <1>6 DEF Keys!Delete
<1>7. ASSUME NEW q \in KeyRequests, Keys!Unlist(q) PROVE Keys!IInv'
  BY <1>7 DEF Keys!Unlist
<1>8. CASE UNCHANGED Keys!vars
  BY <1>8 DEF Keys!vars
<1> QED
  BY <1>1, <1>2, <1>3, <1>4, <1>5, <1>6, <1>7, <1>8 DEF Keys!Next

LEMMA KeysExact == Keys!IInv => Keys!SerialUseIsExact
BY DEF Keys!IInv, Keys!RecordIsExact, Keys!SerialUseIsExact, Keys!InHand, Keys!Status

\* Only a request that had read a key before it ended can accept it afterwards.
EndedStep ==
  \A k \in KeyIds : ended[k] # {} /\ k \notin overlapped => accepted'[k] = accepted[k]

LEMMA KeysRefused == ASSUME Keys!IInv, [Keys!Next]_(Keys!vars) PROVE EndedStep
<1> USE DEF Keys!IInv, Keys!TypeOK, EndedStep
<1>1. ASSUME NEW k \in KeyIds, Keys!SaveNew(k) \/ Keys!ListNew(k) PROVE EndedStep
  BY <1>1 DEF Keys!SaveNew, Keys!ListNew
<1>2. ASSUME NEW q \in KeyRequests,
             Keys!GetStored(q) \/ Keys!Revoke(q) \/ Keys!Delete(q) \/ Keys!Unlist(q)
      PROVE  EndedStep
  BY <1>2 DEF Keys!GetStored, Keys!Revoke, Keys!Delete, Keys!Unlist
<1>3. ASSUME NEW q \in KeyRequests, Keys!CountUse(q) PROVE EndedStep
  BY <1>3 DEF Keys!CountUse, Keys!OneInHand, Keys!RecordIsExact, Keys!NewKeys, Keys!Usable,
              Keys!Status, Keys!InHand
<1>4. CASE UNCHANGED Keys!vars
  BY <1>4 DEF Keys!vars
<1> QED
  BY <1>1, <1>2, <1>3, <1>4 DEF Keys!Next

-----------------------------------------------------------------------------
(* Scraper *)

\* What a plan can be: only http has a fallback, and it is playwright.
LEMMA PlanShapes ==
  ASSUME NEW p \in Pool!Plans
  PROVE  \/ p = Pool!NoPlan
         \/ /\ p.primary \in Pool!Strategy /\ p # Pool!NoPlan
            /\ p.fallback = "none" \/ (p.fallback = "playwright" /\ p.primary = "http")
<1> PICK r \in Pool!Requested, d \in Pool!Requested, a \in SUBSET Pool!Strategy :
         p = Pool!StrategyPlan(r, d, a)
  BY DEF Pool!Plans
<1> QED
  BY DEF Pool!StrategyPlan, Pool!AutoPrimary, Pool!Normal, Pool!NoPlan, Pool!Strategy, Pool!Requested

LEMMA InitPool == Pool!Init => Pool!IInv
<1> SUFFICES ASSUME Pool!Init PROVE Pool!IInv
  OBVIOUS
<1>1. Pool!TypeOK
  <2>1. fleet \in Seq([open : BOOLEAN, closes : Nat]) /\ Len(fleet) = 0
    BY DEF Pool!Init
  <2>2. /\ plan \in [Executions -> Pool!Plans]
        /\ runPc \in [Executions -> {"idle", "http", "browser", "launch", "page", "backoff",
                                     "completed", "failed"}]
        /\ attempt \in [Executions -> 0..MaxRetries]
    BY DEF Pool!Init, Pool!ScraperAssumption
  <2>3. tries \in [Executions -> [Pool!Strategy -> 0..(MaxRetries + 1)]]
    BY DEF Pool!Init, Pool!ScraperAssumption
  <2>4. using \in [Executions -> 0..Len(fleet)] /\ pool \in 0..Len(fleet)
    BY <2>1 DEF Pool!Init, Pool!NoBrowser
  <2> QED
    BY <2>1, <2>2, <2>3, <2>4 DEF Pool!TypeOK, Pool!Init
<1>2. Pool!TriesAreCounted
  <2>1. \A e \in Executions : /\ runPc[e] = "idle" /\ attempt[e] = 0
                              /\ \A s \in Pool!Strategy : tries[e][s] = 0
    BY DEF Pool!Init
  <2>2. \A e \in Executions : Pool!Current(e) = "none"
    BY <2>1 DEF Pool!Current
  <2> QED
    BY <2>1, <2>2 DEF Pool!TriesAreCounted, Pool!Tried
<1>3. Pool!PoolIsKept /\ Pool!OpenIsPooled
  BY DEF Pool!Init, Pool!PoolIsKept, Pool!OpenIsPooled
<1> QED
  BY <1>1, <1>2, <1>3 DEF Pool!IInv

\* The part of the invariant about executions, and the part about browsers.
TriesInv ==
  /\ plan \in [Executions -> Pool!Plans]
  /\ runPc \in [Executions -> {"idle", "http", "browser", "launch", "page", "backoff",
                               "completed", "failed"}]
  /\ attempt \in [Executions -> 0..MaxRetries]
  /\ tries \in [Executions -> [Pool!Strategy -> 0..(MaxRetries + 1)]]
  /\ Pool!TriesAreCounted

BrowsersInv ==
  /\ using \in [Executions -> 0..Len(fleet)]
  /\ fleet \in Seq([open : BOOLEAN, closes : Nat])
  /\ pool \in 0..Len(fleet)
  /\ armed \in BOOLEAN /\ disposed \in BOOLEAN /\ raced \in BOOLEAN
  /\ Pool!PoolIsKept /\ Pool!OpenIsPooled

LEMMA PoolParts == Pool!IInv <=> TriesInv /\ BrowsersInv
BY DEF Pool!IInv, Pool!TypeOK, TriesInv, BrowsersInv

\* One strategy more is tried, in its turn.
LEMMA TryCounted ==
  ASSUME TriesInv, NEW e \in Executions, NEW s \in Pool!Strategy, Pool!Try(e, s),
         attempt' \in [Executions -> 0..MaxRetries],
         \A f \in Executions \ {e} : attempt'[f] = attempt[f],
         plan' = plan, plan[e] # Pool!NoPlan,
         \/ s = plan[e].primary /\ runPc[e] = "idle" /\ attempt'[e] = attempt[e]
         \/ s = plan[e].primary /\ runPc[e] = "backoff" /\ attempt'[e] = attempt[e] + 1
         \/ s = plan[e].fallback /\ Pool!Current(e) = plan[e].primary /\ attempt'[e] = attempt[e]
  PROVE  TriesInv'
<1> USE DEF Pool!ScraperAssumption
<1>1. /\ runPc' = [runPc EXCEPT ![e] = IF s = "http" THEN "http" ELSE "browser"]
      /\ tries' = [tries EXCEPT ![e][s] = @ + 1]
  BY DEF Pool!Try, Pool!Goto
<1>2. /\ plan[e].primary \in Pool!Strategy
      /\ plan[e].fallback = "none" \/ (plan[e].fallback = "playwright" /\ plan[e].primary = "http")
  BY PlanShapes DEF TriesInv
<1>3. runPc' \in [Executions -> {"idle", "http", "browser", "launch", "page", "backoff",
                                 "completed", "failed"}]
  BY <1>1 DEF TriesInv
<1>4. /\ tries[e][s] = attempt'[e]
      /\ tries[e][s] \in Nat /\ attempt'[e] <= MaxRetries
  BY <1>2 DEF TriesInv, Pool!TriesAreCounted, Pool!Tried, Pool!Current, Pool!Strategy
<1>5. tries' \in [Executions -> [Pool!Strategy -> 0..(MaxRetries + 1)]]
  BY <1>1, <1>4 DEF TriesInv
<1>6. Pool!TriesAreCounted'
  <2> SUFFICES ASSUME NEW f \in Executions
               PROVE  /\ runPc'[f] = "idle" => attempt'[f] = 0
                      /\ runPc'[f] = "failed" => plan[f] = Pool!NoPlan \/ attempt'[f] = MaxRetries
                      /\ runPc'[f] = "backoff" => attempt'[f] < MaxRetries
                      /\ plan[f] = Pool!NoPlan => runPc'[f] \in {"idle", "failed"} /\ attempt'[f] = 0
                      /\ Pool!Current(f)' # "none" => Pool!Current(f)' \in {plan[f].primary, plan[f].fallback}
                      /\ \A t \in Pool!Strategy :
                            \/ runPc'[f] = "completed" /\ tries'[f][t] <= attempt'[f] + 1
                            \/ tries'[f][t] = IF t \in {plan[f].primary, plan[f].fallback}
                                              THEN Pool!Tried(f, t)' ELSE 0
    BY DEF Pool!TriesAreCounted
  <2>1. CASE f # e
    BY <1>1, <2>1 DEF TriesInv, Pool!TriesAreCounted, Pool!Tried, Pool!Current
  <2>2. CASE f = e
    <3>1. runPc'[e] = IF s = "http" THEN "http" ELSE "browser"
      BY <1>1 DEF TriesInv
    <3>2. \A t \in Pool!Strategy : tries'[e][t] = IF t = s THEN tries[e][t] + 1 ELSE tries[e][t]
      BY <1>1 DEF TriesInv
    <3> QED
      BY <1>2, <1>4, <2>2, <3>1, <3>2
         DEF TriesInv, Pool!TriesAreCounted, Pool!Tried, Pool!Current, Pool!Strategy
  <2> QED
    BY <2>1, <2>2
<1> QED
  BY <1>3, <1>5, <1>6 DEF TriesInv

\* A step of an execution within an attempt, or to its end.
LEMMA MoveCounted ==
  ASSUME TriesInv, NEW e \in Executions, NEW step, Pool!Goto(e, step),
         UNCHANGED <<plan, attempt, tries>>,
         \/ step \in {"launch", "page"} /\ runPc[e] \in {"browser", "launch"}
         \/ step = "completed" /\ runPc[e] \in {"http", "page"}
         \/ step = "failed" /\ runPc[e] = "idle" /\ plan[e] = Pool!NoPlan
         \/ /\ step = IF attempt[e] = MaxRetries THEN "failed" ELSE "backoff"
            /\ Pool!Current(e) # "none"
            /\ Pool!Current(e) # plan[e].primary \/ plan[e].fallback = "none"
  PROVE  TriesInv'
<1> USE DEF Pool!ScraperAssumption
<1>1. runPc' = [runPc EXCEPT ![e] = step]
  BY DEF Pool!Goto
<1>2. \/ plan[e] = Pool!NoPlan
      \/ /\ plan[e].primary \in Pool!Strategy /\ plan[e] # Pool!NoPlan
         /\ plan[e].fallback = "none" \/ (plan[e].fallback = "playwright" /\ plan[e].primary = "http")
  BY PlanShapes DEF TriesInv
<1>3. runPc' \in [Executions -> {"idle", "http", "browser", "launch", "page", "backoff",
                                 "completed", "failed"}]
  BY <1>1 DEF TriesInv
<1>4. Pool!TriesAreCounted'
  <2> SUFFICES ASSUME NEW f \in Executions
               PROVE  /\ runPc'[f] = "idle" => attempt[f] = 0
                      /\ runPc'[f] = "failed" => plan[f] = Pool!NoPlan \/ attempt[f] = MaxRetries
                      /\ runPc'[f] = "backoff" => attempt[f] < MaxRetries
                      /\ plan[f] = Pool!NoPlan => runPc'[f] \in {"idle", "failed"} /\ attempt[f] = 0
                      /\ Pool!Current(f)' # "none" => Pool!Current(f)' \in {plan[f].primary, plan[f].fallback}
                      /\ \A t \in Pool!Strategy :
                            \/ runPc'[f] = "completed" /\ tries[f][t] <= attempt[f] + 1
                            \/ tries[f][t] = IF t \in {plan[f].primary, plan[f].fallback}
                                             THEN Pool!Tried(f, t)' ELSE 0
    BY DEF Pool!TriesAreCounted
  <2>1. CASE f # e
    BY <1>1, <2>1 DEF TriesInv, Pool!TriesAreCounted, Pool!Tried, Pool!Current
  <2>2. CASE f = e
    <3>1. runPc'[e] = step
      BY <1>1 DEF TriesInv
    <3>2. attempt[e] \in 0..MaxRetries
      BY DEF TriesInv
    <3>3. CASE step \in {"launch", "page"} /\ runPc[e] \in {"browser", "launch"}
      <4>1. Pool!Current(e)' = Pool!Current(e)
        BY <3>1, <3>3 DEF Pool!Current
      <4> QED
        BY <2>2, <3>1, <3>3, <4>1 DEF TriesInv, Pool!TriesAreCounted, Pool!Tried
    <3>4. CASE step = "completed" /\ runPc[e] \in {"http", "page"}
      <4>1. Pool!Current(e)' = "none" /\ Pool!Current(e) # "none"
        BY <3>1, <3>4 DEF Pool!Current
      <4>2. \A t \in Pool!Strategy : tries[e][t] <= attempt[e] + 1
        BY <3>2, <3>4 DEF TriesInv, Pool!TriesAreCounted, Pool!Tried
      <4> QED
        BY <2>2, <3>1, <3>4, <4>1, <4>2 DEF TriesInv, Pool!TriesAreCounted
    <3>5. CASE step = "failed" /\ runPc[e] = "idle" /\ plan[e] = Pool!NoPlan
      <4>1. Pool!Current(e)' = "none" /\ Pool!Current(e) = "none"
        BY <3>1, <3>5 DEF Pool!Current
      <4> QED
        BY <2>2, <3>1, <3>5, <4>1 DEF TriesInv, Pool!TriesAreCounted, Pool!Tried, Pool!NoPlan, Pool!Strategy
    <3>6. CASE /\ step = IF attempt[e] = MaxRetries THEN "failed" ELSE "backoff"
               /\ Pool!Current(e) # "none"
               /\ Pool!Current(e) # plan[e].primary \/ plan[e].fallback = "none"
      <4>1. Pool!Current(e)' = "none" /\ plan[e] # Pool!NoPlan
        BY <3>1, <3>6 DEF TriesInv, Pool!Current, Pool!TriesAreCounted
      <4>2. Pool!Current(e) \in {plan[e].primary, plan[e].fallback} /\ runPc[e] \notin {"idle", "completed"}
        BY <3>6 DEF TriesInv, Pool!Current, Pool!TriesAreCounted
      <4>3. \A t \in Pool!Strategy :
               tries[e][t] = IF t \in {plan[e].primary, plan[e].fallback} THEN attempt[e] + 1 ELSE 0
        BY <1>2, <3>6, <4>1, <4>2 DEF TriesInv, Pool!TriesAreCounted, Pool!Tried, Pool!Strategy
      <4>4. \A t \in Pool!Strategy : Pool!Tried(e, t)' = attempt[e] + 1
        BY <1>2, <3>1, <3>6, <4>1 DEF Pool!Tried, Pool!Strategy
      <4> QED
        BY <2>2, <3>1, <3>2, <3>6, <4>1, <4>3, <4>4
    <3> QED
      BY <3>3, <3>4, <3>5, <3>6
  <2> QED
    BY <2>1, <2>2
<1> QED
  BY <1>3, <1>4 DEF TriesInv

LEMMA NextTries == ASSUME TriesInv, [Pool!Next]_(Pool!vars) PROVE TriesInv'
<1>1. ASSUME NEW e \in Executions, Pool!Begin(e) PROVE TriesInv'
  <2>1. UNCHANGED <<plan, attempt>> /\ runPc[e] = "idle"
    BY <1>1 DEF Pool!Begin
  <2>2. CASE plan[e] # Pool!NoPlan /\ Pool!Try(e, plan[e].primary)
    <3>1. plan[e].primary \in Pool!Strategy
      BY <2>2, PlanShapes DEF TriesInv
    <3> QED
      BY <2>1, <2>2, <3>1, TryCounted DEF TriesInv
  <2>3. CASE plan[e] = Pool!NoPlan /\ Pool!Goto(e, "failed") /\ UNCHANGED tries
    BY <2>1, <2>3, MoveCounted
  <2> QED
    BY <1>1, <2>2, <2>3 DEF Pool!Begin
<1>2. ASSUME NEW e \in Executions, Pool!Succeeds(e) PROVE TriesInv'
  BY <1>2, MoveCounted DEF Pool!Succeeds
<1>3. ASSUME NEW e \in Executions, Pool!Fails(e) PROVE TriesInv'
  <2>1. /\ UNCHANGED <<plan, attempt>>
        /\ Pool!Current(e) # "none" /\ Pool!Again(e, Pool!Current(e))
    BY <1>3 DEF Pool!Fails, Pool!Current
  <2>2. plan[e] # Pool!NoPlan
    BY <2>1 DEF TriesInv, Pool!TriesAreCounted, Pool!Current
  <2>3. CASE Pool!Current(e) = plan[e].primary /\ plan[e].fallback # "none"
    <3>1. Pool!Try(e, plan[e].fallback) /\ plan[e].fallback \in Pool!Strategy
      BY <2>1, <2>2, <2>3, PlanShapes DEF Pool!Again, TriesInv, Pool!Strategy
    <3> QED
      BY <2>1, <2>2, <2>3, <3>1, TryCounted DEF TriesInv
  <2>4. CASE ~(Pool!Current(e) = plan[e].primary /\ plan[e].fallback # "none")
    BY <2>1, <2>4, MoveCounted DEF Pool!Again
  <2> QED
    BY <2>3, <2>4
<1>4. ASSUME NEW e \in Executions, Pool!Backoff(e) PROVE TriesInv'
  <2>1. /\ attempt' = [attempt EXCEPT ![e] = @ + 1] /\ UNCHANGED plan
        /\ runPc[e] = "backoff" /\ Pool!Try(e, plan[e].primary)
    BY <1>4 DEF Pool!Backoff
  <2>2. attempt[e] < MaxRetries /\ plan[e] # Pool!NoPlan
    BY <2>1 DEF TriesInv, Pool!TriesAreCounted
  <2>3. attempt' \in [Executions -> 0..MaxRetries] /\ attempt'[e] = attempt[e] + 1
    BY <2>1, <2>2 DEF TriesInv, Pool!ScraperAssumption
  <2>4. plan[e].primary \in Pool!Strategy
    BY <2>2, PlanShapes DEF TriesInv
  <2>5. \A f \in Executions \ {e} : attempt'[f] = attempt[f]
    BY <2>1 DEF TriesInv
  <2> QED
    BY <2>1, <2>2, <2>3, <2>4, <2>5, TryCounted
<1>5. ASSUME NEW e \in Executions, Pool!GetBrowser(e) PROVE TriesInv'
  BY <1>5, MoveCounted DEF Pool!GetBrowser
<1>6. ASSUME NEW e \in Executions, Pool!Launch(e) PROVE TriesInv'
  BY <1>6, MoveCounted DEF Pool!Launch
<1>7. CASE UNCHANGED <<plan, runPc, attempt, tries>>
  BY <1>7 DEF TriesInv, Pool!TriesAreCounted, Pool!Tried, Pool!Current
<1>8. ASSUME Pool!IdleTimeout \/ Pool!Dispose \/ Pool!Closes \/ UNCHANGED Pool!vars
      PROVE  UNCHANGED <<plan, runPc, attempt, tries>>
  BY <1>8 DEF Pool!IdleTimeout, Pool!Dispose, Pool!Closes, Pool!EndClose, Pool!vars,
              Pool!executionVars
<1> QED
  BY <1>1, <1>2, <1>3, <1>4, <1>5, <1>6, <1>7, <1>8 DEF Pool!Next

\* A browser that is closed once more keeps its other field.
LEMMA ClosedOnceMore ==
  ASSUME NEW b \in [open : BOOLEAN, closes : Nat]
  PROVE  LET closing == [b EXCEPT !.closes = @ + 1]
         IN  /\ closing \in [open : BOOLEAN, closes : Nat]
             /\ closing.open = b.open /\ closing.closes = b.closes + 1
OBVIOUS


LEMMA NextBrowsers == ASSUME BrowsersInv, runPc = [e \in Executions |-> runPc[e]], [Pool!Next]_(Pool!vars)
                      PROVE  BrowsersInv'
<1> USE DEF BrowsersInv, Pool!PoolIsKept, Pool!OpenIsPooled, Pool!NoBrowser, Pool!poolVars, Pool!Goto
<1>1. ASSUME NEW e \in Executions, NEW step, step \notin {"launch", "page"}, Pool!Goto(e, step),
             using' = using \/ using' = [using EXCEPT ![e] = 0],
             UNCHANGED <<fleet, pool, armed, disposed, raced>>
      PROVE  BrowsersInv'
  <2>1. /\ Len(fleet) \in Nat /\ using' \in [Executions -> 0..Len(fleet)]
        /\ \A f \in Executions : /\ runPc'[f] = IF f = e THEN step ELSE runPc[f]
                                 /\ f # e => using'[f] = using[f]
    BY <1>1
  <2>2. Pool!PoolIsKept'
    BY <1>1, <2>1
  <2> QED
    BY <1>1, <2>1, <2>2
<1>2. ASSUME NEW e \in Executions, Pool!GetBrowser(e) PROVE BrowsersInv'
  BY <1>2 DEF Pool!GetBrowser
<1>3. ASSUME NEW e \in Executions, Pool!Launch(e) PROVE BrowsersInv'
  <2> DEFINE new == [open |-> TRUE, closes |-> 0]
             n == Len(fleet) + 1
  <2>1. /\ fleet' = Append(fleet, new) /\ pool' = Len(fleet') /\ armed' = TRUE
        /\ using' = [using EXCEPT ![e] = Len(fleet')] /\ Pool!Goto(e, "page") /\ runPc[e] = "launch"
        /\ UNCHANGED <<raced, disposed>>
    BY <1>3 DEF Pool!Launch
  <2>2. /\ fleet' \in Seq([open : BOOLEAN, closes : Nat])
        /\ Len(fleet') = n /\ DOMAIN fleet' = 1..n /\ fleet'[n] = new
        /\ \A b \in DOMAIN fleet : fleet'[b] = fleet[b] /\ b # 0
        /\ Len(fleet) \in Nat /\ DOMAIN fleet = 1..Len(fleet)
    BY <2>1
  <2>3. using' \in [Executions -> 0..Len(fleet')] /\ pool' \in 0..Len(fleet')
    BY <2>1, <2>2
  <2>4. \A f \in Executions : runPc'[f] = "page" => using'[f] # 0
    BY <2>1, <2>2
  <2>5. ~raced => \A b \in DOMAIN fleet : ~fleet[b].open /\ ~(fleet[b].closes > 0)
    BY <2>1, <2>2
  <2>6. ~raced' => \A b \in DOMAIN fleet' : /\ fleet'[b].open => pool' = b
                                           /\ ~(fleet'[b].closes > 0)
    BY <2>1, <2>2, <2>5
  <2>7. ~raced' => \A f \in Executions : runPc'[f] # "launch"
    BY <2>1
  <2> QED
    BY <2>1, <2>2, <2>3, <2>4, <2>6, <2>7
<1>4. ASSUME Pool!BeginClose, UNCHANGED <<using, runPc, pool>>, armed' \in BOOLEAN, disposed' \in BOOLEAN
      PROVE  BrowsersInv'
  <2>1. CASE UNCHANGED <<fleet, raced>>
    BY <1>4, <2>1
  <2>2. CASE /\ fleet' = [fleet EXCEPT ![pool].closes = @ + 1] /\ pool # 0
             /\ raced' = (raced \/ fleet[pool].closes > 0)
    <3>0. pool \in 1..Len(fleet) /\ DOMAIN fleet = 1..Len(fleet)
      BY <2>2, LenProperties
    <3>1. fleet[pool] \in [open : BOOLEAN, closes : Nat]
      BY <3>0, ElementOfSeq
    <3> DEFINE closing == [fleet[pool] EXCEPT !.closes = @ + 1]
    <3>4. /\ closing \in [open : BOOLEAN, closes : Nat]
          /\ closing.open = fleet[pool].open /\ closing.closes = fleet[pool].closes + 1
      BY <3>1, ClosedOnceMore
    <3>5. fleet' = [fleet EXCEPT ![pool] = closing]
      BY <2>2
    <3> HIDE DEF closing
    <3>2. /\ fleet' \in Seq([open : BOOLEAN, closes : Nat])
          /\ Len(fleet') = Len(fleet) /\ DOMAIN fleet' = DOMAIN fleet
          /\ fleet'[pool].open = fleet[pool].open /\ fleet'[pool].closes = fleet[pool].closes + 1
          /\ \A c \in DOMAIN fleet \ {pool} : fleet'[c] = fleet[c]
      BY <3>0, <3>4, <3>5, ExceptSeq, LenProperties
    <3>9. ~raced' => ~raced /\ ~(fleet[pool].closes > 0)
      BY <2>2
    <3>3. ~raced' => ~raced /\ fleet'[pool].closes = 1
      BY <3>1, <3>2, <3>9
    <3>6. Pool!OpenIsPooled'
      BY <1>4, <3>2, <3>3
    <3>7. ~raced' => \A c \in DOMAIN fleet' : fleet'[c].closes > 0 => pool = c /\ fleet'[c].closes = 1
      BY <3>2, <3>3
    <3>8. Pool!PoolIsKept'
      BY <1>4, <3>3, <3>7
    <3> QED
      BY <1>4, <2>2, <3>2, <3>6, <3>8
  <2> QED
    BY <1>4, <2>1, <2>2 DEF Pool!BeginClose
<1>5. ASSUME NEW b \in DOMAIN fleet, Pool!EndClose(b) PROVE BrowsersInv'
  <2>1. /\ fleet[b].closes > 0 /\ fleet' = [fleet EXCEPT ![b] = [open |-> FALSE, closes |-> @.closes - 1]]
        /\ pool' = 0 /\ armed' = FALSE /\ UNCHANGED <<using, runPc, raced, disposed>>
    BY <1>5 DEF Pool!EndClose, Pool!executionVars
  <2>2. fleet[b] \in [open : BOOLEAN, closes : Nat]
    <3>1. b \in 1..Len(fleet)
      BY LenProperties
    <3> QED
      BY <3>1, ElementOfSeq
  <2>3. [open |-> FALSE, closes |-> fleet[b].closes - 1] \in [open : BOOLEAN, closes : Nat]
    BY <2>1, <2>2
  <2>4. /\ fleet' \in Seq([open : BOOLEAN, closes : Nat])
        /\ Len(fleet') = Len(fleet) /\ DOMAIN fleet' = DOMAIN fleet
        /\ fleet'[b] = [open |-> FALSE, closes |-> fleet[b].closes - 1]
        /\ \A c \in DOMAIN fleet \ {b} : fleet'[c] = fleet[c]
    BY <2>1, <2>3
  <2>5. ~raced => \A c \in DOMAIN fleet' : ~fleet'[c].open /\ ~(fleet'[c].closes > 0)
    BY <2>1, <2>2, <2>4
  <2>6. 0 \in 0..Len(fleet') /\ using \in [Executions -> 0..Len(fleet')]
    BY <2>4
  <2>7. Pool!PoolIsKept' /\ Pool!OpenIsPooled'
    BY <2>1, <2>5
  <2> QED
    BY <2>1, <2>4, <2>6, <2>7
<1>6. CASE UNCHANGED Pool!vars
  <2>1. UNCHANGED <<runPc, using, fleet, pool, armed, raced, disposed>>
    BY <1>6 DEF Pool!vars, Pool!executionVars
  <2> QED
    BY <2>1
<1>7. ASSUME NEW e \in Executions, Pool!Begin(e) PROVE BrowsersInv'
  BY <1>1, <1>7 DEF Pool!Begin, Pool!Try
<1>8. ASSUME NEW e \in Executions, Pool!Succeeds(e) PROVE BrowsersInv'
  BY <1>1, <1>8 DEF Pool!Succeeds
<1>9. ASSUME NEW e \in Executions, Pool!Fails(e) PROVE BrowsersInv'
  BY <1>1, <1>9 DEF Pool!Fails, Pool!Again, Pool!Try
<1>10. ASSUME NEW e \in Executions, Pool!Backoff(e) PROVE BrowsersInv'
  BY <1>1, <1>10 DEF Pool!Backoff, Pool!Try
<1>11. ASSUME Pool!IdleTimeout \/ Pool!Dispose PROVE BrowsersInv'
  BY <1>4, <1>11 DEF Pool!IdleTimeout, Pool!Dispose, Pool!executionVars
<1> QED
  BY <1>2, <1>3, <1>5, <1>6, <1>7, <1>8, <1>9, <1>10, <1>11 DEF Pool!Next, Pool!Closes

LEMMA NextPool == ASSUME Pool!IInv, [Pool!Next]_(Pool!vars) PROVE Pool!IInv'
<1>1. TriesInv /\ BrowsersInv
  BY PoolParts
<1>2. TriesInv'
  BY <1>1, NextTries
<1>3. runPc = [e \in Executions |-> runPc[e]]
  BY <1>1 DEF TriesInv
<1>4. BrowsersInv'
  BY <1>1, <1>3, NextBrowsers
<1> QED
  BY <1>2, <1>4 DEF Pool!IInv, Pool!TypeOK, TriesInv, BrowsersInv

LEMMA PoolExhausts == Pool!IInv => Pool!FailureIsExhaustive
<1> SUFFICES ASSUME Pool!IInv, NEW e \in Executions
             PROVE  /\ \A s \in Pool!Strategy : tries[e][s] <= attempt[e] + 1
                    /\ runPc[e] = "failed" => \A s \in Pool!Strategy :
                         tries[e][s] = IF s \in {plan[e].primary, plan[e].fallback}
                                       THEN MaxRetries + 1 ELSE 0
  BY DEF Pool!FailureIsExhaustive
<1>0. attempt \in [Executions -> 0..MaxRetries] /\ plan \in [Executions -> Pool!Plans] /\ MaxRetries \in Nat
  BY DEF Pool!IInv, Pool!TypeOK, Pool!ScraperAssumption, ComponentAssumption
<1>1. plan[e] \in Pool!Plans /\ attempt[e] \in Nat
  BY <1>0
<1>2. \A s \in Pool!Strategy : tries[e][s] <= attempt[e] + 1
  BY <1>1 DEF Pool!IInv, Pool!TriesAreCounted, Pool!Tried
<1>3. ASSUME runPc[e] = "failed", plan[e] = Pool!NoPlan, NEW s \in Pool!Strategy
      PROVE  s \notin {plan[e].primary, plan[e].fallback} /\ tries[e][s] = 0
  BY <1>3 DEF Pool!IInv, Pool!TriesAreCounted, Pool!NoPlan, Pool!Strategy
<1>4. ASSUME runPc[e] = "failed", plan[e] # Pool!NoPlan, NEW s \in Pool!Strategy
      PROVE  tries[e][s] = IF s \in {plan[e].primary, plan[e].fallback} THEN MaxRetries + 1 ELSE 0
  <2>1. Pool!Current(e) = "none" /\ attempt[e] = MaxRetries
    BY <1>4 DEF Pool!Current, Pool!IInv, Pool!TriesAreCounted
  <2>2. plan[e].primary # "none"
    BY <1>1, <1>4, PlanShapes DEF Pool!Strategy
  <2> QED
    BY <1>4, <2>1, <2>2 DEF Pool!IInv, Pool!TriesAreCounted, Pool!Tried
<1> QED
  BY <1>2, <1>3, <1>4

-----------------------------------------------------------------------------
(* The theorems *)

\* Whichever component is at work, the others are in a state that their invariant allows.
Inv == Registry!IInv /\ Keys!IInv /\ Pool!IInv

LEMMA Inductive == Spec => []Inv
<1>1. Init => Inv
  BY InitRegistry, InitKeys, InitPool DEF Init, Inv
<1>2. Inv /\ [Next]_vars => Inv'
  BY Steps, NextRegistry, NextKeys, NextPool DEF Inv
<1> QED
  BY <1>1, <1>2, PTL DEF Spec

\* Every variable keeps its type.
THEOREM TypesCorrect == Spec => []TypesOK
<1>1. Inv => TypesOK
  BY DEF Inv, TypesOK, Registry!IInv, Keys!IInv, Pool!IInv
<1> QED
  BY <1>1, Inductive, PTL

\* However heartbeats, shutdowns, expiries and requests interleave, a job is not sent to a
\* worker that was gone when its request began, and requests that found the same workers
\* take turns.
THEOREM ChoicesCorrect == Spec => []ChoicesAreRight
<1>1. Inv => ChoicesAreRight
  BY RegistryEven DEF Inv, ChoicesAreRight, Registry!IInv
<1> QED
  BY <1>1, Inductive, PTL

\* A request that has a key in hand alone leaves it as a single request would: uses are
\* counted, the end is kept, the index follows.
THEOREM SerialUseExact == Spec => []SerialUseIsExact
<1>1. Inv => SerialUseIsExact
  BY KeysExact DEF Inv, SerialUseIsExact
<1> QED
  BY <1>1, Inductive, PTL

\* Only two requests that have a key in hand together can bring an ended key back.
THEOREM EndedAreRefused == Spec => EndedIsRefused
<1>1. Inv /\ [Next]_vars => [EndedStep]_(Keys!vars)
  BY Steps, KeysRefused DEF Inv
<1> QED
  BY <1>1, Inductive, PTL DEF EndedIsRefused, Keys!EndedIsRefused, EndedStep, Spec

\* A scrape that fails has used up every attempt with every strategy of its plan, and none
\* is tried more often.
THEOREM FailuresExhaust == Spec => []FailureIsExhaustive
<1>1. Inv => FailureIsExhaustive
  BY PoolExhausts DEF Inv, FailureIsExhaustive
<1> QED
  BY <1>1, Inductive, PTL

\* The pool knows every open browser unless launches or closings overlapped.
THEOREM BrowsersArePooled == Spec => []OpenIsPooled
<1>1. Inv => OpenIsPooled
  BY DEF Inv, OpenIsPooled, Pool!IInv
<1> QED
  BY <1>1, Inductive, PTL
=============================================================================
