---------------------------- MODULE ChaosProofs ----------------------------
(***************************************************************************)
(* Theorems about the chaos runner, for any set of callers, any            *)
(* percentages and any number of calls.                                    *)
(***************************************************************************)
EXTENDS Chaos, FiniteSetTheorems, TLAPS

N == Cardinality(Calls)

\* The callers that have decided to inject an error, or will when the percentage
\* is P; and those that have decided not to, or will.
Injecting(P) == {c \in Calls : \/ place[c] = "compare" /\ current[c] < P
                               \/ place[c] = "count" /\ err[c] = "ErrFailureInjected"}
Passing(P) == {c \in Calls : \/ place[c] = "compare" /\ current[c] >= P
                             \/ place[c] = "running"
                             \/ place[c] = "count" /\ err[c] = "nil"}

Places == {"idle", "sleep", "measure", "compare", "running", "count"}

ChaosTypes ==
  /\ errorPercent \in 0 .. 100 /\ lowest \in 0 .. 100 /\ highest \in 0 .. 100
  /\ total \in Nat /\ errs \in Nat
  /\ place \in [Calls -> Places] /\ current \in [Calls -> Int] /\ err \in [Calls -> Errors]
  /\ returned \in [Errors -> Nat]

\* The counters count what has been returned, and the history of the percentage
\* encloses it.
CountersInv ==
  /\ errs = returned["failure"] + returned["ErrFailureInjected"]
  /\ total = returned["nil"] + errs
  /\ lowest <= errorPercent /\ errorPercent <= highest

\* The strengthenings of the two properties: callers that are still under way count
\* as well, and the bounds hold for every percentage beyond the ones that were set.
InjectedInv ==
  \A P \in highest .. 100 :
    100 * returned["ErrFailureInjected"] + 100 * Cardinality(Injecting(P)) <= P * total + 100 * N
PassedInv ==
  \A P \in 0 .. lowest :
    P * total + P * Cardinality(Passing(P)) <= 100 * errs + P * N

ChaosInv == ChaosTypes /\ CountersInv /\ InjectedInv /\ PassedInv

-----------------------------------------------------------------------------
LEMMA ProductIsMonotone ==
  ASSUME NEW p \in Nat, NEW a \in Int, NEW b \in Int, a <= b
  PROVE  p * a <= p * b
OBVIOUS

\* What the comparison of the measured rate with a percentage says of the counters,
\* whichever way its float is rounded (failureInjector.Run).
LEMMA RateBounds ==
  ASSUME ChaosTypes, CountersInv, NEW percent \in CurrentErrPercs, NEW P \in 0 .. 100
  PROVE  /\ percent \in Int
         /\ percent < P => 100 * errs <= P * total
         /\ percent >= P => P * total <= 100 * errs
<1>0. errs \in Nat /\ total \in Nat /\ errs <= total /\ P \in Nat
  BY DEF ChaosTypes, CountersInv, Errors
<1>1. CASE total = 0
  BY <1>0, <1>1 DEF CurrentErrPercs
<1>2. CASE total # 0
  <2> DEFINE q == (errs * 100) \div total
  <2>1. q \in Int /\ total * q <= 100 * errs /\ 100 * errs < total * (q + 1)
    BY <1>0, <1>2
  <2>2. (errs * 100) % total = 0 => 100 * errs = total * q
    BY <1>0, <1>2
  <2>3. percent = q \/ (percent = q - 1 /\ 100 * errs = total * q)
    BY <1>2, <2>2 DEF CurrentErrPercs
  <2> HIDE DEF q
  <2>4. q + 1 <= P => total * (q + 1) <= total * P
    BY <1>0, <2>1, ProductIsMonotone
  <2>5. q <= P => total * q <= total * P
    BY <1>0, <2>1, ProductIsMonotone
  <2>6. P <= q => total * P <= total * q
    BY <1>0, <2>1, ProductIsMonotone
  <2>7. total * P = P * total /\ total * P \in Int /\ total * q \in Int /\ total * (q + 1) \in Int
    BY <1>0, <2>1
  <2> QED
    BY <1>0, <2>1, <2>3, <2>4, <2>5, <2>6, <2>7
<1> QED
  BY <1>1, <1>2

LEMMA Sizes ==
  ASSUME NEW S \in SUBSET Calls
  PROVE  /\ IsFiniteSet(S) /\ Cardinality(S) \in Nat /\ Cardinality(S) <= N /\ N \in Nat
         /\ \A T \in SUBSET S : Cardinality(T) \in Nat /\ Cardinality(T) <= Cardinality(S)
<1>1. IsFiniteSet(S) /\ Cardinality(S) <= N /\ IsFiniteSet(Calls)
  BY ChaosAssumption, FS_Subset DEF N
<1>2. \A T \in SUBSET S : IsFiniteSet(T) /\ Cardinality(T) <= Cardinality(S)
  BY <1>1, FS_Subset
<1> QED
  BY <1>1, <1>2, FS_CardinalityType DEF N

\* A step that neither counts nor widens what is under way for P keeps its bounds.
LEMMA InjectedKept ==
  ASSUME ChaosTypes, InjectedInv, UNCHANGED <<total, returned>>, NEW P \in highest .. 100,
         Injecting(P)' \subseteq Injecting(P)
  PROVE  100 * returned'["ErrFailureInjected"] + 100 * Cardinality(Injecting(P)')
           <= P * total' + 100 * N
<1>1. Injecting(P) \in SUBSET Calls
  BY DEF Injecting
<1>2. /\ Cardinality(Injecting(P)') \in Nat /\ Cardinality(Injecting(P)) \in Nat /\ N \in Nat
      /\ Cardinality(Injecting(P)') <= Cardinality(Injecting(P))
  BY <1>1, Sizes
<1>3. returned["ErrFailureInjected"] \in Nat /\ P * total \in Int
  BY DEF ChaosTypes, Errors
<1> QED
  BY <1>2, <1>3 DEF InjectedInv

LEMMA PassedKept ==
  ASSUME ChaosTypes, PassedInv, UNCHANGED <<total, errs>>, NEW P \in 0 .. lowest,
         Passing(P)' \subseteq Passing(P)
  PROVE  P * total' + P * Cardinality(Passing(P)') <= 100 * errs' + P * N
<1>1. Passing(P) \in SUBSET Calls
  BY DEF Passing
<1>2. /\ Cardinality(Passing(P)') \in Nat /\ Cardinality(Passing(P)) \in Nat /\ N \in Nat
      /\ Cardinality(Passing(P)') <= Cardinality(Passing(P))
  BY <1>1, Sizes
<1>3. P \in Nat /\ total \in Nat /\ errs \in Nat
  BY DEF ChaosTypes
<1>4. P * Cardinality(Passing(P)') <= P * Cardinality(Passing(P))
  BY <1>2, <1>3, ProductIsMonotone
<1>5. /\ P * Cardinality(Passing(P)') \in Int /\ P * Cardinality(Passing(P)) \in Int
      /\ P * total \in Int /\ P * N \in Int
  BY <1>2, <1>3
<1>6. P * total + P * Cardinality(Passing(P)) <= 100 * errs + P * N
  BY DEF PassedInv
<1> QED
  BY <1>3, <1>4, <1>5, <1>6

-----------------------------------------------------------------------------
LEMMA InitKeepsRates == Init => ChaosInv
<1> SUFFICES ASSUME Init PROVE ChaosInv
  OBVIOUS
<1>1. ChaosTypes /\ CountersInv
  BY DEF Init, ChaosTypes, CountersInv, Places, Errors
<1>2. \A P \in Int : Injecting(P) = {} /\ Passing(P) = {}
  BY DEF Init, Injecting, Passing
<1>3. Cardinality({}) = 0 /\ N \in Nat
  BY ChaosAssumption, FS_EmptySet, FS_CardinalityType DEF N
<1>4. returned["ErrFailureInjected"] = 0 /\ total = 0 /\ errs = 0
  BY DEF Init, Errors
<1>5. InjectedInv
  <2> SUFFICES ASSUME NEW P \in highest .. 100
               PROVE  100 * returned["ErrFailureInjected"] + 100 * Cardinality(Injecting(P))
                        <= P * total + 100 * N
    BY DEF InjectedInv
  <2>1. P \in Int /\ P * 0 = 0
    BY <1>1 DEF ChaosTypes
  <2>2. Cardinality(Injecting(P)) = 0
    BY <1>2, <1>3, <2>1
  <2> QED
    BY <1>3, <1>4, <2>1, <2>2
<1>6. PassedInv
  <2> SUFFICES ASSUME NEW P \in 0 .. lowest
               PROVE  P * total + P * Cardinality(Passing(P)) <= 100 * errs + P * N
    BY DEF PassedInv
  <2>1. P \in Nat /\ P * 0 = 0
    BY <1>1 DEF ChaosTypes
  <2>2. 0 <= P * N /\ P * N \in Int
    BY <1>3, <2>1, ProductIsMonotone
  <2>3. Cardinality(Passing(P)) = 0
    BY <1>2, <1>3, <2>1
  <2> QED
    BY <1>4, <2>1, <2>2, <2>3
<1> QED
  BY <1>1, <1>5, <1>6 DEF ChaosInv

\* Steps that neither measure nor count: nobody decides otherwise than the measured
\* rate and a percentage within the range set so far say.
LEMMA OtherStepsKeepRates ==
  ASSUME ChaosInv, UNCHANGED counters, ChaosTypes', lowest' <= lowest, highest <= highest',
         lowest' <= errorPercent', errorPercent' <= highest',
         \A P \in highest .. 100 : Injecting(P)' \subseteq Injecting(P),
         \A P \in 0 .. lowest : Passing(P)' \subseteq Passing(P)
  PROVE  ChaosInv'
<1>0. N' = N
  BY DEF N
<1>1. CountersInv'
  BY DEF ChaosInv, CountersInv, counters
<1>2. InjectedInv'
  <2> SUFFICES ASSUME NEW P \in highest' .. 100
               PROVE  100 * returned'["ErrFailureInjected"] + 100 * Cardinality(Injecting(P)')
                        <= P * total' + 100 * N
    BY <1>0 DEF InjectedInv, Injecting
  <2>1. P \in highest .. 100
    BY DEF ChaosInv, ChaosTypes
  <2> QED
    BY <2>1, InjectedKept DEF ChaosInv, counters
<1>3. PassedInv'
  <2> SUFFICES ASSUME NEW P \in 0 .. lowest'
               PROVE  P * total' + P * Cardinality(Passing(P)') <= 100 * errs' + P * N
    BY <1>0 DEF PassedInv, Passing
  <2>1. P \in 0 .. lowest
    BY DEF ChaosInv, ChaosTypes
  <2> QED
    BY <2>1, PassedKept DEF ChaosInv, counters
<1> QED
  BY <1>1, <1>2, <1>3 DEF ChaosInv

\* A measured rate: whoever is let through by it is let through by counters that
\* keep to the bound on their own, so that even all callers at once stay within it.
LEMMA MeasureKeepsRates ==
  ASSUME ChaosInv, NEW c \in Calls, Measure(c)
  PROVE  ChaosInv'
<1> USE DEF ChaosInv
<1>0. /\ UNCHANGED <<total, errs, returned, errorPercent, lowest, highest, err>> /\ N' = N
      /\ place[c] = "measure" /\ place' = [place EXCEPT ![c] = "compare"]
  BY DEF Measure, GoesTo, counters, injectorVars, N
<1>1. PICK percent \in CurrentErrPercs : current' = [current EXCEPT ![c] = percent]
  BY DEF Measure
<1>2. \A P \in 0 .. 100 : /\ percent \in Int
                          /\ percent < P => 100 * errs <= P * total
                          /\ percent >= P => P * total <= 100 * errs
  BY RateBounds
<1>3. percent \in Int /\ ChaosTypes' /\ CountersInv'
  BY <1>0, <1>1, <1>2 DEF ChaosTypes, CountersInv, Places
<1>4. InjectedInv'
  <2> SUFFICES ASSUME NEW P \in highest .. 100
               PROVE  100 * returned'["ErrFailureInjected"] + 100 * Cardinality(Injecting(P)')
                        <= P * total' + 100 * N
    BY <1>0 DEF InjectedInv, Injecting
  <2>1. P \in 0 .. 100
    BY DEF ChaosTypes
  <2>2. CASE percent < P
    <3>1. 100 * errs <= P * total
      BY <1>2, <2>1, <2>2
    <3>2. Injecting(P)' \in SUBSET Calls
      BY DEF Injecting
    <3>3. Cardinality(Injecting(P)') \in Nat /\ Cardinality(Injecting(P)') <= N /\ N \in Nat
      BY <3>2, Sizes
    <3>4. returned["ErrFailureInjected"] <= errs /\ returned["ErrFailureInjected"] \in Nat
      BY DEF ChaosTypes, CountersInv, Errors
    <3>5. P * total \in Int /\ errs \in Nat
      BY <2>1 DEF ChaosTypes
    <3> QED
      BY <1>0, <3>1, <3>3, <3>4, <3>5
  <2>3. CASE ~ (percent < P)
    <3>1. Injecting(P)' \subseteq Injecting(P)
      BY <1>0, <1>1, <1>3, <2>3 DEF Injecting, ChaosTypes
    <3> QED
      BY <1>0, <3>1, InjectedKept
  <2> QED
    BY <2>2, <2>3
<1>5. PassedInv'
  <2> SUFFICES ASSUME NEW P \in 0 .. lowest
               PROVE  P * total' + P * Cardinality(Passing(P)') <= 100 * errs' + P * N
    BY <1>0 DEF PassedInv, Passing
  <2>1. P \in 0 .. 100
    BY DEF ChaosTypes
  <2>2. CASE percent >= P
    <3>1. P * total <= 100 * errs
      BY <1>2, <2>1, <2>2
    <3>2. Passing(P)' \in SUBSET Calls
      BY DEF Passing
    <3>3. Cardinality(Passing(P)') \in Nat /\ Cardinality(Passing(P)') <= N /\ N \in Nat
      BY <3>2, Sizes
    <3>4. P * Cardinality(Passing(P)') <= P * N
      BY <2>1, <3>3, ProductIsMonotone
    <3>5. /\ P * total \in Int /\ errs \in Nat /\ P * N \in Int
          /\ P * Cardinality(Passing(P)') \in Int
      BY <2>1, <3>3 DEF ChaosTypes
    <3> QED
      BY <1>0, <3>1, <3>4, <3>5
  <2>3. CASE ~ (percent >= P)
    <3>1. Passing(P)' \subseteq Passing(P)
      BY <1>0, <1>1, <1>3, <2>3 DEF Passing, ChaosTypes
    <3> QED
      BY <1>0, <3>1, PassedKept
  <2> QED
    BY <2>2, <2>3
<1> QED
  BY <1>3, <1>4, <1>5

\* A call that is counted leaves those under way, and the counters take it over.
LEMMA CountKeepsRates ==
  ASSUME ChaosInv, NEW c \in Calls, Count(c)
  PROVE  ChaosInv'
<1> USE DEF ChaosInv
<1> DEFINE more == IF err[c] = "nil" THEN 0 ELSE 1
           injected == IF err[c] = "ErrFailureInjected" THEN 1 ELSE 0
<1>0. /\ UNCHANGED <<errorPercent, lowest, highest, current>> /\ N' = N
      /\ place[c] = "count" /\ place' = [place EXCEPT ![c] = "idle"]
      /\ err' = [err EXCEPT ![c] = "nil"] /\ err[c] \in Errors
      /\ returned' = [returned EXCEPT ![err[c]] = @ + 1]
      /\ total' = total + 1 /\ errs' = errs + more
  BY DEF Count, Return, GoesTo, injectorVars, N, ChaosTypes
<1>1. ChaosTypes' /\ CountersInv'
  <2>1. ChaosTypes'
    BY <1>0 DEF ChaosTypes, Places, Errors
  <2>2. CountersInv'
    BY <1>0 DEF ChaosTypes, CountersInv, Errors
  <2> QED
    BY <2>1, <2>2
<1>2. returned'["ErrFailureInjected"] = returned["ErrFailureInjected"] + injected
  BY <1>0 DEF ChaosTypes, Errors
<1>3. InjectedInv'
  <2> SUFFICES ASSUME NEW P \in highest .. 100
               PROVE  100 * returned'["ErrFailureInjected"] + 100 * Cardinality(Injecting(P)')
                        <= P * total' + 100 * N
    BY <1>0 DEF InjectedInv, Injecting
  <2>1. Injecting(P)' = Injecting(P) \ {c} /\ (injected = 1 <=> c \in Injecting(P))
    BY <1>0 DEF Injecting, ChaosTypes
  <2>2. IsFiniteSet(Injecting(P)) /\ Cardinality(Injecting(P)) \in Nat /\ N \in Nat
    <3>1. Injecting(P) \in SUBSET Calls
      BY DEF Injecting
    <3> QED
      BY <3>1, Sizes
  <2>3. Cardinality(Injecting(P)') = Cardinality(Injecting(P)) - injected
    <3>1. /\ c \in Injecting(P) => Cardinality(Injecting(P) \ {c}) = Cardinality(Injecting(P)) - 1
          /\ c \notin Injecting(P) => Cardinality(Injecting(P) \ {c}) = Cardinality(Injecting(P))
      BY <2>2, FS_RemoveElement
    <3>2. injected = IF c \in Injecting(P) THEN 1 ELSE 0
      BY <2>1
    <3> HIDE DEF injected
    <3> QED
      BY <2>1, <2>2, <3>1, <3>2
  <2>4. P \in Nat /\ total \in Nat /\ returned["ErrFailureInjected"] \in Nat
    BY DEF ChaosTypes, Errors
  <2>5. P * (total + 1) = P * total + P /\ P * total \in Int
    BY <2>4
  <2>6. 100 * returned["ErrFailureInjected"] + 100 * Cardinality(Injecting(P)) <= P * total + 100 * N
    BY DEF InjectedInv
  <2> QED
    BY <1>0, <1>2, <2>2, <2>3, <2>4, <2>5, <2>6
<1>4. PassedInv'
  <2> SUFFICES ASSUME NEW P \in 0 .. lowest
               PROVE  P * total' + P * Cardinality(Passing(P)') <= 100 * errs' + P * N
    BY <1>0 DEF PassedInv, Passing
  <2>1. Passing(P)' = Passing(P) \ {c} /\ (err[c] = "nil" <=> c \in Passing(P))
    BY <1>0 DEF Passing, ChaosTypes
  <2>2. IsFiniteSet(Passing(P)) /\ Cardinality(Passing(P)) \in Nat /\ N \in Nat
    <3>1. Passing(P) \in SUBSET Calls
      BY DEF Passing
    <3> QED
      BY <3>1, Sizes
  <2>3. Cardinality(Passing(P)') = Cardinality(Passing(P)) - (1 - more)
    <3>1. /\ c \in Passing(P) => Cardinality(Passing(P) \ {c}) = Cardinality(Passing(P)) - 1
          /\ c \notin Passing(P) => Cardinality(Passing(P) \ {c}) = Cardinality(Passing(P))
      BY <2>2, FS_RemoveElement
    <3>2. (1 - more) = IF c \in Passing(P) THEN 1 ELSE 0
      BY <2>1
    <3> HIDE DEF more
    <3> QED
      BY <2>1, <2>2, <3>1, <3>2
  <2>4. P \in 0 .. 100 /\ total \in Nat /\ errs \in Nat
    BY DEF ChaosTypes
  <2>5. P * (total + 1) = P * total + P /\ P * total \in Int /\ P * N \in Int
    BY <2>2, <2>4
  <2>6. P * (Cardinality(Passing(P)) - 1) = P * Cardinality(Passing(P)) - P
        /\ P * Cardinality(Passing(P)) \in Int
    BY <2>2, <2>4
  <2>7. P * total + P * Cardinality(Passing(P)) <= 100 * errs + P * N
    BY DEF PassedInv
  <2>8. CASE err[c] = "nil"
    BY <1>0, <2>2, <2>3, <2>4, <2>5, <2>6, <2>7, <2>8
  <2>9. CASE err[c] # "nil"
    BY <1>0, <2>2, <2>3, <2>4, <2>5, <2>6, <2>7, <2>9
  <2> QED
    BY <2>8, <2>9
<1> QED
  BY <1>1, <1>3, <1>4

LEMMA StepsKeepRates == ChaosInv /\ [Next]_vars => ChaosInv'
<1> SUFFICES ASSUME ChaosInv, [Next]_vars PROVE ChaosInv'
  OBVIOUS
<1> USE DEF ChaosInv
<1>1. ASSUME NEW c \in Calls, Run(c) \/ Wake(c) PROVE ChaosInv'
  <2>1. /\ UNCHANGED <<injectorVars, counters, current, err>>
        /\ place[c] \in {"idle", "sleep"}
        /\ GoesTo(c, "sleep") \/ GoesTo(c, "measure")
    BY <1>1 DEF Run, Wake
  <2>2. ChaosTypes'
    BY <2>1 DEF GoesTo, injectorVars, counters, ChaosTypes, Places
  <2>3. \A P \in Int : Injecting(P)' \subseteq Injecting(P) /\ Passing(P)' \subseteq Passing(P)
    BY <2>1 DEF GoesTo, Injecting, Passing, ChaosTypes
  <2> QED
    BY <2>1, <2>2, <2>3, OtherStepsKeepRates DEF injectorVars, ChaosTypes, CountersInv
<1>2. ASSUME NEW c \in Calls, Compare(c) PROVE ChaosInv'
  <2>1. UNCHANGED <<injectorVars, counters>> /\ place[c] = "compare"
    BY <1>2 DEF Compare
  <2>2. ChaosTypes'
    BY <1>2, <2>1 DEF Compare, GoesTo, injectorVars, counters, ChaosTypes, Places, Errors
  <2>3. ASSUME NEW P \in highest .. 100 PROVE Injecting(P)' \subseteq Injecting(P)
    BY <1>2 DEF Compare, GoesTo, Injecting, ChaosTypes, CountersInv
  <2>4. ASSUME NEW P \in 0 .. lowest PROVE Passing(P)' \subseteq Passing(P)
    BY <1>2 DEF Compare, GoesTo, Passing, ChaosTypes, CountersInv
  <2> QED
    BY <2>1, <2>2, <2>3, <2>4, OtherStepsKeepRates DEF injectorVars, ChaosTypes, CountersInv
<1>3. ASSUME NEW c \in Calls, NEW e \in {"nil", "failure"}, FuncReturns(c, e) PROVE ChaosInv'
  <2>1. UNCHANGED <<injectorVars, counters, current>> /\ place[c] = "running"
    BY <1>3 DEF FuncReturns
  <2>2. ChaosTypes'
    BY <1>3, <2>1 DEF FuncReturns, GoesTo, injectorVars, counters, ChaosTypes, Places, Errors
  <2>3. \A P \in Int : Injecting(P)' \subseteq Injecting(P) /\ Passing(P)' \subseteq Passing(P)
    BY <1>3 DEF FuncReturns, GoesTo, Injecting, Passing, ChaosTypes
  <2> QED
    BY <2>1, <2>2, <2>3, OtherStepsKeepRates DEF injectorVars, ChaosTypes, CountersInv
<1>4. ASSUME NEW percent \in Percents, SetErrorPercent(percent) PROVE ChaosInv'
  <2>1. /\ percent \in 0 .. 100 /\ UNCHANGED <<counters, place, current, err>>
        /\ errorPercent' = percent
        /\ lowest' = (IF percent < lowest THEN percent ELSE lowest)
        /\ highest' = (IF percent > highest THEN percent ELSE highest)
    BY <1>4, ChaosAssumption DEF SetErrorPercent
  <2>2. ChaosTypes'
    BY <2>1 DEF counters, ChaosTypes
  <2>3. \A P \in Int : Injecting(P)' = Injecting(P) /\ Passing(P)' = Passing(P)
    BY <2>1 DEF Injecting, Passing
  <2>4. /\ lowest' <= lowest /\ highest <= highest'
        /\ lowest' <= errorPercent' /\ errorPercent' <= highest'
    BY <2>1 DEF ChaosTypes
  <2> QED
    BY <2>1, <2>2, <2>3, <2>4, OtherStepsKeepRates
<1>5. CASE (\E positive \in BOOLEAN : SetLatency(positive)) \/ UNCHANGED vars
  <2>1. UNCHANGED <<errorPercent, lowest, highest, counters, place, current, err>>
    BY <1>5 DEF SetLatency, vars, injectorVars
  <2>2. ChaosTypes'
    BY <2>1 DEF counters, ChaosTypes
  <2>3. \A P \in Int : Injecting(P)' = Injecting(P) /\ Passing(P)' = Passing(P)
    BY <2>1 DEF Injecting, Passing
  <2> QED
    BY <2>1, <2>2, <2>3, OtherStepsKeepRates DEF ChaosTypes, CountersInv
<1> QED
  BY <1>1, <1>2, <1>3, <1>4, <1>5, MeasureKeepsRates, CountKeepsRates DEF Next, Caller

\* For any callers, percentages and number of calls: no more errors are injected
\* than the largest percentage set allows, but for one call of each caller.
THEOREM InjectionsAreBounded == Spec => []NeverTooManyInjected
<1>1. ChaosInv => NeverTooManyInjected
  <2> SUFFICES ASSUME ChaosInv PROVE NeverTooManyInjected
    OBVIOUS
  <2>1. highest \in highest .. 100 /\ Injecting(highest) \in SUBSET Calls
    BY DEF ChaosInv, ChaosTypes, Injecting
  <2>2. Cardinality(Injecting(highest)) \in Nat /\ N \in Nat
    BY <2>1, Sizes
  <2>3. 100 * returned["ErrFailureInjected"] + 100 * Cardinality(Injecting(highest))
          <= highest * total + 100 * N
    BY <2>1 DEF ChaosInv, InjectedInv
  <2>4. /\ total = returned["nil"] + returned["failure"] + returned["ErrFailureInjected"]
        /\ total \in Nat /\ highest \in Nat /\ returned["ErrFailureInjected"] \in Nat
    BY DEF ChaosInv, ChaosTypes, CountersInv, Errors
  <2>5. highest * total \in Int
    BY <2>4
  <2>6. 100 * returned["ErrFailureInjected"] <= highest * total + 100 * N
    BY <2>2, <2>3, <2>4, <2>5
  <2> QED
    BY <2>4, <2>6 DEF NeverTooManyInjected, N
<1> QED
  BY <1>1, InitKeepsRates, StepsKeepRates, PTL DEF Spec

\* For any callers, percentages and number of calls: no fewer calls fail than the
\* smallest percentage set asks for, but for one call of each caller.
THEOREM FailuresAreEnough == Spec => []NeverTooFewFail
<1>1. ChaosInv => NeverTooFewFail
  <2> SUFFICES ASSUME ChaosInv PROVE NeverTooFewFail
    OBVIOUS
  <2>1. lowest \in 0 .. lowest /\ Passing(lowest) \in SUBSET Calls
    BY DEF ChaosInv, ChaosTypes, Passing
  <2>2. Cardinality(Passing(lowest)) \in Nat /\ N \in Nat
    BY <2>1, Sizes
  <2>3. lowest * total + lowest * Cardinality(Passing(lowest)) <= 100 * errs + lowest * N
    BY <2>1 DEF ChaosInv, PassedInv
  <2>4. /\ errs = returned["failure"] + returned["ErrFailureInjected"]
        /\ total = returned["nil"] + errs
        /\ total \in Nat /\ lowest \in Nat /\ errs \in Nat
    BY DEF ChaosInv, ChaosTypes, CountersInv
  <2>5. lowest * Cardinality(Passing(lowest)) >= 0 /\ lowest * total \in Int /\ lowest * N \in Int
        /\ lowest * Cardinality(Passing(lowest)) \in Int
    BY <2>2, <2>4, ProductIsMonotone
  <2>6. 100 * errs + lowest * N >= lowest * total
    BY <2>3, <2>4, <2>5
  <2> QED
    BY <2>4, <2>6 DEF NeverTooFewFail, N
<1> QED
  BY <1>1, InitKeepsRates, StepsKeepRates, PTL DEF Spec

-----------------------------------------------------------------------------
\* A percentage is measured, or what the platform makes of 0/0: never more than 100,
\* as no more errors are counted than calls.
LEMMA RatesAreRates ==
  ASSUME ChaosTypes, CountersInv, NEW percent \in CurrentErrPercs
  PROVE  percent \in -1 .. 100
<1>0. errs \in Nat /\ total \in Nat /\ errs <= total
  BY DEF ChaosTypes, CountersInv, Errors
<1>1. CASE total = 0
  BY <1>1 DEF CurrentErrPercs
<1>2. CASE total # 0
  <2> DEFINE q == (errs * 100) \div total
  <2>1. q \in Int /\ q >= 0 /\ total * q <= 100 * errs
    BY <1>0, <1>2
  <2>2. percent = q \/ percent = q - 1
    BY <1>2 DEF CurrentErrPercs
  <2> HIDE DEF q
  <2>3. q <= 100
    <3>1. ASSUME q >= 101 PROVE FALSE
      <4>1. total * 101 <= total * q
        BY <1>0, <2>1, <3>1, ProductIsMonotone
      <4>2. total * q \in Int
        BY <1>0, <2>1
      <4> QED
        BY <1>0, <1>2, <2>1, <4>1, <4>2
    <3> QED
      BY <2>1, <3>1
  <2> QED
    BY <2>1, <2>2, <2>3
<1> QED
  BY <1>1, <1>2

\* Type correctness of the chaos runner, for any callers, percentages and number of
\* calls: the counters stay together, so that the measured rate is one
\* (failureInjector.Run).
THEOREM ChaosTypeCorrect == Spec => []TypeOK
<1> DEFINE RateTypes == latency \in BOOLEAN /\ current \in [Calls -> -1 .. 100]
<1>1. Init => RateTypes
  BY DEF Init
<1>2. ChaosInv /\ RateTypes /\ [Next]_vars => RateTypes'
  <2> SUFFICES ASSUME ChaosInv, RateTypes, [Next]_vars PROVE RateTypes'
    OBVIOUS
  <2> USE DEF injectorVars, counters
  <2>1. ASSUME NEW c \in Calls, Measure(c) PROVE RateTypes'
    <3>1. PICK percent \in CurrentErrPercs : current' = [current EXCEPT ![c] = percent]
      BY <2>1 DEF Measure
    <3>2. percent \in -1 .. 100
      BY RatesAreRates DEF ChaosInv
    <3> QED
      BY <2>1, <3>1, <3>2 DEF Measure
  <2>2. ASSUME NEW c \in Calls, Compare(c) PROVE RateTypes'
    BY <2>2 DEF Compare
  <2>3. ASSUME NEW c \in Calls, Run(c) \/ Wake(c) \/ Count(c) PROVE RateTypes'
    BY <2>3 DEF Run, Wake, Count, Return
  <2>4. ASSUME NEW c \in Calls, NEW e, FuncReturns(c, e) PROVE RateTypes'
    BY <2>4 DEF FuncReturns
  <2>5. CASE \/ \E positive \in BOOLEAN : SetLatency(positive)
             \/ \E percent \in Percents : SetErrorPercent(percent)
             \/ UNCHANGED vars
    BY <2>5 DEF SetLatency, SetErrorPercent, vars
  <2> QED
    BY <2>1, <2>2, <2>3, <2>4, <2>5 DEF Next, Caller
<1>3. ChaosInv /\ RateTypes => TypeOK
  BY DEF ChaosInv, ChaosTypes, Places, TypeOK
<1> QED
  BY <1>1, <1>2, <1>3, InitKeepsRates, StepsKeepRates, PTL DEF Spec
=============================================================================
