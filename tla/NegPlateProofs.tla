---------------------------- MODULE NegPlateProofs ----------------------------
(***************************************************************************)
(* Proofs about NegPlate, for all limits in order, every length of the     *)
(* hold and of the window, and all measurements.                           *)
(*                                                                         *)
(* Most of it does not depend on what the filter lets through.  TypeOK and *)
(* OutliersIgnored do: Median chooses an element that has at most Half     *)
(* smaller and at most Half larger ones in the window, and MiddleExists    *)
(* shows that there is one, from minimal sets of positions.                *)
(***************************************************************************)
EXTENDS NegPlate, FiniteSetTheorems, WellFoundedInduction, TLAPS

StateTypes ==
    /\ neg_state \in States /\ pre_neg_state \in States
    /\ error_reduce \in 0 .. ErrorReduce
    /\ calm \in 0 .. (ErrorReduce + 1)
    /\ pc \in {"judge", "report"}

\* The published state is the remembered one, in the middle of a judgement too,
\* and no other was reported since it changed.
Published == info_neg_state = pre_neg_state /\ reported \in {"none", pre_neg_state}

\* Only a judgement under way separates the remembered state from the current one.
Remembered == pc = "judge" => pre_neg_state = neg_state

\* What is left of the hold and the judgements since it was to begin make up for it.
HoldRunsDown == neg_state = "ERROR" => calm + error_reduce >= ErrorReduce

IInv == StateTypes /\ Published /\ Remembered /\ HoldMeansError /\ HoldRunsDown

LEMMA InitIInv == Init => IInv
BY LimitsAssumption DEF Init, IInv, StateTypes, States, Published, Remembered, HoldMeansError,
   HoldRunsDown

\* Nothing but the three regular states is a verdict.
LEMMA VerdictStates ==
    ASSUME NEW cap, NEW pre
    PROVE  Verdict(cap, pre) \subseteq {"DISCONNECT", "OK", "HALF"}
BY DEF Verdict

\* From DISCONNECT only a capacitance of at least Limit1High makes it HALF, and
\* from HALF only one below Limit1Low makes it DISCONNECT.
LEMMA VerdictHysteresis ==
    ASSUME NEW cap
    PROVE  /\ "HALF" \in Verdict(cap, "DISCONNECT") => Limit1High <= cap
           /\ "DISCONNECT" \in Verdict(cap, "HALF") => cap < Limit1Low
BY DEF Verdict

\* A judgement raises the error and starts the hold, or keeps the state, using up
\* the hold or not, or, the hold being over, follows the verdict.
Raised == neg_state' = "ERROR" /\ error_reduce' = ErrorReduce /\ calm' = 0

CalmCounted(c) ==
    calm' = IF BeginsAnew(c) THEN 1 ELSE IF calm < ErrorReduce + 1 THEN calm + 1 ELSE calm

Kept(hold) == neg_state' = neg_state /\ (error_reduce' = hold \/ (hold > 0 /\ error_reduce' = hold - 1))

Followed(hold) ==
    ~(hold > 0) /\ error_reduce' = hold /\ neg_state' \in Verdict(info_cap', pre_neg_state)

LEMMA JudgeOutcome ==
    ASSUME NEW c, Judge(c)
    PROVE  \/ Raised
           \/ CalmCounted(c) /\ (Kept(Refreshed(c)) \/ Followed(Refreshed(c)))
<1> DEFINE cap == ToU32(Filtered(c))
<1>1. info_cap' = cap
  BY Zenon DEF Judge
<1>2. CASE Above(cap)
  BY <1>2, Zenon DEF Judge, Raised, HoldOnError
<1>3. CASE ~Above(cap)
  <2>1. CalmCounted(c)
    BY <1>3, Zenon DEF Judge, CalmCounted
  <2>2. CASE Verdict(cap, pre_neg_state) = {}
    <3>1. neg_state' = neg_state /\ error_reduce' = Refreshed(c)
      BY <1>3, <2>2 DEF Judge
    <3>2. Kept(Refreshed(c))
      BY <3>1 DEF Kept
    <3> QED
      BY <2>1, <3>2, Zenon
  <2>3. CASE Verdict(cap, pre_neg_state) # {} /\ Refreshed(c) > 0
    BY <1>3, <2>1, <2>3, Zenon DEF Judge, Kept
  <2>4. CASE Verdict(cap, pre_neg_state) # {} /\ ~(Refreshed(c) > 0)
    <3>1. neg_state' \in Verdict(cap, pre_neg_state) /\ error_reduce' = Refreshed(c)
      BY <1>3, <2>4, Zenon DEF Judge
    <3> QED
      BY <2>1, <2>4, <3>1, <1>1, Zenon DEF Followed
  <2> QED
    BY <2>2, <2>3, <2>4, Zenon
<1> QED
  BY <1>2, <1>3, Zenon

\* A refresh of the hold needs the error, so it neither starts one nor ends it.
LEMMA RefreshedHold ==
    ASSUME IInv, NEW c
    PROVE  /\ Refreshed(c) \in 0 .. ErrorReduce
           /\ Refreshed(c) >= error_reduce
           /\ neg_state # "ERROR" => Refreshed(c) = 0
           /\ BeginsAnew(c) => Refreshed(c) = ErrorReduce
BY LimitsAssumption DEF IInv, StateTypes, Refreshed, BeginsAnew, HoldOnError, HoldMeansError

LEMMA JudgeIInv ==
    ASSUME IInv, NEW c, Judge(c)
    PROVE  IInv'
<1>1. /\ pc' = "report"
      /\ UNCHANGED <<pre_neg_state, info_neg_state, reported>>
  BY DEF Judge
<1>2. Published' /\ Remembered'
  BY <1>1 DEF IInv, Published, Remembered
<1>3. /\ neg_state' \in States
      /\ error_reduce' \in 0 .. ErrorReduce
      /\ calm' \in 0 .. (ErrorReduce + 1)
      /\ HoldMeansError' /\ HoldRunsDown'
  <2> DEFINE hold == Refreshed(c)
  <2>1. /\ hold \in 0 .. ErrorReduce /\ hold >= error_reduce
        /\ neg_state # "ERROR" => hold = 0
        /\ BeginsAnew(c) => hold = ErrorReduce
    BY RefreshedHold
  <2>2. ErrorReduce \in Nat \ {0} /\ calm \in 0 .. (ErrorReduce + 1) /\ neg_state \in States
        /\ error_reduce \in 0 .. ErrorReduce
    BY LimitsAssumption DEF IInv, StateTypes
  <2>3. HoldRunsDown
    BY DEF IInv
  <2> HIDE DEF hold
  <2>4. CASE Raised
    BY <2>2, <2>4 DEF Raised, States, HoldMeansError, HoldRunsDown
  <2>5. CASE CalmCounted(c) /\ Kept(hold)
    BY <2>1, <2>2, <2>3, <2>5 DEF CalmCounted, Kept, HoldMeansError, HoldRunsDown
  <2>6. CASE CalmCounted(c) /\ Followed(hold)
    <3>1. neg_state' \in {"DISCONNECT", "OK", "HALF"}
      BY <2>6, VerdictStates DEF Followed
    <3>2. error_reduce' = 0
      BY <2>1, <2>2, <2>6 DEF Followed
    <3> QED
      BY <2>2, <2>6, <3>1, <3>2 DEF CalmCounted, States, HoldMeansError, HoldRunsDown
  <2> QED
    BY <2>4, <2>5, <2>6, JudgeOutcome, Zenon DEF hold
<1> QED
  BY <1>1, <1>2, <1>3 DEF IInv, StateTypes

LEMMA ReportIInv == IInv /\ Report => IInv'
BY DEF IInv, StateTypes, Published, Remembered, HoldMeansError, HoldRunsDown, Report, PreRemembered,
   SentState

LEMMA InformTimerIInv == IInv /\ InformTimer => IInv'
BY DEF IInv, StateTypes, Published, Remembered, HoldMeansError, HoldRunsDown, InformTimer, statics

LEMMA NextIInv == IInv /\ [Next]_vars => IInv'
<1> SUFFICES ASSUME IInv, [Next]_vars PROVE IInv'
  OBVIOUS
<1>1. CASE UNCHANGED vars
  BY <1>1 DEF vars, statics, IInv, StateTypes, Published, Remembered, HoldMeansError, HoldRunsDown
<1> QED
  BY <1>1, JudgeIInv, ReportIInv, InformTimerIInv DEF Next

------------------------------------------------------------------------------
(* What a step may not do *)

LEMMA StepHoldsError ==
    ASSUME IInv, [Next]_vars, neg_state = "ERROR", neg_state' # "ERROR"
    PROVE  calm >= ErrorReduce
<1>1. PICK c \in Inputs : Judge(c)
  BY DEF Next, Report, InformTimer, statics, vars
<1>2. Followed(Refreshed(c))
  BY <1>1, JudgeOutcome, Zenon DEF Raised, Kept
<1>3. error_reduce = 0
  BY <1>2, RefreshedHold, LimitsAssumption DEF Followed, IInv, StateTypes
<1> QED
  BY <1>3, LimitsAssumption DEF IInv, StateTypes, HoldRunsDown

\* The verdict is about the state before the step, which is the remembered one.
LEMMA StepFollows ==
    ASSUME IInv, [Next]_vars, neg_state' # neg_state, neg_state' # "ERROR"
    PROVE  neg_state' \in Verdict(info_cap', neg_state)
<1>1. PICK c \in Inputs : Judge(c)
  BY DEF Next, Report, InformTimer, statics, vars
<1>2. Followed(Refreshed(c))
  BY <1>1, JudgeOutcome, Zenon DEF Raised, Kept
<1>3. pre_neg_state = neg_state
  BY <1>1 DEF Judge, IInv, Remembered
<1> QED
  BY <1>2, <1>3, Zenon DEF Followed

------------------------------------------------------------------------------

\* The inductive invariant of the judgement (lcr_task.c:51-157).
THEOREM Invariance == Spec => []IInv
  BY InitIInv, NextIInv, PTL DEF Spec

\* The hold is on only in the error state.
THEOREM HoldSafe == Spec => []HoldMeansError
<1>1. IInv => HoldMeansError
  BY DEF IInv
<1> QED
  BY Invariance, <1>1, PTL

\* Between two judgements the published state is the current one, for all limits
\* and whatever is measured.
THEOREM ChangesReported == Spec => []ChangeReported
<1>1. IInv => ChangeReported
  BY DEF IInv, Published, Remembered, ChangeReported
<1> QED
  BY Invariance, <1>1, PTL

\* Between two judgements the report sent last carries the current state, even if
\* the timer came in the middle of one.
THEOREM ReportsCurrent == Spec => []LastReportCurrent
<1>1. IInv => LastReportCurrent
  BY DEF IInv, Published, Remembered, LastReportCurrent
<1> QED
  BY Invariance, <1>1, PTL

\* For every length of the hold an error is left only after that many judgements
\* since the filtered capacitance was last above the limit, or the raw one 1000
\* times above it (lcr_task.c:56-59, 125-130).
THEOREM ErrorStays == Spec => ErrorHeld
<1>1. IInv /\ [Next]_vars => [neg_state = "ERROR" /\ neg_state' # "ERROR" => calm >= ErrorReduce]_vars
  BY StepHoldsError
<1> QED
  BY Invariance, <1>1, PTL DEF Spec, ErrorHeld

\* DISCONNECT and HALF are a hysteresis, for all limits.
THEOREM Hysteresis == Spec => NoFlapping
<1> DEFINE A == /\ neg_state = "DISCONNECT" /\ neg_state' = "HALF" => info_cap' >= Limit1High
                /\ neg_state = "HALF" /\ neg_state' = "DISCONNECT" => info_cap' < Limit1Low
<1>1. IInv /\ [Next]_vars => [A]_vars
  <2> SUFFICES ASSUME IInv, [Next]_vars PROVE A
    OBVIOUS
  <2>1. ASSUME neg_state = "DISCONNECT", neg_state' = "HALF" PROVE info_cap' >= Limit1High
    BY <2>1, StepFollows, VerdictHysteresis
  <2>2. ASSUME neg_state = "HALF", neg_state' = "DISCONNECT" PROVE info_cap' < Limit1Low
    BY <2>2, StepFollows, VerdictHysteresis
  <2> QED
    BY <2>1, <2>2
<1> QED
  BY Invariance, <1>1, PTL DEF Spec, NoFlapping

------------------------------------------------------------------------------
(* The median *)

\* A set of subsets of a finite set has a member that is minimal in it.
LEMMA MinimalSubset ==
    ASSUME NEW S, IsFiniteSet(S), NEW T, T \subseteq SUBSET S, T # {}
    PROVE  \E x \in T : \A y \in T : ~(y \subseteq x /\ y # x)
<1>1. IsWellFoundedOn(StrictSubsetOrdering(S), FiniteSubsetsOf(S))
  BY FS_StrictSubsetOrderingWellFounded
<1>2. T \subseteq FiniteSubsetsOf(S)
  BY FS_Subset DEF FiniteSubsetsOf
<1>3. \E x \in T : \A y \in T : ~ (<<y, x>> \in StrictSubsetOrdering(S))
  BY <1>1, <1>2, WFMin
<1> QED
  BY <1>3 DEF StrictSubsetOrdering

Smaller(w, v) == {i \in DOMAIN w : w[i] < v}
Larger(w, v) == {i \in DOMAIN w : w[i] > v}

\* Among the positions I of a window one has a value that none in I exceeds.
LEMMA LargestIn ==
    ASSUME NEW D, IsFiniteSet(D), NEW w \in [D -> Int], NEW I \in SUBSET D, I # {}
    PROVE  \E j \in I : \A k \in I : w[k] <= w[j]
<1> DEFINE T == {Larger(w, w[i]) : i \in I}
<1>1. T # {} /\ T \subseteq SUBSET D
  BY DEF Larger
<1> HIDE DEF T
<1>2. PICK j \in I : \A k \in I : ~(Larger(w, w[k]) \subseteq Larger(w, w[j]) /\ Larger(w, w[k]) # Larger(w, w[j]))
  <2>1. PICK x \in T : \A y \in T : ~(y \subseteq x /\ y # x)
    BY <1>1, MinimalSubset
  <2>2. PICK j \in I : x = Larger(w, w[j])
    BY <2>1 DEF T
  <2> QED
    BY <2>1, <2>2 DEF T
<1>3. \A k \in I : w[k] <= w[j]
  <2> SUFFICES ASSUME NEW k \in I, w[k] > w[j] PROVE FALSE
    OBVIOUS
  <2>1. k \in Larger(w, w[j]) /\ k \notin Larger(w, w[k])
    BY DEF Larger
  <2>2. Larger(w, w[k]) \subseteq Larger(w, w[j])
    BY DEF Larger
  <2> QED
    BY <1>2, <2>1, <2>2
<1> QED
  BY <1>3

\* A window of 2 * n + 1 integers has an element with at most n on either side.
LEMMA MiddleExists ==
    ASSUME NEW n \in Nat, NEW w \in [0 .. 2 * n -> Int]
    PROVE  \E i \in 0 .. 2 * n :
              Cardinality(Smaller(w, w[i])) <= n /\ Cardinality(Larger(w, w[i])) <= n
<1> DEFINE D == 0 .. 2 * n
<1>1. IsFiniteSet(D) /\ Cardinality(D) = 2 * n + 1
  BY FS_Interval
<1>0. w \in [D -> Int] /\ D # {}
  OBVIOUS
<1> HIDE DEF D
<1>2. \A v : Smaller(w, v) \subseteq D /\ Larger(w, v) \subseteq D
  BY <1>0 DEF Smaller, Larger
<1>3. \A E \in SUBSET D : /\ IsFiniteSet(E) /\ Cardinality(E) \in Nat
                          /\ Cardinality(D \ E) = 2 * n + 1 - Cardinality(E)
  <2> SUFFICES ASSUME NEW E \in SUBSET D
               PROVE  /\ IsFiniteSet(E) /\ Cardinality(E) \in Nat
                      /\ Cardinality(D \ E) = 2 * n + 1 - Cardinality(E)
    OBVIOUS
  <2>1. IsFiniteSet(E) /\ Cardinality(E) \in Nat
    BY <1>1, FS_Subset, FS_CardinalityType
  <2>2. D \cap E = E
    OBVIOUS
  <2>3. Cardinality(D \ E) = Cardinality(D) - Cardinality(D \cap E)
    BY <1>1, FS_Difference
  <2>4. Cardinality(D \ E) = Cardinality(D) - Cardinality(E)
    BY <2>2, <2>3
  <2> QED
    BY <1>1, <2>1, <2>4
<1> DEFINE G == {i \in D : Cardinality(Larger(w, w[i])) <= n}
<1>4. G # {}
  <2>1. PICK j \in D : \A k \in D : w[k] <= w[j]
    BY <1>0, <1>1, LargestIn
  <2>2. Larger(w, w[j]) = {}
    BY <1>0, <2>1 DEF Larger
  <2>3. Cardinality(Larger(w, w[j])) = 0
    BY <2>2, FS_EmptySet
  <2> QED
    BY <2>3
<1> DEFINE T == {Smaller(w, w[i]) : i \in G}
<1>5. T # {} /\ T \subseteq SUBSET D
  BY <1>2, <1>4
<1> HIDE DEF T
<1>6. PICK i \in G : \A k \in G : ~(Smaller(w, w[k]) \subseteq Smaller(w, w[i]) /\ Smaller(w, w[k]) # Smaller(w, w[i]))
  <2>1. PICK x \in T : \A y \in T : ~(y \subseteq x /\ y # x)
    BY <1>1, <1>5, MinimalSubset
  <2>2. PICK i \in G : x = Smaller(w, w[i])
    BY <2>1 DEF T
  <2>3. \A k \in G : Smaller(w, w[k]) \in T
    BY DEF T
  <2> QED
    BY <2>1, <2>2, <2>3
<1>7. Cardinality(Smaller(w, w[i])) <= n
  <2> SUFFICES ASSUME ~(Cardinality(Smaller(w, w[i])) <= n) PROVE FALSE
    OBVIOUS
  <2>1. w \in [D -> Int] /\ i \in D
    BY <1>0
  <2>2. Smaller(w, w[i]) # {}
    <3> SUFFICES ASSUME Smaller(w, w[i]) = {} PROVE FALSE
      OBVIOUS
    <3>1. Cardinality(Smaller(w, w[i])) = 0
      BY FS_EmptySet
    <3> QED
      BY <3>1
  <2>3. PICK j \in Smaller(w, w[i]) : \A k \in Smaller(w, w[i]) : w[k] <= w[j]
    BY <1>1, <1>2, <2>1, <2>2, LargestIn
  <2>4. j \in D /\ w[j] < w[i]
    BY <2>1 DEF Smaller
  <2>5. Larger(w, w[j]) = D \ Smaller(w, w[i])
    BY <2>1, <2>3, <2>4 DEF Larger, Smaller
  <2>6. Cardinality(Larger(w, w[j])) <= n
    <3>1. Cardinality(Larger(w, w[j])) = 2 * n + 1 - Cardinality(Smaller(w, w[i]))
      BY <1>2, <1>3, <2>5
    <3>2. Cardinality(Smaller(w, w[i])) \in Nat
      BY <1>2, <1>3
    <3> QED
      BY <3>1, <3>2
  <2>7. j \in G
    BY <2>4, <2>6
  <2>8. Smaller(w, w[j]) \subseteq Smaller(w, w[i]) /\ j \notin Smaller(w, w[j])
    BY <2>1, <2>4 DEF Smaller
  <2> QED
    BY <1>6, <2>3, <2>7, <2>8
<1> QED
  BY <1>6, <1>7 DEF D

\* What the filter passes on from a full window has at most Half larger and at
\* most Half smaller values in it, whichever position it is at.
LEMMA MedianInWindow ==
    ASSUME NEW w \in [0 .. (Size - 1) -> Int]
    PROVE  /\ \E i \in 0 .. (Size - 1) : Median(w) = w[i]
           /\ Cardinality(Smaller(w, Median(w))) <= Half
           /\ Cardinality(Larger(w, Median(w))) <= Half
<1> DEFINE Values == {w[i] : i \in DOMAIN w}
           Middle(v) == /\ Cardinality({i \in DOMAIN w : w[i] < v}) <= Half
                        /\ Cardinality({i \in DOMAIN w : w[i] > v}) <= Half
<1>1. Half \in Nat /\ Size - 1 = 2 * Half
  BY LimitsAssumption DEF Size
<1>2. w \in [0 .. 2 * Half -> Int] /\ DOMAIN w = 0 .. 2 * Half
  BY <1>1
<1>3. \E v \in Values : Middle(v)
  BY <1>1, <1>2, MiddleExists DEF Smaller, Larger
<1>4. Median(w) = CHOOSE v \in Values : Middle(v)
  BY DEF Median
<1> HIDE DEF Middle, Values
<1>5. Median(w) \in Values /\ Middle(Median(w))
  BY <1>3, <1>4, Zenon
<1> QED
  BY <1>1, <1>2, <1>5 DEF Values, Middle, Smaller, Larger

------------------------------------------------------------------------------
(* The filter *)

\* Where the filter writes next lies in the window.
FilterTypes ==
    /\ median_window \in [0 .. (Size - 1) -> Inputs \cup {0}]
    /\ median_index \in 0 .. (Size - 1) /\ median_window_full \in BOOLEAN
    /\ info_cap \in 0 .. U32Max

LEMMA InitFilter == Init => FilterTypes
<1> SUFFICES ASSUME Init PROVE FilterTypes
  OBVIOUS
<1>1. median_window \in [0 .. (Size - 1) -> {0}]
  BY DEF Init
<1>2. 0 \in 0 .. (Size - 1) /\ 0 \in 0 .. U32Max
  BY LimitsAssumption DEF Size
<1> QED
  BY <1>1, <1>2 DEF Init, FilterTypes

LEMMA JudgeFilter ==
    ASSUME FilterTypes, NEW c \in Inputs, Judge(c)
    PROVE  FilterTypes' /\ Filtered(c) \in Int
<1>1. Size \in Nat /\ Size > 0 /\ Inputs \subseteq Int /\ U32Max \in Nat
  BY LimitsAssumption DEF Size
<1>2. TakeInput(c) /\ info_cap' = ToU32(Filtered(c))
  BY Zenon DEF Judge
<1>3. median_window' \in [0 .. (Size - 1) -> Inputs \cup {0}]
  BY <1>2 DEF TakeInput, FilterTypes
<1>4. median_index' \in 0 .. (Size - 1)
  BY <1>1, <1>2 DEF TakeInput, FilterTypes, NextIndex
<1>5. median_window_full' \in BOOLEAN
  <2>1. median_window_full' = (median_window_full \/ median_index' = 0)
    BY <1>2 DEF TakeInput
  <2> QED
    BY <2>1, Zenon
<1>6. median_window' \in [0 .. (Size - 1) -> Int]
  <2>1. Inputs \cup {0} \subseteq Int
    BY <1>1
  <2> QED
    BY <1>3, <2>1
<1>7. Median(median_window') \in Int
  BY <1>6, MedianInWindow
<1>8. Filtered(c) \in Int
  BY <1>1, <1>7 DEF Filtered
<1>9. info_cap' \in 0 .. U32Max
  BY <1>1, <1>2, <1>8 DEF ToU32
<1> QED
  BY <1>3, <1>4, <1>5, <1>8, <1>9 DEF FilterTypes

LEMMA NextFilter == FilterTypes /\ [Next]_vars => FilterTypes'
<1> SUFFICES ASSUME FilterTypes, [Next]_vars PROVE FilterTypes'
  OBVIOUS
<1>1. CASE \E c \in Inputs : Judge(c)
  BY <1>1, JudgeFilter
<1>2. CASE Report \/ InformTimer \/ UNCHANGED vars
  BY <1>2 DEF Report, InformTimer, vars, filter, FilterTypes
<1> QED
  BY <1>1, <1>2 DEF Next

\* A judgement that raises the error saw a capacitance above the last limit.
LEMMA RaisedAbove ==
    ASSUME NEW c, Judge(c), neg_state # "ERROR", neg_state' = "ERROR"
    PROVE  Above(ToU32(Filtered(c)))
<1> DEFINE cap == ToU32(Filtered(c))
<1> SUFFICES ASSUME ~Above(cap) PROVE FALSE
  OBVIOUS
<1>1. neg_state' = neg_state \/ neg_state' \in Verdict(cap, pre_neg_state)
  BY Zenon DEF Judge
<1>2. "ERROR" \notin Verdict(cap, pre_neg_state)
  BY VerdictStates
<1> QED
  BY <1>1, <1>2

\* The values above the last limit are those not below the median.
LEMMA StepNeedsMajority ==
    ASSUME FilterTypes, [Next]_vars, neg_state # "ERROR", neg_state' = "ERROR", median_window_full'
    PROVE  Cardinality({i \in DOMAIN median_window' : median_window'[i] > Limit3High}) > Half
<1>1. PICK c \in Inputs : Judge(c)
  BY DEF Next, Report, InformTimer, statics, vars
<1> DEFINE w == median_window'
           m == Median(w)
           D == 0 .. (Size - 1)
<1>2. FilterTypes'
  BY <1>1, JudgeFilter
<1>3. w \in [D -> Int] /\ Half \in Nat /\ Size = 2 * Half + 1
  <2>1. Inputs \cup {0} \subseteq Int
    BY LimitsAssumption
  <2>2. w \in [D -> Inputs \cup {0}]
    BY <1>2 DEF FilterTypes
  <2>3. Half \in Nat /\ Size = 2 * Half + 1
    BY LimitsAssumption DEF Size
  <2> QED
    BY <2>1, <2>2, <2>3
<1>4. Filtered(c) = m
  BY DEF Filtered
<1>5. m \in Int /\ Cardinality(Smaller(w, m)) <= Half
  BY <1>3, MedianInWindow
<1>6. m > Limit3High
  <2>1. ToU32(m) > Limit3High
    BY <1>1, <1>4, RaisedAbove DEF Above
  <2> QED
    BY <1>5, <2>1, LimitsAssumption DEF ToU32
<1> HIDE DEF m, w
<1>7. D \ Smaller(w, m) \subseteq {i \in DOMAIN w : w[i] > Limit3High}
  BY <1>3, <1>5, <1>6, LimitsAssumption DEF Smaller
<1>8. IsFiniteSet(D) /\ Cardinality(D) = 2 * Half + 1
  BY <1>3, FS_Interval
<1>9. Smaller(w, m) \subseteq D /\ {i \in DOMAIN w : w[i] > Limit3High} \subseteq D
  BY <1>3 DEF Smaller
<1> HIDE DEF D
<1>10. Cardinality(D \ Smaller(w, m)) >= Half + 1
  <2>1. D \cap Smaller(w, m) = Smaller(w, m)
    BY <1>9
  <2>2. Cardinality(D \ Smaller(w, m)) = Cardinality(D) - Cardinality(Smaller(w, m))
    <3>1. Cardinality(D \ Smaller(w, m)) = Cardinality(D) - Cardinality(D \cap Smaller(w, m))
      BY <1>8, FS_Difference
    <3> QED
      BY <2>1, <3>1
  <2>3. Cardinality(Smaller(w, m)) \in Nat
    BY <1>8, <1>9, FS_Subset, FS_CardinalityType
  <2> QED
    BY <1>3, <1>5, <1>8, <2>2, <2>3
<1>11. Cardinality({i \in DOMAIN w : w[i] > Limit3High}) >= Cardinality(D \ Smaller(w, m))
  <2>1. IsFiniteSet({i \in DOMAIN w : w[i] > Limit3High})
    BY <1>8, <1>9, FS_Subset
  <2>2. Cardinality(D \ Smaller(w, m)) <= Cardinality({i \in DOMAIN w : w[i] > Limit3High})
    BY <1>7, <2>1, FS_Subset
  <2>3. /\ Cardinality({i \in DOMAIN w : w[i] > Limit3High}) \in Nat
        /\ Cardinality(D \ Smaller(w, m)) \in Nat
    BY <1>7, <2>1, FS_Subset, FS_CardinalityType
  <2> QED
    BY <2>2, <2>3
<1>12. Cardinality({i \in DOMAIN w : w[i] > Limit3High}) \in Nat
  BY <1>8, <1>9, FS_Subset, FS_CardinalityType
<1>13. Cardinality(D \ Smaller(w, m)) \in Nat
  BY <1>8, FS_Difference, FS_CardinalityType
<1> QED
  BY <1>3, <1>10, <1>11, <1>12, <1>13 DEF w

\* The filter never writes past its window, and what it passes on fits uint32_t,
\* for every odd size of the window.
THEOREM TypeCorrect == Spec => []TypeOK
<1>1. Init => FilterTypes
  BY InitFilter
<1>2. FilterTypes /\ [Next]_vars => FilterTypes'
  BY NextFilter
<1>3. IInv /\ FilterTypes => TypeOK
  BY DEF IInv, StateTypes, Published, FilterTypes, TypeOK
<1> QED
  BY <1>1, <1>2, <1>3, Invariance, PTL DEF Spec

\* Outliers that are not more than half of a full window never raise the error,
\* for every odd size of the window and all measurements.
THEOREM MajorityNeeded == Spec => OutliersIgnored
<1> DEFINE A == neg_state # "ERROR" /\ neg_state' = "ERROR" /\ median_window_full' =>
        Cardinality({i \in DOMAIN median_window' : median_window'[i] > Limit3High}) > Half
<1>1. Init => FilterTypes
  BY InitFilter
<1>2. FilterTypes /\ [Next]_vars => FilterTypes'
  BY NextFilter
<1>3. FilterTypes /\ [Next]_vars => [A]_vars
  BY StepNeedsMajority
<1> QED
  BY <1>1, <1>2, <1>3, PTL DEF Spec, OutliersIgnored

------------------------------------------------------------------------------
(* What a capacitance that stays does *)

\* The state is one the capacitance judged last stands for, or keeps.
Steady ==
    neg_state # "ERROR" => ~Above(info_cap) /\ Verdict(info_cap, neg_state) \subseteq {neg_state}

\* A verdict is not overruled by the same capacitance.
LEMMA VerdictStands ==
    ASSUME NEW cap, NEW pre, NEW s \in Verdict(cap, pre)
    PROVE  Verdict(cap, s) \subseteq {s}
BY DEF Verdict

\* A state other than the error is kept for want of a verdict: no hold is on then.
LEMMA KeptUnheld ==
    ASSUME IInv, NEW c, Judge(c), neg_state' # "ERROR",
           neg_state' \notin Verdict(info_cap', pre_neg_state)
    PROVE  /\ ~Above(info_cap') /\ neg_state' = neg_state /\ neg_state = pre_neg_state
           /\ neg_state # "ERROR" => Verdict(info_cap', pre_neg_state) = {}
<1> DEFINE cap == ToU32(Filtered(c))
<1>1. info_cap' = cap
  BY Zenon DEF Judge
<1>2. ~Above(cap)
  BY Zenon DEF Judge
<1>3. neg_state = pre_neg_state
  BY DEF Judge, IInv, Remembered
<1>4. neg_state' = neg_state
  BY <1>1, <1>2, Zenon DEF Judge
<1>5. ASSUME neg_state # "ERROR" PROVE Verdict(cap, pre_neg_state) = {}
  <2>1. ~(Refreshed(c) > 0)
    BY <1>5, RefreshedHold
  <2> QED
    BY <1>1, <1>2, <2>1, Zenon DEF Judge
<1> QED
  BY <1>1, <1>2, <1>3, <1>4, <1>5

LEMMA StepSteady == IInv /\ Steady /\ [Next]_vars => Steady'
<1> SUFFICES ASSUME IInv, Steady, [Next]_vars, neg_state' # "ERROR"
             PROVE  ~Above(info_cap') /\ Verdict(info_cap', neg_state') \subseteq {neg_state'}
  BY DEF Steady, Above, Verdict
<1>1. ASSUME NEW c \in Inputs, Judge(c)
      PROVE  ~Above(info_cap') /\ Verdict(info_cap', neg_state') \subseteq {neg_state'}
  <2>1. ~Above(info_cap')
    BY <1>1, Zenon DEF Judge
  <2>2. CASE neg_state' \in Verdict(info_cap', pre_neg_state)
    BY <2>1, <2>2, VerdictStands
  <2>3. CASE neg_state' \notin Verdict(info_cap', pre_neg_state)
    <3>1. /\ neg_state' = neg_state /\ neg_state = pre_neg_state
          /\ Verdict(info_cap', pre_neg_state) = {}
      BY <1>1, <2>3, KeptUnheld
    <3> QED
      BY <2>1, <3>1
  <2> QED
    BY <2>2, <2>3
<1>2. CASE UNCHANGED <<neg_state, info_cap>>
  BY <1>2 DEF Steady
<1> QED
  BY <1>1, <1>2 DEF Next, Report, InformTimer, statics, vars

LEMMA JudgedSteady ==
    ASSUME IInv, Steady, NEW c \in Inputs, Judge(c), info_cap' = info_cap, neg_state # "ERROR"
    PROVE  neg_state' = neg_state
<1>1. pre_neg_state = neg_state
  BY DEF Judge, IInv, Remembered
<1>2. ~Above(info_cap') /\ Verdict(info_cap', neg_state) \subseteq {neg_state}
  BY DEF Steady
<1>3. neg_state' # "ERROR"
  BY <1>2, RaisedAbove, Zenon DEF Judge
<1> QED
  BY <1>1, <1>2, <1>3, KeptUnheld

\* A steady capacitance is judged once: for all limits in order, and whatever the
\* filter and the hold did before, the state it gives is the state it keeps.
THEOREM SteadyStays == Spec => SteadyIsStable
<1> DEFINE A == pc = "judge" /\ pc' = "report" /\ info_cap' = info_cap /\ neg_state # "ERROR" =>
                   neg_state' = neg_state
<1>1. Init => Steady
  BY LimitsAssumption DEF Init, Steady, Above, Verdict
<1>2. IInv /\ Steady /\ [Next]_vars => [A]_vars
  BY JudgedSteady DEF Next, Report, InformTimer, statics
<1> QED
  BY <1>1, <1>2, StepSteady, Invariance, PTL DEF Spec, SteadyIsStable

------------------------------------------------------------------------------
(* How an error ends *)

ErrorEndsBelow == neg_state = "ERROR" /\ neg_state' # "ERROR" => info_cap' < Limit3Low

\* The error is left only for a capacitance below the lower of the last two limits,
\* so these are a hysteresis, too (lcr_task.c:107-130).
THEOREM ErrorHysteresis == Spec => [][ErrorEndsBelow]_vars
<1>1. ASSUME FilterTypes, NEW c \in Inputs, Judge(c)
      PROVE  info_cap' \in Int
  BY <1>1, JudgeFilter, LimitsAssumption DEF FilterTypes
<1>2. ASSUME IInv, FilterTypes, [Next]_vars, neg_state = "ERROR", neg_state' # "ERROR"
      PROVE  info_cap' < Limit3Low
  <2>1. info_cap' \in Int
    BY <1>1, <1>2 DEF Next, Report, InformTimer, statics, vars
  <2>2. neg_state' \in Verdict(info_cap', "ERROR")
    BY <1>2, StepFollows
  <2> QED
    BY <2>1, <2>2, LimitsAssumption DEF Verdict
<1>3. IInv /\ FilterTypes /\ [Next]_vars => [ErrorEndsBelow]_vars
  BY <1>2 DEF ErrorEndsBelow
<1> QED
  BY <1>3, InitFilter, NextFilter, Invariance, PTL DEF Spec

HoldRunsOut ==
    neg_state = "ERROR" /\ pc = "judge" /\ pc' = "report" /\ info_cap' < Limit3Low
      /\ ~RawAboveLimit(median_window'[median_index]) =>
        neg_state' # "ERROR" \/ error_reduce' < error_reduce

\* A capacitance below the last band has a verdict after an error.
LEMMA VerdictAfterError ==
    ASSUME NEW cap \in Int, cap < Limit3Low
    PROVE  Verdict(cap, "ERROR") # {} /\ ~Above(cap)
BY LimitsAssumption DEF Verdict, Above

\* Below that limit the hold runs down: a judgement whose measurement is not itself so
\* large that line 56 refreshes the hold shortens it or ends the error
\* (lcr_task.c:54-59, 107-130).
THEOREM ErrorRunsOut == Spec => [][HoldRunsOut]_vars
<1>1. ASSUME IInv, FilterTypes, NEW c \in Inputs, Judge(c), neg_state = "ERROR",
             info_cap' < Limit3Low, ~RawAboveLimit(median_window'[median_index])
      PROVE  neg_state' # "ERROR" \/ error_reduce' < error_reduce
  <2> DEFINE cap == ToU32(Filtered(c))
  <2>1. info_cap' = cap /\ TakeInput(c)
    BY <1>1, Zenon DEF Judge
  <2>2. median_window'[median_index] = c
    BY <1>1, <2>1 DEF TakeInput, FilterTypes
  <2>3. Refreshed(c) = error_reduce
    BY <1>1, <2>2 DEF Refreshed, BeginsAnew
  <2>4. info_cap' \in Int
    BY <1>1, JudgeFilter, LimitsAssumption DEF FilterTypes
  <2>5. pre_neg_state = "ERROR"
    BY <1>1 DEF Judge, IInv, Remembered
  <2>6. Verdict(cap, pre_neg_state) # {} /\ ~Above(cap)
    BY <1>1, <2>1, <2>4, <2>5, VerdictAfterError
  <2>7. CASE Refreshed(c) > 0
    <3>1. error_reduce' = Refreshed(c) - 1
      BY <1>1, <2>6, <2>7, Zenon DEF Judge
    <3>2. error_reduce \in Int
      BY <1>1, LimitsAssumption DEF IInv, StateTypes
    <3> QED
      BY <2>3, <3>1, <3>2
  <2>8. CASE ~(Refreshed(c) > 0)
    <3>1. neg_state' \in Verdict(cap, pre_neg_state)
      BY <1>1, <2>6, <2>8, Zenon DEF Judge
    <3> QED
      BY <3>1, VerdictStates
  <2> QED
    BY <2>7, <2>8
<1>2. IInv /\ FilterTypes /\ [Next]_vars => [HoldRunsOut]_vars
  BY <1>1 DEF HoldRunsOut, Next, Report, InformTimer
<1> QED
  BY <1>2, InitFilter, NextFilter, Invariance, PTL DEF Spec

=============================================================================
