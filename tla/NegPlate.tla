------------------------------- MODULE NegPlate -------------------------------
(***************************************************************************)
(* The negative plate: what lcr_task_thread makes of a measured            *)
(* capacitance (applications/lcr_task.c, lcr_info_judge) behind its median *)
(* filter (applications/median_filter.c), and the report it sends.         *)
(*                                                                         *)
(* One judgement is two steps, because the 25 ms report timer can interrupt*)
(* the thread after g_send_info.cap is assigned and before neg_state is:   *)
(*   pc = "judge"   before lcr_info_judge looks at a measurement           *)
(*   pc = "report"  cap is assigned, line 150 comes next                   *)
(* A measurement is con->mea.C * 1000 as an integer; the raw value mea.C   *)
(* that line 56 compares is Scale times smaller.                           *)
(***************************************************************************)
EXTENDS Integers, FiniteSets

CONSTANTS
    Inputs,                   \* measurements mea.C * 1000
    Scale,                    \* 1000
    U32Max,                   \* largest uint32_t
    Limit1Low, Limit1High,    \* NEGATIVE_PLATE_LIMIT1_LOW, _HIGH
    Limit2Low, Limit2High,    \* NEGATIVE_PLATE_LIMIT2_LOW, _HIGH
    Limit3Low, Limit3High,    \* NEGATIVE_PLATE_LIMIT3_LOW, _HIGH
    ErrorReduce,              \* NEGATIVE_PLATE_ERROR_REDUCE
    Half                      \* half of the odd window size, rounded down

Size == 2 * Half + 1          \* median_filter_window_size

ASSUME LimitsAssumption ==
    /\ Inputs \subseteq Int /\ Scale \in Nat \ {0} /\ U32Max \in Nat
    /\ {Limit1Low, Limit1High, Limit2Low, Limit2High, Limit3Low, Limit3High} \subseteq Nat
    /\ 0 < Limit1Low /\ Limit1Low < Limit1High /\ Limit1High < Limit2Low
    /\ Limit2Low < Limit2High /\ Limit2High < Limit3Low /\ Limit3Low < Limit3High
    /\ Limit3High < U32Max
    /\ ErrorReduce \in Nat \ {0} /\ Half \in Nat

States == {"DISCONNECT", "OK", "HALF", "ERROR"}

VARIABLES
    neg_state, pre_neg_state, error_reduce,  \* the statics of lcr_info_judge
    median_window,                           \* mf->median_window
    median_index, median_window_full,
    info_cap, info_neg_state,                \* g_send_info.cap, .neg_state
    pc,
    reported,                                \* the state in the report sent last
    calm                                     \* history: judgements since the hold was
                                             \* last to begin, see ErrorHeld

statics == <<neg_state, pre_neg_state, error_reduce>>
filter == <<median_window, median_index, median_window_full>>
vars == <<statics, filter, info_cap, info_neg_state, pc, reported, calm>>

Init ==
    /\ neg_state = "DISCONNECT" /\ pre_neg_state = "DISCONNECT" /\ error_reduce = 0
    /\ median_window \in [0 .. (Size - 1) -> {0}]
    /\ median_index = 0 /\ median_window_full = FALSE
    /\ info_cap = 0 /\ info_neg_state = "DISCONNECT"
    /\ pc = "judge" /\ reported = "none" /\ calm = 0

------------------------------------------------------------------------------
(* median_filter_handle *)

\* The middle element of the sorted window: at most Half elements are smaller
\* and at most Half are larger.
Median(w) ==
    CHOOSE v \in {w[i] : i \in DOMAIN w} :
        /\ Cardinality({i \in DOMAIN w : w[i] < v}) <= Half
        /\ Cardinality({i \in DOMAIN w : w[i] > v}) <= Half

\* The filter takes an input; it passes it on until the window is full once.
FilteredUnsorted(c) == IF median_window_full' THEN median_window'[Half] ELSE c
Filtered(c) == IF median_window_full' THEN Median(median_window') ELSE c

\* median_index after ++ and the wrap-around.
NextIndexPastEnd == (median_index + 1) % (Size + 1)
NextIndex == (median_index + 1) % Size

TakeInput(c) ==
    /\ median_window' = [median_window EXCEPT ![median_index] = c]
    /\ median_index' = NextIndex
    /\ median_window_full' = (median_window_full \/ median_index' = 0)

\* Conversion to uint32_t: VCVT saturates.
ToU32(c) == IF c < 0 THEN 0 ELSE IF c > U32Max THEN U32Max ELSE c

------------------------------------------------------------------------------
(* lcr_info_judge *)

\* Line 56 compares the unscaled value with the limit.
RawAboveLimit(c) == c > Scale * Limit3High

Above(cap) == cap > Limit3High

\* The state a capacitance stands for when no error holds it back; the state
\* is kept in a critical band for some predecessors, and at exactly the last
\* limit, which no branch covers.
VerdictNoBand(cap, pre) ==
    CASE cap < Limit1High -> {"DISCONNECT"}
      [] Limit1High <= cap /\ cap < Limit2High -> {"HALF"}
      [] Limit2High <= cap /\ cap < Limit3High -> {"OK"}
      [] OTHER -> {}
Verdict(cap, pre) ==
    CASE cap < Limit1Low -> {"DISCONNECT"}
      [] Limit1Low <= cap /\ cap < Limit1High ->
            IF pre \in {"DISCONNECT", "HALF"} THEN {} ELSE {"DISCONNECT"}
      [] Limit1High <= cap /\ cap < Limit2Low -> {"HALF"}
      [] Limit2Low <= cap /\ cap < Limit2High ->
            IF pre \in {"DISCONNECT", "HALF"} THEN {} ELSE {"HALF"}
      [] Limit2High <= cap /\ cap < Limit3Low -> {"OK"}
      [] Limit3Low <= cap /\ cap < Limit3High ->
            IF pre \in {"OK", "ERROR"} THEN {} ELSE {"OK"}
      [] OTHER -> {}

\* The hold that starts with an error.
HoldOnError == ErrorReduce

\* The raw value begins the hold of an error anew.
BeginsAnew(c) == neg_state = "ERROR" /\ RawAboveLimit(c)

\* error_reduce after line 59.
RefreshedNever(c) == error_reduce
RefreshedAlways(c) == IF RawAboveLimit(c) THEN HoldOnError ELSE error_reduce
Refreshed(c) == IF BeginsAnew(c) THEN HoldOnError ELSE error_reduce

Judge(c) ==
    /\ pc = "judge"
    /\ TakeInput(c)
    /\ LET cap == ToU32(Filtered(c))
           hold == Refreshed(c)
           verdict == Verdict(cap, pre_neg_state)
       IN  /\ IF Above(cap)
              THEN neg_state' = "ERROR" /\ error_reduce' = HoldOnError
              ELSE IF verdict = {}
              THEN UNCHANGED neg_state /\ error_reduce' = hold
              ELSE IF hold > 0
              THEN UNCHANGED neg_state /\ error_reduce' = hold - 1
              ELSE neg_state' \in verdict /\ error_reduce' = hold
           /\ info_cap' = cap
           /\ calm' = IF Above(cap) THEN 0
                      ELSE IF BeginsAnew(c) THEN 1
                      ELSE IF calm < ErrorReduce + 1 THEN calm + 1 ELSE calm
    /\ pc' = "report"
    /\ UNCHANGED <<pre_neg_state, info_neg_state, reported>>

\* Lines 150-155: a change is remembered, published and reported at once; the
\* report is built from what g_send_info holds by then.
PreKept == pre_neg_state
PreRemembered == neg_state

SentBeforePublished == info_neg_state
SentState == neg_state

Report ==
    /\ pc = "report"
    /\ IF pre_neg_state # neg_state
       THEN /\ pre_neg_state' = PreRemembered
            /\ info_neg_state' = neg_state
            /\ reported' = SentState
       ELSE UNCHANGED <<pre_neg_state, info_neg_state, reported>>
    /\ pc' = "judge"
    /\ UNCHANGED <<neg_state, error_reduce, filter, info_cap, calm>>

\* can_inform_timer_timeout, in interrupt context: whatever g_send_info holds.
InformTimer ==
    /\ reported' = info_neg_state
    /\ UNCHANGED <<statics, filter, info_cap, info_neg_state, pc, calm>>

Next == (\E c \in Inputs : Judge(c)) \/ Report \/ InformTimer

Spec == Init /\ [][Next]_vars

------------------------------------------------------------------------------
(* Properties *)

TypeOK ==
    /\ neg_state \in States /\ pre_neg_state \in States
    /\ error_reduce \in 0 .. ErrorReduce
    /\ median_window \in [0 .. (Size - 1) -> Inputs \cup {0}]
    /\ median_index \in 0 .. (Size - 1) /\ median_window_full \in BOOLEAN
    /\ info_cap \in 0 .. U32Max /\ info_neg_state \in States
    /\ pc \in {"judge", "report"}
    /\ reported \in States \cup {"none"}
    /\ calm \in 0 .. (ErrorReduce + 1)

\* The hold is on only in the error state, so it can never keep a plate that is
\* fine from being reported as it is (lines 56-59 and 125-130).
HoldMeansError == error_reduce > 0 => neg_state = "ERROR"

\* An error is left only after ErrorReduce judgements (line 47) whose filtered
\* capacitance was not above the last limit, in a row, and as many since a raw one
\* was 1000 times above it while the error stood (line 56; that judgement counts
\* too).  A raw measurement between once and 1000 times the limit, which the filter
\* does not let through, does not prolong the error: the code compares like this.
ErrorHeld ==
    [][neg_state = "ERROR" /\ neg_state' # "ERROR" => calm >= ErrorReduce]_vars

\* Once the window is full, less than half of it above the last limit never
\* raises the error: a burst of outliers needs Half + 1 measurements.
OutliersIgnored ==
    [][neg_state # "ERROR" /\ neg_state' = "ERROR" /\ median_window_full' =>
        Cardinality({i \in DOMAIN median_window' : median_window'[i] > Limit3High}) > Half]_vars

\* Between DISCONNECT and HALF the two limits are a hysteresis: one capacitance
\* cannot make the state go back and forth, whatever the filter and the hold do.
NoFlapping ==
    [][ /\ neg_state = "DISCONNECT" /\ neg_state' = "HALF" => info_cap' >= Limit1High
        /\ neg_state = "HALF" /\ neg_state' = "DISCONNECT" => info_cap' < Limit1Low ]_vars

\* A capacitance that stays what it is changes the state once at most: no band,
\* hold or remembered state makes it swing, or come round later (lines 62-130).
SteadyIsStable ==
    [][pc = "judge" /\ pc' = "report" /\ info_cap' = info_cap /\ neg_state # "ERROR" =>
        neg_state' = neg_state]_vars

\* Between two judgements the published state, the remembered one and the
\* current one agree: every change was reported (lines 150-155).
ChangeReported ==
    pc = "judge" => pre_neg_state = neg_state /\ info_neg_state = neg_state

\* The report sent last carries the current state between two judgements, even
\* if the timer sent the state before it in the middle of a judgement.
LastReportCurrent == pc = "judge" => reported \in {"none", neg_state}

==============================================================================
