------------------------------ MODULE RgbProofs ------------------------------
(***************************************************************************)
(* Proofs about Rgb, for any components and colours: the light task never  *)
(* goes back to sleep with an outdated light and the flag down.            *)
(***************************************************************************)
EXTENDS Rgb, FiniteSetTheorems, TLAPS

\* The flag is still up when the task is about to take it down.
ClearsRaised == pc = "clear" => rgb_change_flag = 1

\* As long as the flag is down, no command has come since it was taken down, and
\* what the task has read so far is the current command.
ReadIsCurrent ==
    rgb_change_flag = 0 =>
        /\ pc \in {"load", "show"} => pin = 1 - RGB_switch
        /\ pc = "load" => \A comp \in loaded : loading[comp] = RGB[comp]
        /\ pc = "show" => loading = RGB

\* Nothing is loaded before the loads.
LoadsFresh == pc \in {"poll", "clear", "pin"} => loaded = {}

IInv == TypeOK /\ LightIsLastCommand /\ ClearsRaised /\ ReadIsCurrent /\ LoadsFresh

LEMMA InitIInv == Init => IInv
BY ColourAssumption
DEF Init, IInv, TypeOK, LightIsLastCommand, Shown, ClearsRaised, ReadIsCurrent, LoadsFresh

\* A frame leaves the flag up, whatever the task is doing.
LEMMA FrameIInv == IInv /\ Frame => IInv'
<1> SUFFICES ASSUME IInv, Frame PROVE IInv'
  OBVIOUS
<1>1. /\ rgb_change_flag' = 1 /\ RGB_switch' \in {0, 1} /\ RGB' \in Colours
      /\ UNCHANGED <<ota_start_flag, pc, loaded, loading, pin, light>>
  BY ColourAssumption DEF Frame, RgbFrame, SwitchFrame, SwitchOf, IInv, TypeOK, task
<1> QED
  BY <1>1 DEF IInv, TypeOK, LightIsLastCommand, Shown, ClearsRaised, ReadIsCurrent, LoadsFresh

\* Testing and clearing the flag, and setting the power pin.
LEMMA StartIInv == IInv /\ (Poll \/ Clear \/ PowerLeds) => IInv'
<1> SUFFICES ASSUME IInv, Poll \/ Clear \/ PowerLeds PROVE IInv'
  OBVIOUS
<1>1. UNCHANGED <<RGB_switch, RGB, ota_start_flag, loaded, loading, light>> /\ loaded = {}
  BY DEF Poll, Clear, PowerLeds, info, IInv, LoadsFresh
<1>2. TypeOK'
  BY <1>1 DEF IInv, TypeOK, Poll, Clear, PowerLeds, FlagAfterClear
<1> QED
  BY <1>1, <1>2 DEF IInv, LightIsLastCommand, Shown, ClearsRaised, ReadIsCurrent, LoadsFresh,
     Poll, Clear, PowerLeds, FlagAfterClear

\* Loading one component; the last one completes the colour.
LEMMA LoadIInv == ASSUME NEW comp \in Comps, IInv, Load(comp) PROVE IInv'
<1>1. /\ UNCHANGED <<RGB_switch, RGB, rgb_change_flag, ota_start_flag, pin, light>>
      /\ pc = "load" /\ loaded' = loaded \cup {comp}
      /\ loading' = [loading EXCEPT ![comp] = RGB[comp]]
      /\ pc' = IF loaded' = Comps THEN "show" ELSE "load"
  BY DEF Load, info
<1>2. loading \in Colours /\ RGB \in Colours /\ loaded \subseteq Comps
  BY DEF IInv, TypeOK
<1>3. loading' \in Colours /\ loaded' \subseteq Comps
  BY <1>1, <1>2 DEF Colours
<1>4. TypeOK'
  BY <1>1, <1>3 DEF IInv, TypeOK
<1>5. rgb_change_flag = 0 => \A d \in loaded' : loading'[d] = RGB[d]
  BY <1>1, <1>2 DEF IInv, ReadIsCurrent, Colours
<1>6. rgb_change_flag = 0 /\ loaded' = Comps => loading' = RGB
  BY <1>2, <1>3, <1>5 DEF Colours
<1>7. ReadIsCurrent'
  BY <1>1, <1>5, <1>6 DEF IInv, ReadIsCurrent
<1>8. LightIsLastCommand' /\ ClearsRaised' /\ LoadsFresh'
  BY <1>1 DEF LightIsLastCommand, ClearsRaised, LoadsFresh
<1> QED
  BY <1>4, <1>7, <1>8 DEF IInv

\* Showing what was loaded: with the flag down it is the current command.
LEMMA ShowIInv == IInv /\ Show => IInv'
<1> SUFFICES ASSUME IInv, Show PROVE IInv'
  OBVIOUS
<1>1. /\ UNCHANGED <<RGB_switch, RGB, rgb_change_flag, ota_start_flag, loading, pin>>
      /\ pc = "show" /\ pc' = "poll" /\ light' = loading /\ loaded' = {}
  BY DEF Show, info, FlagAfterShow
<1>2. TypeOK'
  BY <1>1 DEF IInv, TypeOK
<1> QED
  BY <1>1, <1>2 DEF IInv, LightIsLastCommand, Shown, ClearsRaised, ReadIsCurrent, LoadsFresh

LEMMA NextIInv == IInv /\ [Next]_vars => IInv'
<1> SUFFICES ASSUME IInv, [Next]_vars PROVE IInv'
  OBVIOUS
<1>1. CASE Frame
  BY <1>1, FrameIInv
<1>2. CASE OtaAsk
  <2>1. ota_start_flag' = 1 /\ UNCHANGED <<RGB_switch, RGB, rgb_change_flag, pc, loaded, loading, pin, light>>
    BY <1>2 DEF OtaAsk, info, task
  <2> QED
    BY <2>1 DEF IInv, TypeOK, LightIsLastCommand, Shown, ClearsRaised, ReadIsCurrent, LoadsFresh
<1>3. CASE Task
  BY <1>3, StartIInv, LoadIInv, ShowIInv DEF Task
<1>4. CASE UNCHANGED vars
  BY <1>4 DEF vars, info, task, IInv, TypeOK, LightIsLastCommand, Shown, ClearsRaised,
     ReadIsCurrent, LoadsFresh
<1> QED
  BY <1>1, <1>2, <1>3, <1>4 DEF Next

------------------------------------------------------------------------------

\* The inductive invariant of the light task (WS2812B.c:72-89).
THEOREM Invariance == Spec => []IInv
  BY InitIInv, NextIInv, PTL DEF Spec

\* All variables of the light keep their types.
THEOREM TypeCorrect == Spec => []TypeOK
<1>1. IInv => TypeOK
  BY DEF IInv
<1> QED
  BY Invariance, <1>1, PTL

\* No interleaving of frames with the task's accesses to the shared command lets
\* it sleep with the flag down and another light than the one commanded last.
THEOREM LightSafe == Spec => []LightIsLastCommand
<1>1. IInv => LightIsLastCommand
  BY DEF IInv
<1> QED
  BY Invariance, <1>1, PTL

------------------------------------------------------------------------------
(* Why the light settles: the steps RGB_change_task makes before it has        *)
(* nothing left to show.  A round is a test, the clearing of the flag, the     *)
(* power pin, a load for each component and the update.                        *)

Left == Cardinality(Comps \ loaded)
Round == Cardinality(Comps) + 4

Place ==
    CASE pc = "poll" -> 0
      [] pc = "clear" -> Cardinality(Comps) + 3
      [] pc = "pin" -> Cardinality(Comps) + 2
      [] pc = "load" -> Left + 1
      [] pc = "show" -> 1

\* A flag that was seen and is about to be cleared is part of the round begun.
Pending == IF rgb_change_flag = 1 /\ pc # "clear" THEN Round ELSE 0
StepsLeft == Pending + Place

Settles ==
    ~Frame => StepsLeft' <= StepsLeft /\ (Task => StepsLeft' < StepsLeft)

Settled == pc = "poll" /\ rgb_change_flag = 0

LEMMA CompsFinite ==
    /\ Cardinality(Comps) \in Nat
    /\ \A S \in SUBSET Comps : Cardinality(S) \in Nat
BY ColourAssumption, FS_CardinalityType, FS_Subset

\* A load leaves one component less to load.
LEMMA OneLoadLess ==
    ASSUME NEW S \in SUBSET Comps, NEW comp \in Comps, comp \notin S
    PROVE  Cardinality(Comps \ (S \cup {comp})) = Cardinality(Comps \ S) - 1
<1>1. Comps \ (S \cup {comp}) = (Comps \ S) \ {comp} /\ comp \in Comps \ S
  OBVIOUS
<1>2. IsFiniteSet(Comps \ S)
  BY ColourAssumption, FS_Subset
<1> QED
  BY <1>1, <1>2, FS_RemoveElement

LEMMA StepsNat == TypeOK => StepsLeft \in Nat /\ (StepsLeft = 0 <=> Settled)
<1> SUFFICES ASSUME TypeOK PROVE StepsLeft \in Nat /\ (StepsLeft = 0 <=> Settled)
  OBVIOUS
<1>1. Cardinality(Comps) \in Nat /\ Left \in Nat
  BY CompsFinite DEF Left
<1>2. Pending \in Nat /\ Place \in Nat
  BY <1>1 DEF Pending, Round, Place, TypeOK
<1>3. Pending = 0 <=> rgb_change_flag = 0 \/ pc = "clear"
  BY <1>1 DEF Pending, Round, TypeOK
<1>4. Place = 0 <=> pc = "poll"
  BY <1>1 DEF Place, TypeOK
<1> QED
  BY <1>2, <1>3, <1>4 DEF StepsLeft, Settled

LEMMA TwoRounds == TypeOK => StepsLeft < 2 * Round
<1> SUFFICES ASSUME TypeOK PROVE StepsLeft < 2 * Round
  OBVIOUS
<1>1. Cardinality(Comps) \in Nat /\ Left \in Nat
  BY CompsFinite DEF Left
<1>2. Left <= Cardinality(Comps)
  BY ColourAssumption, FS_Subset DEF Left
<1> QED
  BY <1>1, <1>2 DEF StepsLeft, Pending, Round, Place, TypeOK

LEMMA TaskSettles == IInv /\ Task => StepsLeft' < StepsLeft
<1> SUFFICES ASSUME IInv, Task PROVE StepsLeft' < StepsLeft
  OBVIOUS
<1> DEFINE n == Cardinality(Comps)
<1>1. n \in Nat /\ Left \in Nat /\ rgb_change_flag \in {0, 1} /\ loaded \subseteq Comps
  BY CompsFinite DEF Left, IInv, TypeOK
<1> USE DEF StepsLeft, Pending, Round, Place
<1>2. CASE Poll
  BY <1>1, <1>2 DEF Poll
<1>3. CASE Clear
  BY <1>1, <1>3 DEF Clear, FlagAfterClear
<1>4. CASE PowerLeds
  <2>1. Left' = n /\ pc = "pin" /\ pc' = "load" /\ rgb_change_flag' = rgb_change_flag
    BY <1>4 DEF PowerLeds, IInv, LoadsFresh, Left
  <2> HIDE DEF n
  <2> QED
    BY <1>1, <2>1 DEF n
<1>5. ASSUME NEW comp \in Comps, Load(comp) PROVE StepsLeft' < StepsLeft
  <2>1. /\ pc = "load" /\ rgb_change_flag' = rgb_change_flag /\ comp \notin loaded
        /\ loaded' = loaded \cup {comp} /\ pc' \in {"load", "show"}
    BY <1>5 DEF Load
  <2>2. Left' = Left - 1
    BY <1>1, <2>1, OneLoadLess DEF Left
  <2>3. Left' \in Nat
    <3>1. loaded' \in SUBSET Comps
      BY <1>1, <2>1
    <3> QED
      BY <3>1, CompsFinite DEF Left
  <2>4. Left >= 1
    BY <1>1, <2>2, <2>3
  <2> QED
    BY <1>1, <2>1, <2>2, <2>4
<1>6. CASE Show
  BY <1>1, <1>6 DEF Show, FlagAfterShow
<1> QED
  BY <1>2, <1>3, <1>4, <1>5, <1>6 DEF Task

\* After the last frame the light task has at most two rounds to go, and each of
\* its steps is one of them, whichever round the frame fell into; an OTA request
\* adds none (WS2812B.c:72-89).
THEOREM LightProgress == Spec => [](StepsLeft < 2 * Round) /\ [][Settles]_vars
<1>1. IInv /\ [Next]_vars => [Settles]_vars
  <2> SUFFICES ASSUME IInv, Next, ~Frame
               PROVE  StepsLeft' <= StepsLeft /\ (Task => StepsLeft' < StepsLeft)
    BY DEF Settles
  <2>1. StepsLeft \in Nat
    BY StepsNat DEF IInv
  <2>2. CASE Task
    <3>1. TypeOK'
      BY <2>2, StartIInv, LoadIInv, ShowIInv DEF Task, IInv
    <3>2. loaded' \in SUBSET Comps
      BY <3>1 DEF TypeOK
    <3>3. Left' \in Nat /\ Cardinality(Comps) \in Nat
      BY <3>2, CompsFinite DEF Left
    <3>4. StepsLeft' \in Nat
      BY <3>1, <3>3 DEF TypeOK, StepsLeft, Pending, Round, Place
    <3> QED
      BY <2>1, <2>2, <3>4, TaskSettles
  <2>3. CASE OtaAsk
    <3>1. UNCHANGED <<rgb_change_flag, pc, loaded>>
      BY <2>3 DEF OtaAsk, task
    <3>2. StepsLeft' = StepsLeft
      BY <3>1 DEF StepsLeft, Pending, Place, Left
    <3>3. Task => pc' # pc \/ loaded' # loaded
      BY DEF Task, Poll, Clear, PowerLeds, Load, Show
    <3> QED
      BY <2>1, <3>1, <3>2, <3>3
  <2> QED
    BY <2>2, <2>3 DEF Next
<1>2. IInv => StepsLeft < 2 * Round
  BY TwoRounds DEF IInv
<1> QED
  BY Invariance, <1>1, <1>2, PTL DEF Spec

\* Once the task polls with the flag down, the LEDs show the last command, and
\* they go on showing it until the main board sends another (WS2812B.c:72-89).
THEOREM LightStays == Spec => [](Settled /\ [][~Frame]_vars => [](Settled /\ Shown))
<1>1. IInv /\ Settled => Shown
  BY DEF IInv, LightIsLastCommand, Settled
<1>2. IInv /\ Settled /\ [Next]_vars /\ [~Frame]_vars => Settled'
  BY DEF IInv, Settled, Next, OtaAsk, Task, Poll, Clear, PowerLeds, Load, Show, vars, task
<1> QED
  BY Invariance, <1>1, <1>2, PTL DEF Spec

=============================================================================
