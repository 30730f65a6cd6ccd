--------------------------------- MODULE Rgb ---------------------------------
(***************************************************************************)
(* The light: the main board's frames that command it, handled by          *)
(* can_rx_thread (applications/can.c), and RGB_change_task                 *)
(* (applications/WS2812B.c), which shows it.  They share rgb_change_flag   *)
(* and MSG_MAIN_RGB_INFO without a lock.  can_rx_thread has the higher     *)
(* priority: it can interrupt the task between any two of its accesses and *)
(* is not interrupted by it, so that a frame is one step and the task one  *)
(* step per access.                                                        *)
(*                                                                         *)
(*   pc = "poll"    before the test of line 76                             *)
(*   pc = "clear"   the test was passed, the flag is still set             *)
(*   pc = "pin"     before the switch is read and the power pin set        *)
(*   pc = "load"    loading the colour components one by one               *)
(*   pc = "show"    the colour is on its way to the LEDs                   *)
(***************************************************************************)
EXTENDS Integers, FiniteSets

CONSTANTS
    Comps,     \* components of a colour
    Levels,    \* values a component is commanded to
    Blue,      \* the colour of a board that is switched on
    Dark       \* the colour of the LEDs before the first command

Colours == [Comps -> Levels]

ASSUME ColourAssumption == IsFiniteSet(Comps) /\ Blue \in Colours /\ Dark \in Colours

VARIABLES
    RGB_switch, RGB,    \* MSG_MAIN_RGB_INFO: the switch and the colour
    rgb_change_flag,
    ota_start_flag,
    pc,
    loaded, loading,    \* components loaded so far; what they were
    pin,                \* DLPS_Pin, the power of the LEDs: 0 is on
    light               \* the colour the LEDs show

info == <<RGB_switch, RGB>>
task == <<pc, loaded, loading, pin, light>>
vars == <<info, rgb_change_flag, ota_start_flag, task>>

\* The variables of C start as 0; MX_GPIO_Init sets the pin (auto_main.c:644).
Init ==
    /\ RGB_switch = 0 /\ RGB = Dark /\ rgb_change_flag = 0 /\ ota_start_flag = 0
    /\ pc = "poll" /\ loaded = {} /\ loading = Dark
    /\ pin = 1 /\ light = Dark

------------------------------------------------------------------------------
(* Frames of the main board *)

\* CAN_ID_MAIN_RGB_SWITCH_CONTROL_INFO
RgbFrame(switch, colour) ==
    /\ rgb_change_flag' = 1
    /\ RGB_switch' = switch /\ RGB' = colour
    /\ UNCHANGED <<ota_start_flag, task>>

\* CAN_ID_MAIN_BOARD_SWITCH_CONTROL_INFO: data[0] is 1 to switch the board on,
\* 0 to switch it off; the bool RGB_switch takes 1-data[0] as true or false.
SwitchUnbool(data0) == (1 - data0) % 256
SwitchOf(data0) == IF 1 - data0 = 0 THEN 0 ELSE 1

SwitchFrame(data0) ==
    /\ rgb_change_flag' = 1
    /\ RGB_switch' = SwitchOf(data0)
    /\ RGB' = IF data0 = 1 THEN Blue ELSE RGB
    /\ UNCHANGED <<ota_start_flag, task>>

\* CAN_ID_MAIN_OTA_ASK_INFO
OtaAsk ==
    /\ ota_start_flag' = 1
    /\ UNCHANGED <<info, rgb_change_flag, task>>

Frame ==
    \/ \E switch \in {0, 1}, colour \in Colours : RgbFrame(switch, colour)
    \/ \E data0 \in 0 .. 2 : SwitchFrame(data0)

------------------------------------------------------------------------------
(* RGB_change_task *)

Poll ==
    /\ pc = "poll" /\ rgb_change_flag = 1 /\ ota_start_flag = 0
    /\ pc' = "clear"
    /\ UNCHANGED <<info, rgb_change_flag, ota_start_flag, loaded, loading, pin, light>>

\* rgb_change_flag = 0 comes before what the flag stands for is read.
FlagClearedLate == rgb_change_flag
FlagAfterClear == 0

Clear ==
    /\ pc = "clear"
    /\ rgb_change_flag' = FlagAfterClear /\ pc' = "pin"
    /\ UNCHANGED <<info, ota_start_flag, loaded, loading, pin, light>>

PowerLeds ==
    /\ pc = "pin"
    /\ pin' = 1 - RGB_switch /\ pc' = "load"
    /\ UNCHANGED <<info, rgb_change_flag, ota_start_flag, loaded, loading, light>>

\* The arguments of WS2812B_SetColor, in whatever order the compiler loads them.
Load(comp) ==
    /\ pc = "load" /\ comp \notin loaded
    /\ loading' = [loading EXCEPT ![comp] = RGB[comp]]
    /\ loaded' = loaded \cup {comp}
    /\ pc' = IF loaded' = Comps THEN "show" ELSE "load"
    /\ UNCHANGED <<info, rgb_change_flag, ota_start_flag, pin, light>>

\* WS2812B_Update takes more than a second; the task then polls again.
FlagClearedByShow == 0
FlagAfterShow == rgb_change_flag

Show ==
    /\ pc = "show"
    /\ light' = loading /\ loaded' = {} /\ pc' = "poll"
    /\ rgb_change_flag' = FlagAfterShow
    /\ UNCHANGED <<info, ota_start_flag, loading, pin>>

Task == Poll \/ Clear \/ PowerLeds \/ (\E comp \in Comps : Load(comp)) \/ Show

Next == Frame \/ OtaAsk \/ Task

Spec == Init /\ [][Next]_vars

\* The task gets the processor again and again.
FairSpec == Spec /\ WF_vars(Task)

------------------------------------------------------------------------------
(* Properties *)

TypeOK ==
    /\ RGB_switch \in {0, 1} /\ RGB \in Colours
    /\ rgb_change_flag \in {0, 1} /\ ota_start_flag \in {0, 1}
    /\ pc \in {"poll", "clear", "pin", "load", "show"}
    /\ loaded \subseteq Comps /\ loading \in Colours
    /\ pin \in {0, 1} /\ light \in Colours

Shown == light = RGB /\ pin = 1 - RGB_switch

\* Whatever frames interrupt RGB_change_task between its accesses, it never
\* goes back to sleep with the flag down and an outdated or mixed light: a frame
\* that was seen half or not at all has left the flag up (WS2812B.c:72-89).
LightIsLastCommand ==
    pc = "poll" /\ rgb_change_flag = 0 => Shown

\* Once the main board stops commanding, the LEDs show its last command, unless
\* an OTA request has stopped the task for good.
FramesStop == <>[][~Frame]_vars
LightSettles ==
    [](ota_start_flag = 0) /\ FramesStop => <>[]Shown

=============================================================================
