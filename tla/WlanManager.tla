---------------------------- MODULE WlanManager ----------------------------
(***************************************************************************)
(* SPARK_WLAN_Loop() of the one program thread, the flags and the watchdog *)
(* it shares with WLAN_Async_Callback() and the button (both called from   *)
(* interrupts), and the chip and the access point behind them.             *)
(***************************************************************************)
EXTENDS Integers, Sequences

CONSTANTS MaxChanges,   \* changes of the link and of the cloud's connection
          MaxAppCalls,  \* WiFi.on(), WiFi.off(), Spark.connect(), Spark.disconnect()
          MaxButtons,   \* long presses of the button
          MaxPending,   \* events the chip has not delivered
          MAX_FAILED_CONNECTS, ErrorWrap  \* config.h; 2^8 for Spark_Error_Count

ASSUME WlanAssumption ==
  /\ {MaxChanges, MaxAppCalls, MaxButtons, MaxPending} \subseteq Nat
  /\ MAX_FAILED_CONNECTS = 2 /\ ErrorWrap \in Nat /\ ErrorWrap > 3

VARIABLES
  pc, ret,                    \* the thread, and where Start_Smart_Config() returns to
  WLAN_CONNECTED, WLAN_DHCP, watchdog,
  SPARK_WLAN_STARTED, SPARK_WLAN_RESET, SPARK_WLAN_SLEEP, WLAN_MANUAL_CONNECT,
  SMART_START, SMART_STOP, SMART_FINISHED, SERIAL_DONE,   \* WLAN_SMART_CONFIG_*
  SPARK_CLOUD_CONNECT, SPARK_CLOUD_SOCKETED, SPARK_CLOUD_CONNECTED,
  SPARK_FLASH_UPDATE, Spark_Error_Count, cfod_count, appRan,
  profile,                    \* NVMEM: a profile is stored
  chipOn, link, peer, events, \* the chip: power, link, the cloud's end, events to come
  changes, appCalls, buttons, \* counters of the bounds
  late, excused               \* history, see Window and Watched

local   == <<ret, appRan>>
link_   == <<WLAN_CONNECTED, WLAN_DHCP>>
power   == <<SPARK_WLAN_STARTED, SPARK_WLAN_RESET, SPARK_WLAN_SLEEP>>
smart   == <<SMART_START, SMART_STOP, SMART_FINISHED, SERIAL_DONE>>
radio   == <<link_, watchdog, power, WLAN_MANUAL_CONNECT, smart>>
cloud   == <<SPARK_CLOUD_SOCKETED, SPARK_CLOUD_CONNECTED, SPARK_FLASH_UPDATE>>
errors  == <<Spark_Error_Count, cfod_count>>
online  == <<SPARK_CLOUD_CONNECT, cloud, errors>>
chip    == <<chipOn, link, peer, events>>
bounds  == <<changes, appCalls, buttons>>
outside == <<profile, chip, bounds>>
hist    == <<late, excused>>
vars    == <<pc, local, radio, online, outside, hist>>

Points == {"setup", "loop", "clear", "stop", "restart", "start", "config", "sc.clear",
           "sc.policy", "sc.wait", "sc.start", "mdns", "cloud", "blink", "dial", "dialed",
           "failed", "talk", "shaken", "comm", "prepare", "app"}
Events == {"CONNECT", "DISCONNECT", "DHCP", "NO_DHCP", "CONFIG_DONE", "CLOSE_WAIT"}

FlagsOK ==
  /\ WLAN_CONNECTED \in BOOLEAN /\ WLAN_DHCP \in BOOLEAN
  /\ watchdog \in {"clear", "armed", "due"}
  /\ SPARK_WLAN_STARTED \in BOOLEAN /\ SPARK_WLAN_RESET \in BOOLEAN
  /\ SPARK_WLAN_SLEEP \in BOOLEAN /\ WLAN_MANUAL_CONNECT \in BOOLEAN
  /\ SMART_START \in BOOLEAN /\ SMART_STOP \in BOOLEAN
  /\ SMART_FINISHED \in BOOLEAN /\ SERIAL_DONE \in BOOLEAN
CloudOK ==
  /\ SPARK_CLOUD_CONNECT \in BOOLEAN /\ SPARK_CLOUD_SOCKETED \in BOOLEAN
  /\ SPARK_CLOUD_CONNECTED \in BOOLEAN /\ SPARK_FLASH_UPDATE \in BOOLEAN
  /\ Spark_Error_Count \in 0..(ErrorWrap - 1)
  /\ cfod_count \in Nat
ChipOK ==
  /\ chipOn \in BOOLEAN /\ link \in {"none", "joined", "leased"} /\ peer \in BOOLEAN
  /\ events \in Seq(Events) /\ profile \in BOOLEAN
RestOK ==
  /\ pc \in Points /\ ret \in {"config", "mdns"} /\ appRan \in BOOLEAN
  /\ changes \in Nat /\ appCalls \in Nat /\ buttons \in Nat
  /\ late \in BOOLEAN /\ excused \in BOOLEAN

TypeOK == FlagsOK /\ CloudOK /\ ChipOK /\ RestOK

(* The state in which main() is entered, after power-up or a system reset. *)
Boot ==
  /\ pc = "setup" /\ ret = "mdns" /\ appRan = FALSE
  /\ WLAN_CONNECTED = FALSE /\ WLAN_DHCP = FALSE /\ watchdog = "clear"
  /\ SPARK_WLAN_STARTED = FALSE /\ SPARK_WLAN_RESET = FALSE /\ SPARK_WLAN_SLEEP = FALSE
  /\ SMART_START = FALSE /\ SMART_STOP = FALSE /\ SMART_FINISHED = FALSE
  /\ SERIAL_DONE = FALSE
  /\ SPARK_CLOUD_SOCKETED = FALSE /\ SPARK_CLOUD_CONNECTED = FALSE
  /\ SPARK_FLASH_UPDATE = FALSE /\ Spark_Error_Count = 0 /\ cfod_count = 0
  /\ chipOn = FALSE /\ link = "none" /\ peer = FALSE /\ events = << >>
  /\ late = FALSE /\ excused = FALSE

(* SPARK_CLOUD_CONNECT is cleared by a constructor (spark_disable_cloud.h) *)
(* or left set; WLAN_MANUAL_CONNECT is set by editing the source.          *)
Init ==
  /\ Boot
  /\ SPARK_CLOUD_CONNECT \in BOOLEAN /\ WLAN_MANUAL_CONNECT \in BOOLEAN
  /\ profile \in BOOLEAN /\ changes = 0 /\ appCalls = 0 /\ buttons = 0

-----------------------------------------------------------------------------
(* Between the clearing of the flags and wlan_stop() the chip still sends  *)
(* events; what they set is not cleared again.                             *)
Window == pc \in {"clear", "stop", "sc.policy", "sc.wait"}

NoLink   == WLAN_CONNECTED' = FALSE /\ WLAN_DHCP' = FALSE
NoCloud  ==
  /\ SPARK_CLOUD_SOCKETED' = FALSE /\ SPARK_CLOUD_CONNECTED' = FALSE
  /\ SPARK_FLASH_UPDATE' = FALSE
PowerOn  == chipOn' = TRUE /\ UNCHANGED <<link, peer, events>>
PowerOff == chipOn' = FALSE /\ link' = "none" /\ peer' = FALSE /\ events' = << >>

(* SPARK_WLAN_Setup(): without a profile smart config is asked for.        *)
Setup ==
  /\ pc = "setup" /\ pc' = "loop"
  /\ PowerOn /\ SPARK_WLAN_STARTED' = TRUE
  /\ SMART_START' = (SMART_START \/ (~WLAN_MANUAL_CONNECT /\ ~profile))
  /\ excused' = TRUE
  /\ UNCHANGED <<local, link_, watchdog, SPARK_WLAN_RESET, SPARK_WLAN_SLEEP,
                 WLAN_MANUAL_CONNECT, SMART_STOP, SMART_FINISHED, SERIAL_DONE,
                 online, profile, bounds, late>>

-----------------------------------------------------------------------------
(* SPARK_WLAN_Loop(): reset, stop and start of the chip.                   *)

(* Slip: the watchdog's deadline is not looked at.                         *)
DueUnlessSlow == SPARK_WLAN_RESET \/ SPARK_WLAN_SLEEP

Due == SPARK_WLAN_RESET \/ SPARK_WLAN_SLEEP \/ watchdog = "due"

ResetTimer ==
  /\ pc = "loop" /\ Due /\ SPARK_WLAN_STARTED
  /\ watchdog' = "clear" /\ late' = FALSE /\ pc' = "clear"
  /\ UNCHANGED <<local, link_, power, WLAN_MANUAL_CONNECT, smart, online, outside,
                 excused>>

Clearing ==
  /\ pc = "clear" /\ pc' = "stop"
  /\ SPARK_WLAN_STARTED' = FALSE /\ NoCloud /\ Spark_Error_Count' = 0 /\ cfod_count' = 0
  /\ UNCHANGED <<local, watchdog, SPARK_WLAN_SLEEP, WLAN_MANUAL_CONNECT, smart,
                 SPARK_CLOUD_CONNECT, outside, hist>>

(* Slips: the request, or what was known of the link, outlives the reset.  *)
ResetKeepsRequest == Clearing /\ NoLink /\ UNCHANGED SPARK_WLAN_RESET

ResetKeepsLink == Clearing /\ UNCHANGED link_ /\ SPARK_WLAN_RESET' = FALSE

ResetFlags == Clearing /\ NoLink /\ SPARK_WLAN_RESET' = FALSE

(* A manual connection that is still to be made is made right afterwards,  *)
(* by the stopped chip (522): it is counted among the late events.         *)
StopChip ==
  /\ pc = "stop" /\ pc' = (IF SMART_START THEN "restart" ELSE "config")
  /\ PowerOff
  /\ late' = (late \/ (WLAN_MANUAL_CONNECT /\ ~SMART_START))
  /\ UNCHANGED <<local, radio, online, profile, bounds, excused>>

Restart ==
  /\ pc = "restart" /\ pc' = "sc.clear" /\ ret' = "config"
  /\ PowerOn /\ SPARK_WLAN_STARTED' = TRUE /\ excused' = TRUE
  /\ UNCHANGED <<appRan, link_, watchdog, SPARK_WLAN_RESET, SPARK_WLAN_SLEEP,
                 WLAN_MANUAL_CONNECT, smart, online, profile, bounds, late>>

(* A watchdog that is due while the chip is off is never cleared.          *)
StayOff ==
  /\ pc = "loop" /\ Due /\ ~SPARK_WLAN_STARTED /\ pc' = "config"
  /\ UNCHANGED <<local, radio, online, outside, hist>>

NotDue ==
  /\ pc = "loop" /\ ~Due
  /\ watchdog' = (IF ~SPARK_WLAN_STARTED /\ ~WLAN_MANUAL_CONNECT THEN "armed" ELSE watchdog)
  /\ excused' = (IF SPARK_WLAN_STARTED THEN excused ELSE WLAN_MANUAL_CONNECT)
  /\ pc' = IF SPARK_WLAN_STARTED THEN "config" ELSE "start"
  /\ UNCHANGED <<local, link_, power, WLAN_MANUAL_CONNECT, smart, online, outside,
                 late>>

Start ==
  /\ pc = "start" /\ pc' = "config"
  /\ PowerOn /\ SPARK_WLAN_STARTED' = TRUE
  /\ UNCHANGED <<local, link_, watchdog, SPARK_WLAN_RESET, SPARK_WLAN_SLEEP,
                 WLAN_MANUAL_CONNECT, smart, online, profile, bounds, hist>>

-----------------------------------------------------------------------------
(* ... smart config, the manual connection, mDNS.                          *)

Config ==
  /\ pc = "config" /\ ret' = "mdns"
  /\ LET manual == ~SMART_START /\ WLAN_MANUAL_CONNECT /\ ~WLAN_DHCP IN
     /\ pc' = (IF SMART_START THEN "sc.clear" ELSE "mdns")
     /\ manual => chipOn
     /\ watchdog' = (IF manual THEN "clear" ELSE watchdog)
     /\ WLAN_MANUAL_CONNECT' = (WLAN_MANUAL_CONNECT /\ ~manual)
     /\ excused' = (excused \/ manual)
  /\ UNCHANGED <<appRan, link_, power, smart, online, outside, late>>

(* Start_Smart_Config(): "Wait until CC3000 is disconnected" (200) finds   *)
(* WLAN_CONNECTED cleared by itself.                                       *)
ScClear ==
  /\ pc = "sc.clear" /\ pc' = "sc.policy"
  /\ SMART_FINISHED' = FALSE /\ SMART_STOP' = FALSE /\ SERIAL_DONE' = FALSE
  /\ NoLink /\ NoCloud /\ excused' = TRUE
  /\ UNCHANGED <<local, watchdog, power, WLAN_MANUAL_CONNECT, SMART_START,
                 SPARK_CLOUD_CONNECT, errors, outside, late>>

ScBegin ==
  /\ pc = "sc.policy" /\ chipOn /\ ~WLAN_CONNECTED /\ pc' = "sc.wait"
  /\ UNCHANGED <<local, radio, online, outside, hist>>

(* wifi_add_profile_callback(), from the serial line.                      *)
SerialConfig ==
  /\ pc = "sc.wait" /\ ~SERIAL_DONE /\ SERIAL_DONE' = TRUE
  /\ UNCHANGED <<pc, local, link_, watchdog, power, WLAN_MANUAL_CONNECT,
                 SMART_START, SMART_STOP, SMART_FINISHED, online, outside, hist>>

(* A profile index of -1 is stored as 255 + 1, that is, as no profile.     *)
ScEnd ==
  /\ pc = "sc.wait" /\ (SMART_FINISHED \/ SERIAL_DONE) /\ pc' = "sc.start"
  /\ profile' \in BOOLEAN
  /\ PowerOff
  /\ UNCHANGED <<local, radio, online, bounds, hist>>

ScStart ==
  /\ pc = "sc.start" /\ pc' = ret /\ ret' = "mdns"
  /\ PowerOn /\ SPARK_WLAN_STARTED' = TRUE /\ SMART_START' = FALSE
  /\ excused' = TRUE
  /\ UNCHANGED <<appRan, link_, watchdog, SPARK_WLAN_RESET, SPARK_WLAN_SLEEP,
                 WLAN_MANUAL_CONNECT, SMART_STOP, SMART_FINISHED, SERIAL_DONE,
                 online, profile, bounds, late>>

Advertise ==
  /\ pc = "mdns" /\ pc' = "cloud"
  /\ LET send == SMART_STOP /\ WLAN_DHCP /\ WLAN_CONNECTED IN
     /\ send => chipOn
     /\ SMART_STOP' = (SMART_STOP /\ ~send)
  /\ UNCHANGED <<local, link_, watchdog, power, WLAN_MANUAL_CONNECT, SMART_START,
                 SMART_FINISHED, SERIAL_DONE, online, outside, hist>>

-----------------------------------------------------------------------------
(* ... and the cloud.                                                      *)

CloudOff ==
  /\ pc = "cloud" /\ ~SPARK_CLOUD_CONNECT /\ pc' = "app"
  /\ IF SPARK_CLOUD_SOCKETED \/ SPARK_CLOUD_CONNECTED
       THEN chipOn /\ NoCloud /\ peer' = FALSE
       ELSE UNCHANGED <<cloud, peer>>
  /\ UNCHANGED <<local, radio, SPARK_CLOUD_CONNECT, errors, profile, chipOn, link,
                 events, bounds, hist>>

CloudOn ==
  /\ pc = "cloud" /\ SPARK_CLOUD_CONNECT
  /\ pc' = (IF ~(WLAN_DHCP /\ ~SPARK_WLAN_SLEEP /\ ~SPARK_CLOUD_SOCKETED) THEN "talk"
            ELSE IF Spark_Error_Count # 0 THEN "blink" ELSE "dial")
  /\ UNCHANGED <<local, radio, online, outside, hist>>

(* Spark_Error_Count-- a second after it was found not to be 0: a          *)
(* disconnect that clears it in between makes it wrap.                     *)
Blinking(count) ==
  /\ pc = "blink" /\ Spark_Error_Count' = count
  /\ pc' = IF count # 0 THEN "blink" ELSE "dial"
  /\ UNCHANGED <<local, radio, SPARK_CLOUD_CONNECT, cloud, cfod_count, outside, hist>>

(* Slip: the count of blinks passes zero as if it were signed.             *)
BlinkSigned == Blinking(Spark_Error_Count - 1)

Blink == Blinking((Spark_Error_Count + ErrorWrap - 1) % ErrorWrap)

(* Spark_Connect(): the old socket is closed, a new one connected.         *)
Dial ==
  /\ pc = "dial" /\ chipOn
  /\ peer' \in {FALSE, link = "leased"}
  /\ pc' = IF peer' THEN "dialed" ELSE "failed"
  /\ UNCHANGED <<local, radio, online, profile, chipOn, link, events, bounds, hist>>

Dialed ==
  /\ pc = "dialed" /\ pc' = "talk"
  /\ SPARK_CLOUD_SOCKETED' = TRUE /\ cfod_count' = 0
  /\ UNCHANGED <<local, radio, SPARK_CLOUD_CONNECT, SPARK_CLOUD_CONNECTED,
                 SPARK_FLASH_UPDATE, Spark_Error_Count, outside, hist>>

(* A failed connect counts once, a failed Internet_Test() once more. The   *)
(* return at 610 is never taken: nothing else sets SPARK_WLAN_RESET.       *)
Failing ==
  /\ pc = "failed" /\ chipOn /\ pc' = "talk" /\ SPARK_CLOUD_SOCKETED' = FALSE
  /\ \E internet \in BOOLEAN :
       /\ cfod_count' = cfod_count + (IF internet THEN 1 ELSE 2)
       /\ Spark_Error_Count' = IF internet THEN 3 ELSE 2
  /\ UNCHANGED <<local, link_, watchdog, SPARK_WLAN_STARTED, SPARK_WLAN_SLEEP,
                 WLAN_MANUAL_CONNECT, smart, SPARK_CLOUD_CONNECT,
                 SPARK_CLOUD_CONNECTED, SPARK_FLASH_UPDATE, outside, hist>>

(* Slip: the second count, which the reset waits for, is not looked at.    *)
FailedOnce ==
  Failing /\ SPARK_WLAN_RESET' = (SPARK_WLAN_RESET \/ cfod_count' = MAX_FAILED_CONNECTS)

Failed ==
  /\ Failing
  /\ SPARK_WLAN_RESET' =
       (SPARK_WLAN_RESET \/ MAX_FAILED_CONNECTS \in cfod_count + 1 .. cfod_count')

(* Spark_Handshake(), and what a success is followed by.                   *)
Talk ==
  /\ pc = "talk"
  /\ IF ~SPARK_CLOUD_SOCKETED THEN pc' = "app"
     ELSE IF SPARK_CLOUD_CONNECTED THEN pc' = "comm"
     ELSE chipOn /\ \/ pc' = "comm"
                    \/ peer /\ pc' = "shaken"
  /\ UNCHANGED <<local, radio, online, outside, hist>>

Shaken ==
  /\ pc = "shaken" /\ pc' = "comm" /\ SPARK_CLOUD_CONNECTED' = TRUE
  /\ UNCHANGED <<local, radio, SPARK_CLOUD_CONNECT, SPARK_CLOUD_SOCKETED,
                 SPARK_FLASH_UPDATE, errors, outside, hist>>

(* Spark_Communication_Loop(): nothing to report, an update that begins,   *)
(* or a failure.                                                           *)
CommFine ==
  /\ pc = "comm" /\ chipOn
  /\ \/ pc' = "app"
     \/ pc' = "prepare" /\ SPARK_CLOUD_CONNECTED
  /\ UNCHANGED <<local, radio, online, outside, hist>>

Failure ==
  /\ pc = "comm" /\ chipOn /\ pc' = "app"
  /\ SPARK_CLOUD_CONNECTED' = FALSE /\ SPARK_FLASH_UPDATE' = FALSE
  /\ UNCHANGED <<local, radio, SPARK_CLOUD_CONNECT, errors, outside, hist>>

(* Slip: the socket is still taken for open after the connection failed.   *)
CommFailsHalf == Failure /\ UNCHANGED SPARK_CLOUD_SOCKETED

CommFails == Failure /\ SPARK_CLOUD_SOCKETED' = FALSE

(* Spark_Prepare_For_Firmware_Update(), then "update ready" is sent.       *)
Prepare ==
  /\ pc = "prepare" /\ pc' = "app"
  /\ \/ SPARK_FLASH_UPDATE' = TRUE
        /\ UNCHANGED <<SPARK_CLOUD_SOCKETED, SPARK_CLOUD_CONNECTED>>
     \/ NoCloud
  /\ UNCHANGED <<local, radio, SPARK_CLOUD_CONNECT, errors, outside, hist>>

-----------------------------------------------------------------------------
(* main(): the application runs or not, and may use WiFi and Spark.        *)

MayRun ==
  /\ SPARK_WLAN_SLEEP \/ ~SPARK_CLOUD_CONNECT \/ SPARK_CLOUD_CONNECTED \/ appRan
  /\ ~SPARK_FLASH_UPDATE

Application ==
  /\ pc = "app" /\ pc' = "loop"
  /\ appRan' = (appRan \/ MayRun)
  /\ UNCHANGED <<ret, radio, online, outside, hist>>

AppCall ==
  /\ pc = "app" /\ MayRun /\ appCalls < MaxAppCalls
  /\ appCalls' = appCalls + 1 /\ appRan' = TRUE
  /\ \/ SPARK_WLAN_SLEEP' = ~SPARK_WLAN_SLEEP /\ UNCHANGED SPARK_CLOUD_CONNECT
     \/ SPARK_CLOUD_CONNECT' = ~SPARK_CLOUD_CONNECT /\ UNCHANGED SPARK_WLAN_SLEEP
  /\ UNCHANGED <<pc, ret, link_, watchdog, SPARK_WLAN_STARTED, SPARK_WLAN_RESET,
                 WLAN_MANUAL_CONNECT, smart, cloud, errors, profile, chip,
                 changes, buttons, hist>>

-----------------------------------------------------------------------------
(* Interrupts: WLAN_Async_Callback(), the tick, the button.                *)

Taken == events # << >> /\ events' = Tail(events)

OnConnect ==
  /\ Taken /\ Head(events) = "CONNECT"
  /\ WLAN_CONNECTED' = TRUE /\ watchdog' = "armed"
  /\ late' = (late \/ Window) /\ excused' = FALSE
  /\ UNCHANGED <<pc, local, WLAN_DHCP, power, WLAN_MANUAL_CONNECT, smart, online,
                 profile, chipOn, link, peer, bounds>>

Disconnecting ==
  /\ Taken /\ Head(events) = "DISCONNECT"
  /\ WLAN_CONNECTED' = FALSE /\ NoCloud /\ Spark_Error_Count' = 0
  /\ late' = (late \/ (Window /\ WLAN_CONNECTED))
  /\ excused' = (excused /\ ~WLAN_CONNECTED)
  /\ UNCHANGED <<pc, local, power, WLAN_MANUAL_CONNECT, smart, SPARK_CLOUD_CONNECT,
                 cfod_count, profile, chipOn, link, peer, bounds>>

ArmIfConnected == watchdog' = IF WLAN_CONNECTED THEN "armed" ELSE watchdog

(* Slips: a disconnect does not arm the watchdog, or keeps the address.    *)
DisconnectUnwatched == Disconnecting /\ WLAN_DHCP' = FALSE /\ UNCHANGED watchdog

DisconnectKeepsLease == Disconnecting /\ ArmIfConnected /\ UNCHANGED WLAN_DHCP

OnDisconnect == Disconnecting /\ ArmIfConnected /\ WLAN_DHCP' = FALSE

OnDhcp ==
  /\ Taken /\ Head(events) \in {"DHCP", "NO_DHCP"}
  /\ WLAN_DHCP' = (Head(events) = "DHCP")
  /\ watchdog' = (IF WLAN_DHCP' THEN "clear" ELSE watchdog)
  /\ late' = (late \/ (Window /\ WLAN_DHCP'))
  /\ excused' = (IF WLAN_DHCP' THEN ~WLAN_CONNECTED ELSE excused \/ watchdog = "clear")
  /\ UNCHANGED <<pc, local, WLAN_CONNECTED, power, WLAN_MANUAL_CONNECT, smart,
                 online, profile, chipOn, link, peer, bounds>>

OnConfigDone ==
  /\ Taken /\ Head(events) = "CONFIG_DONE"
  /\ SMART_FINISHED' = TRUE /\ SMART_STOP' = TRUE /\ WLAN_MANUAL_CONNECT' = FALSE
  /\ UNCHANGED <<pc, local, link_, watchdog, power, SMART_START, SERIAL_DONE,
                 online, profile, chipOn, link, peer, bounds, hist>>

(* The close of sparkSocket, or of a connection before it, which the host  *)
(* had closed itself and whose handle it may hold again or not: the newer  *)
(* one is still up, or its end was reported later.                         *)
OnCloseWait ==
  /\ Taken /\ Head(events) = "CLOSE_WAIT"
  /\ \/ NoCloud
     \/ /\ peer \/ \E i \in 2..Len(events) :
                     events[i] \in {"CLOSE_WAIT", "NO_DHCP", "DISCONNECT"}
        /\ UNCHANGED cloud
  /\ UNCHANGED <<pc, local, radio, SPARK_CLOUD_CONNECT, errors, profile, chipOn,
                 link, peer, bounds, hist>>

Callback == OnConnect \/ OnDisconnect \/ OnDhcp \/ OnConfigDone \/ OnCloseWait

(* The 30 seconds are over: millis() >= wlan_watchdog.                     *)
Elapse ==
  /\ watchdog = "armed" /\ watchdog' = "due"
  /\ UNCHANGED <<pc, local, link_, power, WLAN_MANUAL_CONNECT, smart, online,
                 outside, hist>>

(* Timing_Decrement(): three seconds on the button.                        *)
Button ==
  /\ buttons < MaxButtons /\ buttons' = buttons + 1
  /\ ~SPARK_WLAN_SLEEP /\ ~SPARK_FLASH_UPDATE /\ ~SMART_START
  /\ SMART_START' = TRUE
  /\ late' = (late \/ (~chipOn /\ pc # "setup"))
  /\ UNCHANGED <<pc, local, link_, watchdog, power, WLAN_MANUAL_CONNECT,
                 SMART_STOP, SMART_FINISHED, SERIAL_DONE, online, profile, chip,
                 changes, appCalls, excused>>

(* NVIC_SystemReset(): an update that is stuck, or done (FLASH_End()).     *)
SystemReset ==
  /\ SPARK_FLASH_UPDATE /\ ~SPARK_WLAN_SLEEP
  /\ pc' = "setup" /\ ret' = "mdns" /\ appRan' = FALSE
  /\ WLAN_CONNECTED' = FALSE /\ WLAN_DHCP' = FALSE /\ watchdog' = "clear"
  /\ SPARK_WLAN_STARTED' = FALSE /\ SPARK_WLAN_RESET' = FALSE /\ SPARK_WLAN_SLEEP' = FALSE
  /\ SMART_START' = FALSE /\ SMART_STOP' = FALSE /\ SMART_FINISHED' = FALSE
  /\ SERIAL_DONE' = FALSE /\ NoCloud /\ Spark_Error_Count' = 0 /\ cfod_count' = 0
  /\ PowerOff /\ late' = FALSE /\ excused' = FALSE
  /\ SPARK_CLOUD_CONNECT' \in BOOLEAN /\ WLAN_MANUAL_CONNECT' \in BOOLEAN
  /\ UNCHANGED <<profile, bounds>>

-----------------------------------------------------------------------------
(* The chip, the access point and the cloud's server.                      *)

Change(e) ==
  /\ chipOn /\ changes < MaxChanges /\ Len(events) < MaxPending
  /\ changes' = changes + 1 /\ events' = Append(events, e)
  /\ UNCHANGED <<pc, local, radio, online, profile, chipOn, appCalls, buttons, hist>>

Join   == link = "none" /\ link' = "joined" /\ UNCHANGED peer /\ Change("CONNECT")
Lease  == link = "joined" /\ link' = "leased" /\ UNCHANGED peer /\ Change("DHCP")
Refuse == link # "none" /\ link' = "joined" /\ peer' = FALSE /\ Change("NO_DHCP")
Leave  == link # "none" /\ link' = "none" /\ peer' = FALSE /\ Change("DISCONNECT")
Told   == pc = "sc.wait" /\ UNCHANGED <<link, peer>> /\ Change("CONFIG_DONE")
Hangup == peer /\ peer' = FALSE /\ UNCHANGED link /\ Change("CLOSE_WAIT")

World == Join \/ Lease \/ Refuse \/ Leave \/ Told \/ Hangup

Reset       == ResetTimer \/ ResetFlags \/ StopChip \/ Restart \/ StayOff \/ NotDue \/ Start
SmartConfig == Config \/ ScClear \/ ScBegin \/ ScEnd \/ ScStart \/ Advertise
Cloud       == CloudOff \/ CloudOn \/ Blink \/ Dial \/ Dialed \/ Failed \/ Talk \/ Shaken
               \/ CommFine \/ CommFails \/ Prepare
Thread      == Setup \/ Reset \/ SmartConfig \/ Cloud \/ Application

Next ==
  \/ Thread \/ AppCall \/ SerialConfig \/ Callback \/ Elapse \/ Button \/ SystemReset
  \/ World

(* The thread runs and its calls return (Cc3000Driver), interrupts are     *)
(* served, time passes, and event_loop() fails in the end when there is    *)
(* nobody at the other end (it pings).                                     *)
Spec ==
  /\ Init /\ [][Next]_vars
  /\ WF_vars(Thread) /\ WF_vars(Callback) /\ WF_vars(Elapse)
  /\ SF_vars(~peer /\ CommFails)

-----------------------------------------------------------------------------
(* Nobody waits for an address unwatched: while the chip runs and has no   *)
(* address, so does the watchdog, whatever order the events came in. The   *)
(* exceptions ("excused"): the starts of SPARK_WLAN_Setup() and of smart   *)
(* config, which do not arm it, up to the first connection; a lease that   *)
(* is refused after the watchdog was cleared, or given while the flag of   *)
(* the connection is cleared by smart config; a manual connection (522).   *)
SmartPoints == {"sc.policy", "sc.wait", "sc.start"}

Watched ==
  chipOn /\ ~WLAN_DHCP =>
    watchdog # "clear" \/ excused \/ pc \in SmartPoints \union {"clear", "stop"}

(* WLAN_DHCP as it will be when the events of s have been handled.         *)
LeaseEvents == {"DHCP", "NO_DHCP", "DISCONNECT"}
After(dhcp, s) ==
  \/ dhcp /\ \A i \in 1..Len(s) : s[i] \notin LeaseEvents
  \/ \E i \in 1..Len(s) :
       s[i] = "DHCP" /\ \A j \in 1..Len(s) : j > i => s[j] \notin LeaseEvents
DhcpAfter == After(WLAN_DHCP, events)

(* The flag follows the link: once the events under way are handled,       *)
(* WLAN_DHCP is set exactly if the chip has an address, over stops, starts *)
(* and disconnects in any order; late events apart (see Window), and but   *)
(* for smart config, which clears the flag of a chip that is connected.    *)
FlagFollowsLink ==
  /\ DhcpAfter => late \/ link = "leased" \/ pc = "clear"
  /\ link = "leased" => DhcpAfter \/ pc \in SmartPoints \/ pc = "stop"

(* Failing connects end in a reset: cfod_count does not run past the limit *)
(* it is compared with by "==" twice (615, 624).                           *)
FailuresReset == cfod_count >= MAX_FAILED_CONNECTS => SPARK_WLAN_RESET

(* The thread is about to send the chip a command.                         *)
Commands ==
  \/ pc \in {"sc.policy", "sc.wait", "dial", "failed", "comm"}
  \/ pc = "config" /\ ~SMART_START /\ WLAN_MANUAL_CONNECT /\ ~WLAN_DHCP
  \/ pc = "mdns" /\ WLAN_DHCP /\ ((SMART_STOP /\ WLAN_CONNECTED) \/ ~SPARK_WLAN_SLEEP)
  \/ pc = "cloud" /\ ~SPARK_CLOUD_CONNECT /\ (SPARK_CLOUD_SOCKETED \/ SPARK_CLOUD_CONNECTED)
  \/ pc = "talk" /\ SPARK_CLOUD_SOCKETED

(* No command is sent to a chip that is off: wlan_stop() has taken the     *)
(* command buffer away, and SpiWrite() would wait for ever.                *)
OnlyToRunningChip == Commands => chipOn \/ late

(* A watchdog that runs acts or is called off: an address or a restart     *)
(* follows, once the link no longer changes, unless smart config waits     *)
(* for its user.                                                           *)
WatchdogActs ==
  watchdog # "clear" /\ SPARK_WLAN_STARTED
    ~> watchdog = "clear" \/ pc \in SmartPoints \/ late

(* WiFi.on(), or a reset, starts the chip again.                           *)
Revives == ~SPARK_WLAN_STARTED /\ ~SPARK_WLAN_SLEEP ~> SPARK_WLAN_STARTED \/ SPARK_WLAN_SLEEP \/ late

(* A connection the cloud's server is no longer at the end of is given up, *)
(* also when the news came while it was being set up.                      *)
CloudGivenUp == SPARK_CLOUD_SOCKETED /\ ~peer ~> ~SPARK_CLOUD_SOCKETED \/ peer \/ late
=============================================================================
