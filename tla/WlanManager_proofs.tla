------------------------- MODULE WlanManager_proofs -------------------------
(***************************************************************************)
(* Proofs about WlanManager: types, the end of failing connects, the       *)
(* watchdog over a chip without an address, the address flag and the link, *)
(* that a chip that is off is sent no command, and the end of every turn.  *)
(***************************************************************************)
EXTENDS WlanManager, SequenceTheorems, TLAPS

(* Types: the initial state.                                               *)
LEMMA TypesInit == Init => TypeOK
<1> SUFFICES ASSUME Init PROVE TypeOK
  OBVIOUS
<1>1. FlagsOK
  BY DEF Init, Boot, FlagsOK
<1>2. Spark_Error_Count \in 0..(ErrorWrap - 1) /\ cfod_count \in Nat
  BY WlanAssumption DEF Init, Boot
<1>3. CloudOK
  BY <1>2 DEF Init, Boot, CloudOK
<1>4. events \in Seq(Events)
  BY DEF Init, Boot
<1>5. ChipOK
  BY <1>4 DEF Init, Boot, ChipOK
<1>6. RestOK
  BY DEF Init, Boot, RestOK, Points
<1> QED
  BY <1>1, <1>3, <1>5, <1>6 DEF TypeOK

(* Every step keeps the types of the flags.                                 *)
LEMMA FlagsStep ==
  ASSUME TypeOK, [Next]_vars
  PROVE  FlagsOK'
<1> USE DEF TypeOK, FlagsOK
<1>1. CASE StopChip \/ StayOff \/ ScBegin \/ ScEnd \/ CloudOff \/ CloudOn \/ Blink
           \/ Dial \/ Dialed \/ Talk \/ Shaken \/ CommFine \/ CommFails \/ Prepare
           \/ Application \/ OnCloseWait \/ World
  <2>1. UNCHANGED <<radio>>
    BY <1>1 DEF StopChip, StayOff, ScBegin, ScEnd, CloudOff, CloudOn, Blink, Blinking,
                Dial, Dialed, Talk, Shaken, CommFine, CommFails, Failure, Prepare,
                Application, OnCloseWait, World, Join, Lease, Refuse, Leave, Told,
                Hangup, Change
  <2> QED
    BY <2>1 DEF link_, power, radio, smart
<1>2. CASE Setup
  BY <1>2 DEF Setup, PowerOn, link_
<1>3. CASE ResetTimer
  BY <1>3 DEF ResetTimer, Due, link_, power, smart
<1>4. CASE ResetFlags
  BY <1>4 DEF ResetFlags, Clearing, NoLink, NoCloud, smart
<1>5. CASE Restart
  BY <1>5 DEF Restart, PowerOn, link_, smart
<1>6. CASE NotDue
  BY <1>6 DEF NotDue, Due, link_, power, smart
<1>7. CASE Start
  BY <1>7 DEF Start, PowerOn, link_, smart
<1>8. CASE Config
  BY <1>8 DEF Config, link_, power, smart
<1>9. CASE ScClear
  BY <1>9 DEF ScClear, NoLink, NoCloud, power
<1>10. CASE ScStart
  BY <1>10 DEF ScStart, PowerOn, link_
<1>11. CASE Advertise
  BY <1>11 DEF Advertise, link_, power
<1>12. CASE Failed
  <2>1. SPARK_WLAN_RESET' \in BOOLEAN
    BY <1>12 DEF Failed
  <2> QED
    BY <1>12, <2>1 DEF Failed, Failing, link_, smart
<1>13. CASE AppCall
  <2>1. SPARK_WLAN_SLEEP' \in BOOLEAN
    BY <1>13 DEF AppCall
  <2>2. UNCHANGED <<link_, watchdog, SPARK_WLAN_STARTED, SPARK_WLAN_RESET,
                    WLAN_MANUAL_CONNECT, smart>>
    BY <1>13 DEF AppCall
  <2> QED
    BY <2>1, <2>2 DEF link_, smart
<1>14. CASE SerialConfig
  BY <1>14 DEF SerialConfig, link_, power
<1>15. CASE OnConnect
  BY <1>15 DEF OnConnect, Taken, power, smart
<1>16. CASE OnDisconnect
  BY <1>16 DEF OnDisconnect, Disconnecting, ArmIfConnected, NoCloud, Taken, power,
               smart
<1>17. CASE OnDhcp
  BY <1>17 DEF OnDhcp, Taken, power, smart
<1>18. CASE OnConfigDone
  BY <1>18 DEF OnConfigDone, Taken, link_, power
<1>19. CASE Elapse
  BY <1>19 DEF Elapse, link_, power, smart
<1>20. CASE Button
  BY <1>20 DEF Button, link_, power
<1>21. CASE SystemReset
  BY <1>21 DEF SystemReset, NoCloud, PowerOff
<1>22. CASE UNCHANGED vars
  BY <1>22 DEF vars, link_, power, smart, radio
<1> QED
  BY <1>1, <1>2, <1>3, <1>4, <1>5, <1>6, <1>7, <1>8, <1>9, <1>10, <1>11, <1>12, <1>13,
     <1>14, <1>15, <1>16, <1>17, <1>18, <1>19, <1>20, <1>21, <1>22
     DEF Next, Thread, Reset, SmartConfig, Cloud, Callback

(* ... of the cloud's variables; Spark_Error_Count stays below 2^8.         *)
LEMMA CloudStep ==
  ASSUME TypeOK, [Next]_vars
  PROVE  CloudOK'
<1> USE DEF TypeOK, CloudOK
<1>1. CASE Setup \/ ResetTimer \/ StopChip \/ Restart \/ StayOff \/ NotDue \/ Start
           \/ Config \/ ScBegin \/ ScEnd \/ ScStart \/ Advertise \/ CloudOn \/ Dial
           \/ Talk \/ CommFine \/ Application \/ SerialConfig \/ OnConnect \/ OnDhcp
           \/ OnConfigDone \/ Elapse \/ Button \/ World
  <2>1. UNCHANGED <<online>>
    BY <1>1 DEF Setup, ResetTimer, StopChip, Restart, StayOff, NotDue, Start, Config,
                ScBegin, ScEnd, ScStart, Advertise, CloudOn, Dial, Talk, CommFine,
                Application, SerialConfig, OnConnect, OnDhcp, OnConfigDone, Elapse,
                Button, World, Join, Lease, Refuse, Leave, Told, Hangup, Change
  <2> QED
    BY <2>1 DEF cloud, errors, online
<1>2. CASE ResetFlags
  <2>1. Spark_Error_Count' \in 0..(ErrorWrap - 1) /\ cfod_count' \in Nat
    BY <1>2, WlanAssumption DEF ResetFlags, Clearing
  <2> QED
    BY <1>2, <2>1 DEF ResetFlags, Clearing, NoCloud
<1>3. CASE ScClear
  BY <1>3 DEF ScClear, NoLink, NoCloud, errors
<1>4. CASE CloudOff
  BY <1>4 DEF CloudOff, NoCloud, cloud, errors
<1>5. CASE Blink
  <2>1. Spark_Error_Count' \in 0..(ErrorWrap - 1) /\ cfod_count' \in Nat
    BY <1>5, WlanAssumption DEF Blink, Blinking
  <2> QED
    BY <1>5, <2>1 DEF Blink, Blinking, cloud
<1>6. CASE Dialed
  BY <1>6 DEF Dialed
<1>7. CASE Failed
  <2>1. Spark_Error_Count' \in 0..(ErrorWrap - 1) /\ cfod_count' \in Nat
    BY <1>7, WlanAssumption DEF Failed, Failing
  <2> QED
    BY <1>7, <2>1 DEF Failed, Failing
<1>8. CASE Shaken
  BY <1>8 DEF Shaken, errors
<1>9. CASE CommFails
  BY <1>9 DEF CommFails, Failure, errors
<1>10. CASE Prepare
  BY <1>10 DEF Prepare, NoCloud, errors
<1>11. CASE AppCall
  BY <1>11 DEF AppCall, cloud, errors
<1>12. CASE OnDisconnect
  <2>1. Spark_Error_Count' \in 0..(ErrorWrap - 1) /\ cfod_count' \in Nat
    BY <1>12, WlanAssumption DEF OnDisconnect, Disconnecting
  <2> QED
    BY <1>12, <2>1 DEF OnDisconnect, Disconnecting, NoCloud
<1>13. CASE OnCloseWait
  BY <1>13 DEF OnCloseWait, NoCloud, cloud, Taken, errors
<1>14. CASE SystemReset
  <2>1. Spark_Error_Count' \in 0..(ErrorWrap - 1) /\ cfod_count' \in Nat
    BY <1>14, WlanAssumption DEF SystemReset
  <2> QED
    BY <1>14, <2>1 DEF SystemReset, NoCloud
<1>15. CASE UNCHANGED vars
  BY <1>15 DEF vars, cloud, errors, online
<1> QED
  BY <1>1, <1>2, <1>3, <1>4, <1>5, <1>6, <1>7, <1>8, <1>9, <1>10, <1>11, <1>12, <1>13,
     <1>14, <1>15
     DEF Next, Thread, Reset, SmartConfig, Cloud, Callback

(* ... of the chip: only events are queued.                                 *)
LEMMA ChipStep ==
  ASSUME TypeOK, [Next]_vars
  PROVE  ChipOK'
<1> USE DEF TypeOK, ChipOK
<1>1. CASE ResetTimer \/ ResetFlags \/ StayOff \/ NotDue \/ Config \/ ScClear
           \/ ScBegin \/ Advertise \/ CloudOn \/ Blink \/ Dialed \/ Failed \/ Talk
           \/ Shaken \/ CommFine \/ CommFails \/ Prepare \/ Application \/ AppCall
           \/ SerialConfig \/ Elapse \/ Button
  <2>1. UNCHANGED <<chip, profile>>
    BY <1>1 DEF ResetTimer, ResetFlags, Clearing, StayOff, NotDue, Config, ScClear,
                ScBegin, Advertise, CloudOn, Blink, Blinking, Dialed, Failed, Failing,
                Talk, Shaken, CommFine, CommFails, Failure, Prepare, Application,
                AppCall, SerialConfig, Elapse, Button, outside
  <2> QED
    BY <2>1 DEF chip
<1>2. CASE Setup
  BY <1>2 DEF Setup, PowerOn
<1>3. CASE StopChip
  <2>1. events' \in Seq(Events)
    BY <1>3 DEF StopChip, PowerOff
  <2> QED
    BY <1>3, <2>1 DEF StopChip, PowerOff
<1>4. CASE Restart
  BY <1>4 DEF Restart, PowerOn
<1>5. CASE Start
  BY <1>5 DEF Start, PowerOn
<1>6. CASE ScEnd
  <2>1. events' \in Seq(Events)
    BY <1>6 DEF ScEnd, PowerOff
  <2> QED
    BY <1>6, <2>1 DEF ScEnd, PowerOff
<1>7. CASE ScStart
  BY <1>7 DEF ScStart, PowerOn
<1>8. CASE CloudOff
  BY <1>8 DEF CloudOff, NoCloud
<1>9. CASE Dial
  <2>1. peer' \in BOOLEAN
    BY <1>9 DEF Dial
  <2> QED
    BY <1>9, <2>1 DEF Dial
<1>10. CASE OnConnect
  BY <1>10 DEF OnConnect, Taken
<1>11. CASE OnDisconnect
  BY <1>11 DEF OnDisconnect, Disconnecting, ArmIfConnected, NoCloud, Taken
<1>12. CASE OnDhcp
  BY <1>12 DEF OnDhcp, Taken
<1>13. CASE OnConfigDone
  BY <1>13 DEF OnConfigDone, Taken
<1>14. CASE OnCloseWait
  BY <1>14 DEF OnCloseWait, NoCloud, Taken
<1>15. CASE SystemReset
  <2>1. events' \in Seq(Events)
    BY <1>15 DEF SystemReset, PowerOff
  <2> QED
    BY <1>15, <2>1 DEF SystemReset, PowerOff
<1>16. CASE World
  <2>1. \E e \in Events : events' = Append(events, e)
    BY <1>16 DEF World, Join, Lease, Refuse, Leave, Told, Hangup, Change, Events
  <2>2. events' \in Seq(Events)
    BY <2>1
  <2>3. UNCHANGED <<chipOn, profile>> /\ peer' \in BOOLEAN
    BY <1>16 DEF World, Join, Lease, Refuse, Leave, Told, Hangup, Change
  <2> QED
    BY <1>16, <2>2, <2>3 DEF World, Join, Lease, Refuse, Leave, Told, Hangup, Change
<1>17. CASE UNCHANGED vars
  BY <1>17 DEF vars, chip, outside
<1> QED
  BY <1>1, <1>2, <1>3, <1>4, <1>5, <1>6, <1>7, <1>8, <1>9, <1>10, <1>11, <1>12, <1>13,
     <1>14, <1>15, <1>16, <1>17
     DEF Next, Thread, Reset, SmartConfig, Cloud, Callback

(* ... and of what is left.                                                 *)
LEMMA RestStep ==
  ASSUME TypeOK, [Next]_vars
  PROVE  RestOK'
<1> USE DEF TypeOK, RestOK, Points
<1>1. CASE SerialConfig \/ OnConfigDone \/ OnCloseWait \/ Elapse
  <2>1. UNCHANGED <<pc, local, bounds, hist>>
    BY <1>1 DEF SerialConfig, OnConfigDone, OnCloseWait, Elapse, outside
  <2> QED
    BY <2>1 DEF bounds, hist, local
<1>2. CASE Setup
  BY <1>2 DEF Setup, PowerOn, local, bounds
<1>3. CASE ResetTimer
  BY <1>3 DEF ResetTimer, Due, local, bounds, outside
<1>4. CASE ResetFlags
  BY <1>4 DEF ResetFlags, Clearing, NoLink, NoCloud, local, bounds, outside, hist
<1>5. CASE StopChip
  BY <1>5 DEF StopChip, PowerOff, local, bounds
<1>6. CASE Restart
  BY <1>6 DEF Restart, PowerOn, bounds
<1>7. CASE StayOff
  BY <1>7 DEF StayOff, Due, local, bounds, outside, hist
<1>8. CASE NotDue
  <2>1. excused' \in BOOLEAN
    BY <1>8 DEF NotDue, FlagsOK
  <2> QED
    BY <1>8, <2>1 DEF NotDue, local, bounds, outside
<1>9. CASE Start
  BY <1>9 DEF Start, PowerOn, local, bounds, hist
<1>10. CASE Config
  BY <1>10 DEF Config, bounds, outside
<1>11. CASE ScClear
  BY <1>11 DEF ScClear, NoLink, NoCloud, local, bounds, outside
<1>12. CASE ScBegin
  BY <1>12 DEF ScBegin, local, bounds, outside, hist
<1>13. CASE ScEnd
  BY <1>13 DEF ScEnd, PowerOff, local, bounds, hist
<1>14. CASE ScStart
  BY <1>14 DEF ScStart, PowerOn, bounds
<1>15. CASE Advertise
  BY <1>15 DEF Advertise, local, bounds, outside, hist
<1>16. CASE CloudOff
  BY <1>16 DEF CloudOff, NoCloud, local, bounds, hist
<1>17. CASE CloudOn
  BY <1>17 DEF CloudOn, local, bounds, outside, hist
<1>18. CASE Blink
  BY <1>18 DEF Blink, Blinking, local, bounds, outside, hist
<1>19. CASE Dial
  BY <1>19 DEF Dial, local, bounds, hist
<1>20. CASE Dialed
  BY <1>20 DEF Dialed, local, bounds, outside, hist
<1>21. CASE Failed
  BY <1>21 DEF Failed, Failing, local, bounds, outside, hist
<1>22. CASE Talk
  BY <1>22 DEF Talk, local, bounds, outside, hist
<1>23. CASE Shaken
  BY <1>23 DEF Shaken, local, bounds, outside, hist
<1>24. CASE CommFine
  BY <1>24 DEF CommFine, local, bounds, outside, hist
<1>25. CASE CommFails
  BY <1>25 DEF CommFails, Failure, local, bounds, outside, hist
<1>26. CASE Prepare
  BY <1>26 DEF Prepare, NoCloud, local, bounds, outside, hist
<1>27. CASE Application
  BY <1>27 DEF Application, bounds, outside, hist
<1>28. CASE AppCall
  BY <1>28 DEF AppCall, hist
<1>29. CASE OnConnect
  BY <1>29 DEF OnConnect, Taken, local, bounds
<1>30. CASE OnDisconnect
  BY <1>30 DEF OnDisconnect, Disconnecting, ArmIfConnected, NoCloud, Taken, local,
               bounds
<1>31. CASE OnDhcp
  <2>1. excused' \in BOOLEAN /\ late' \in BOOLEAN
    BY <1>31 DEF OnDhcp, FlagsOK, Window
  <2> QED
    BY <1>31, <2>1 DEF OnDhcp, local, bounds
<1>32. CASE Button
  BY <1>32 DEF Button, local
<1>33. CASE SystemReset
  BY <1>33 DEF SystemReset, NoCloud, PowerOff, bounds
<1>34. CASE World
  BY <1>34 DEF World, Join, Lease, Refuse, Leave, Told, Hangup, Change, local, hist
<1>35. CASE UNCHANGED vars
  BY <1>35 DEF vars, local, bounds, outside, hist
<1> QED
  BY <1>1, <1>2, <1>3, <1>4, <1>5, <1>6, <1>7, <1>8, <1>9, <1>10, <1>11, <1>12, <1>13,
     <1>14, <1>15, <1>16, <1>17, <1>18, <1>19, <1>20, <1>21, <1>22, <1>23, <1>24,
     <1>25, <1>26, <1>27, <1>28, <1>29, <1>30, <1>31, <1>32, <1>33, <1>34, <1>35
     DEF Next, Thread, Reset, SmartConfig, Cloud, Callback

-----------------------------------------------------------------------------
(* The inductive invariant. A start leaves the watchdog armed or is        *)
(* excused, and so is an address without a connection, of which a          *)
(* disconnect event does not arm it.                                       *)
WatchInv ==
  /\ Watched
  /\ pc = "start" => watchdog # "clear" \/ excused
  /\ WLAN_DHCP /\ ~WLAN_CONNECTED => watchdog # "clear" \/ excused \/ pc = "clear"

(* A chip that is off sends no events, and only smart config stops it      *)
(* without saying so.                                                      *)
PowerInv ==
  /\ ~chipOn =>
       link = "none" /\ events = << >> /\ (SPARK_WLAN_STARTED => pc = "sc.start")
  /\ pc \in {"stop", "start"} => ~SPARK_WLAN_STARTED
  /\ pc = "sc.start" => ~chipOn
  /\ ~SPARK_WLAN_STARTED => ~chipOn \/ pc = "stop"

(* While it is off the thread passes only points at which nothing that     *)
(* needs the chip is set, unless something came late.                      *)
NothingUp ==
  ~WLAN_CONNECTED /\ ~WLAN_DHCP /\ ~SPARK_CLOUD_SOCKETED /\ ~SPARK_CLOUD_CONNECTED

OffInv ==
  /\ pc \in {"sc.policy", "sc.wait"} => late \/ ~WLAN_DHCP
  /\ pc = "stop" => late \/ NothingUp
  /\ ~chipOn =>
       \/ late \/ pc \in {"setup", "restart", "sc.start"}
       \/ /\ pc \in {"config", "mdns", "cloud", "talk", "app", "loop", "start"}
          /\ NothingUp /\ ~SMART_START /\ ~WLAN_MANUAL_CONNECT

(* What the events to come say of the address is true of the link.         *)
QueueInv ==
  /\ After(FALSE, events) => link = "leased"
  /\ link = "leased" => After(TRUE, events)

IInv ==
  /\ TypeOK /\ FailuresReset /\ WatchInv /\ PowerInv /\ OffInv
  /\ QueueInv /\ FlagFollowsLink

-----------------------------------------------------------------------------
(* After(): nothing to come changes nothing, ...                           *)
LEMMA AfterNone ==
  ASSUME NEW f \in BOOLEAN
  PROVE  After(f, << >>) <=> f
BY DEF After

(* ... the flag before matters only if no event to come sets it, ...       *)
LEMMA AfterMonotone ==
  ASSUME NEW s, NEW f \in BOOLEAN
  PROVE  (After(FALSE, s) => After(f, s)) /\ (After(f, s) => After(TRUE, s))
BY DEF After

(* ... the first event can be handled before the others, ...               *)
LEMMA AfterTail ==
  ASSUME NEW s \in Seq(Events), s # << >>, NEW f \in BOOLEAN
  PROVE  /\ Head(s) \in LeaseEvents => (After(f, s) <=> After(Head(s) = "DHCP", Tail(s)))
         /\ Head(s) \notin LeaseEvents => (After(f, s) <=> After(f, Tail(s)))
<1> DEFINE t == Tail(s)
           free(q) == \A i \in 1..Len(q) : q[i] \notin LeaseEvents
           last(q) == \E i \in 1..Len(q) : q[i] = "DHCP" /\
                        \A j \in 1..Len(q) : j > i => q[j] \notin LeaseEvents
<1>1. /\ Len(s) \in Nat /\ Len(s) >= 1 /\ Len(t) = Len(s) - 1 /\ Head(s) = s[1]
      /\ \A i \in 1..Len(t) : t[i] = s[i+1]
  BY HeadTailProperties, LenProperties
<1>2. \A i \in 1..Len(s) : i = 1 \/ (i - 1 \in 1..Len(t) /\ s[i] = t[i-1])
  BY <1>1
<1>3. free(s) <=> Head(s) \notin LeaseEvents /\ free(t)
  <2>1. ASSUME free(s), NEW i \in 1..Len(t) PROVE t[i] \notin LeaseEvents
    <3>1. i + 1 \in 1..Len(s) /\ t[i] = s[i+1]
      BY <1>1
    <3> QED
      BY <2>1, <3>1
  <2>2. free(s) => Head(s) \notin LeaseEvents
    BY <1>1
  <2>3. ASSUME Head(s) \notin LeaseEvents, free(t), NEW i \in 1..Len(s)
        PROVE  s[i] \notin LeaseEvents
    <3>1. i = 1 \/ (i - 1 \in 1..Len(t) /\ s[i] = t[i-1])
      BY <1>2
    <3> QED
      BY <1>1, <2>3, <3>1
  <2> QED
    BY <2>1, <2>2, <2>3
<1>4. last(t) => last(s)
  <2>1. SUFFICES ASSUME NEW i \in 1..Len(t), t[i] = "DHCP",
                        \A j \in 1..Len(t) : j > i => t[j] \notin LeaseEvents
                 PROVE  last(s)
    OBVIOUS
  <2>2. i + 1 \in 1..Len(s) /\ s[i+1] = "DHCP"
    BY <1>1, <2>1
  <2>3. ASSUME NEW j \in 1..Len(s), j > i + 1 PROVE s[j] \notin LeaseEvents
    BY <1>1, <1>2, <2>1, <2>3
  <2> QED
    BY <2>2, <2>3
<1>5. last(s) <=> last(t) \/ (Head(s) = "DHCP" /\ free(t))
  <2>1. ASSUME NEW i \in 1..Len(s), s[i] = "DHCP",
               \A j \in 1..Len(s) : j > i => s[j] \notin LeaseEvents
        PROVE  last(t) \/ (Head(s) = "DHCP" /\ free(t))
    <3>1. CASE i = 1
      BY <1>1, <2>1, <3>1
    <3>2. CASE i # 1
      <4>1. i - 1 \in 1..Len(t) /\ t[i-1] = "DHCP"
        BY <1>2, <2>1, <3>2
      <4>2. ASSUME NEW j \in 1..Len(t), j > i - 1 PROVE t[j] \notin LeaseEvents
        BY <1>1, <2>1, <4>2
      <4> QED
        BY <4>1, <4>2
    <3> QED
      BY <3>1, <3>2
  <2>2. ASSUME Head(s) = "DHCP", free(t) PROVE last(s)
    <3>1. 1 \in 1..Len(s) /\ s[1] = "DHCP"
      BY <1>1, <2>2
    <3>2. ASSUME NEW j \in 1..Len(s), j > 1 PROVE s[j] \notin LeaseEvents
      <4>1. j - 1 \in 1..Len(t) /\ s[j] = t[j-1]
        BY <1>2, <3>2
      <4> QED
        BY <2>2, <4>1
    <3> QED
      BY <3>1, <3>2
  <2> QED
    BY <1>4, <2>1, <2>2
<1>6. /\ \A g \in BOOLEAN : After(g, t) <=> (g /\ free(t)) \/ last(t)
      /\ After(f, s) <=> (f /\ free(s)) \/ last(s)
  BY DEF After
<1>7. (Head(s) = "DHCP") \in BOOLEAN /\ (Head(s) = "DHCP" => Head(s) \in LeaseEvents)
  BY DEF LeaseEvents
<1> HIDE DEF t, free, last
<1>8. Head(s) \in LeaseEvents => (After(f, s) <=> After(Head(s) = "DHCP", t))
  BY <1>3, <1>5, <1>6, <1>7
<1>9. Head(s) \notin LeaseEvents => (After(f, s) <=> After(f, t))
  BY <1>3, <1>5, <1>6, <1>7
<1> QED
  BY <1>8, <1>9 DEF t

(* ... and an event that comes last decides.                               *)
LEMMA AfterAppend ==
  ASSUME NEW s \in Seq(Events), NEW e \in Events, NEW f \in BOOLEAN
  PROVE  /\ e \in LeaseEvents => (After(f, Append(s, e)) <=> e = "DHCP")
         /\ e \notin LeaseEvents => (After(f, Append(s, e)) <=> After(f, s))
<1> DEFINE t == Append(s, e)
<1>1. /\ Len(s) \in Nat /\ Len(t) = Len(s) + 1 /\ t[Len(t)] = e
      /\ \A i \in 1..Len(s) : i \in 1..Len(t) /\ t[i] = s[i]
      /\ \A i \in 1..Len(t) : i = Len(t) \/ i \in 1..Len(s)
  BY AppendProperties, LenProperties
<1> HIDE DEF t
<1>2. e \in LeaseEvents => (After(f, t) <=> e = "DHCP")
  BY <1>1 DEF After
<1>3. ASSUME e \notin LeaseEvents PROVE After(f, t) <=> After(f, s)
  BY <1>1, <1>3 DEF After, LeaseEvents
<1> QED
  BY <1>2, <1>3 DEF t

-----------------------------------------------------------------------------
(* Failing connects: the count passes its limit through it.                 *)
LEMMA FailStep ==
  ASSUME TypeOK, FailuresReset, [Next]_vars
  PROVE  FailuresReset'
<1> USE DEF FailuresReset
<1>1. CASE Setup
  BY <1>1 DEF Setup, PowerOn, errors, online
<1>2. CASE ResetTimer
  BY <1>2 DEF ResetTimer, Due, power, errors, online
<1>3. CASE ResetFlags
  BY <1>3, WlanAssumption DEF ResetFlags, Clearing
<1>4. CASE StopChip
  BY <1>4 DEF StopChip, PowerOff, power, radio, errors, online
<1>5. CASE Restart
  BY <1>5 DEF Restart, PowerOn, errors, online
<1>6. CASE StayOff
  BY <1>6 DEF StayOff, Due, power, radio, errors, online
<1>7. CASE NotDue
  BY <1>7 DEF NotDue, Due, power, errors, online
<1>8. CASE Start
  BY <1>8 DEF Start, PowerOn, errors, online
<1>9. CASE Config
  BY <1>9 DEF Config, power, errors, online
<1>10. CASE ScClear
  BY <1>10 DEF ScClear, NoLink, NoCloud, power, errors
<1>11. CASE ScBegin
  BY <1>11 DEF ScBegin, power, radio, errors, online
<1>12. CASE ScEnd
  BY <1>12 DEF ScEnd, PowerOff, power, radio, errors, online
<1>13. CASE ScStart
  BY <1>13 DEF ScStart, PowerOn, errors, online
<1>14. CASE Advertise
  BY <1>14 DEF Advertise, power, errors, online
<1>15. CASE CloudOff
  BY <1>15 DEF CloudOff, NoCloud, power, radio, errors
<1>16. CASE CloudOn
  BY <1>16 DEF CloudOn, power, radio, errors, online
<1>17. CASE Blink
  BY <1>17 DEF Blink, Blinking, power, radio
<1>18. CASE Dial
  BY <1>18 DEF Dial, power, radio, errors, online
<1>19. CASE Dialed
  BY <1>19, WlanAssumption DEF Dialed
<1>20. CASE Failed
  <2>1. SPARK_WLAN_RESET \/ MAX_FAILED_CONNECTS \in cfod_count + 1 .. cfod_count'
          => SPARK_WLAN_RESET'
    BY <1>20 DEF Failed
  <2>2. cfod_count \in Nat /\ (cfod_count' = cfod_count + 1 \/ cfod_count' = cfod_count + 2)
    BY <1>20 DEF Failed, Failing, TypeOK, CloudOK
  <2> QED
    BY <2>1, <2>2, WlanAssumption
<1>21. CASE Talk
  BY <1>21 DEF Talk, power, radio, errors, online
<1>22. CASE Shaken
  BY <1>22 DEF Shaken, power, radio, errors
<1>23. CASE CommFine
  BY <1>23 DEF CommFine, power, radio, errors, online
<1>24. CASE CommFails
  BY <1>24 DEF CommFails, Failure, power, radio, errors
<1>25. CASE Prepare
  BY <1>25 DEF Prepare, NoCloud, power, radio, errors
<1>26. CASE Application
  BY <1>26 DEF Application, power, radio, errors, online
<1>27. CASE AppCall
  BY <1>27 DEF AppCall, errors
<1>28. CASE SerialConfig
  BY <1>28 DEF SerialConfig, power, errors, online
<1>29. CASE OnConnect
  BY <1>29 DEF OnConnect, Taken, power, errors, online
<1>30. CASE OnDisconnect
  BY <1>30 DEF OnDisconnect, Disconnecting, ArmIfConnected, NoCloud, Taken, power
<1>31. CASE OnDhcp
  BY <1>31 DEF OnDhcp, Taken, power, errors, online
<1>32. CASE OnConfigDone
  BY <1>32 DEF OnConfigDone, Taken, power, errors, online
<1>33. CASE OnCloseWait
  BY <1>33 DEF OnCloseWait, NoCloud, Taken, power, radio, errors
<1>34. CASE Elapse
  BY <1>34 DEF Elapse, power, errors, online
<1>35. CASE Button
  BY <1>35 DEF Button, power, errors, online
<1>36. CASE SystemReset
  BY <1>36, WlanAssumption DEF SystemReset
<1>37. CASE World
  BY <1>37 DEF World, Join, Lease, Refuse, Leave, Told, Hangup, Change, power, radio,
               errors, online
<1>38. CASE UNCHANGED vars
  BY <1>38 DEF vars, power, radio, errors, online
<1> QED
  BY <1>1, <1>2, <1>3, <1>4, <1>5, <1>6, <1>7, <1>8, <1>9, <1>10, <1>11, <1>12, <1>13,
     <1>14, <1>15, <1>16, <1>17, <1>18, <1>19, <1>20, <1>21, <1>22, <1>23, <1>24,
     <1>25, <1>26, <1>27, <1>28, <1>29, <1>30, <1>31, <1>32, <1>33, <1>34, <1>35,
     <1>36, <1>37, <1>38
     DEF Next, Thread, Reset, SmartConfig, Cloud, Callback

(* The watchdog: every action that clears it, drops an address or starts   *)
(* the chip.                                                               *)
LEMMA WatchStep ==
  ASSUME TypeOK, PowerInv, WatchInv, [Next]_vars
  PROVE  WatchInv'
<1> USE DEF TypeOK, FlagsOK, WatchInv, Watched, SmartPoints
<1>1. CASE Setup
  BY <1>1 DEF Setup, PowerOn, link_
<1>2. CASE ResetTimer
  BY <1>2 DEF ResetTimer, Due, link_, chip, outside
<1>3. CASE ResetFlags
  BY <1>3 DEF ResetFlags, Clearing, NoLink, NoCloud, chip, outside, hist
<1>4. CASE StopChip
  BY <1>4 DEF StopChip, PowerOff, link_, radio
<1>5. CASE Restart
  BY <1>5 DEF Restart, PowerOn, link_
<1>6. CASE StayOff
  BY <1>6 DEF StayOff, Due, link_, radio, chip, outside, hist
<1>7. CASE NotDue
  BY <1>7 DEF NotDue, Due, link_, chip, outside
<1>8. CASE Start
  BY <1>8 DEF Start, PowerOn, link_, hist
<1>9. CASE Config
  BY <1>9 DEF Config, link_, chip, outside
<1>10. CASE ScClear
  BY <1>10 DEF ScClear, NoLink, NoCloud, chip, outside
<1>11. CASE ScBegin
  BY <1>11 DEF ScBegin, link_, radio, chip, outside, hist
<1>12. CASE ScEnd
  BY <1>12 DEF ScEnd, PowerOff, link_, radio, hist
<1>13. CASE ScStart
  BY <1>13 DEF ScStart, PowerOn, link_
<1>14. CASE Advertise
  BY <1>14 DEF Advertise, link_, chip, outside, hist
<1>15. CASE CloudOff
  BY <1>15 DEF CloudOff, NoCloud, link_, radio, hist
<1>16. CASE CloudOn
  BY <1>16 DEF CloudOn, link_, radio, chip, outside, hist
<1>17. CASE Blink
  BY <1>17 DEF Blink, Blinking, link_, radio, chip, outside, hist
<1>18. CASE Dial
  BY <1>18 DEF Dial, link_, radio, hist
<1>19. CASE Dialed
  BY <1>19 DEF Dialed, link_, radio, chip, outside, hist
<1>20. CASE Failed
  BY <1>20 DEF Failed, Failing, link_, chip, outside, hist
<1>21. CASE Talk
  BY <1>21 DEF Talk, link_, radio, chip, outside, hist
<1>22. CASE Shaken
  BY <1>22 DEF Shaken, link_, radio, chip, outside, hist
<1>23. CASE CommFine
  BY <1>23 DEF CommFine, link_, radio, chip, outside, hist
<1>24. CASE CommFails
  BY <1>24 DEF CommFails, Failure, link_, radio, chip, outside, hist
<1>25. CASE Prepare
  BY <1>25 DEF Prepare, NoCloud, link_, radio, chip, outside, hist
<1>26. CASE Application
  BY <1>26 DEF Application, link_, radio, chip, outside, hist
<1>27. CASE AppCall
  BY <1>27 DEF AppCall, link_, chip, hist
<1>28. CASE SerialConfig
  BY <1>28 DEF SerialConfig, link_, chip, outside, hist
<1>29. CASE OnConnect
  BY <1>29 DEF OnConnect, Taken
<1>30. CASE OnDisconnect
  BY <1>30 DEF OnDisconnect, Disconnecting, ArmIfConnected, NoCloud, Taken
<1>31. CASE OnDhcp
  <2>1. CASE Head(events) = "DHCP"
    <3>1. WLAN_DHCP' /\ (~WLAN_CONNECTED => excused')
      BY <1>31, <2>1 DEF OnDhcp
    <3>2. pc /= "start"
      BY <1>31 DEF OnDhcp, Taken, PowerInv
    <3> QED
      BY <1>31, <3>1, <3>2 DEF OnDhcp
  <2>2. CASE Head(events) = "NO_DHCP"
    <3>1. ~WLAN_DHCP' /\ excused' = (excused \/ watchdog = "clear") /\ watchdog' = watchdog
      BY <1>31, <2>2 DEF OnDhcp
    <3> QED
      BY <1>31, <3>1 DEF OnDhcp
  <2> QED
    BY <1>31, <2>1, <2>2 DEF OnDhcp
<1>32. CASE OnConfigDone
  BY <1>32 DEF OnConfigDone, Taken, link_, hist
<1>33. CASE OnCloseWait
  BY <1>33 DEF OnCloseWait, NoCloud, Taken, link_, radio, hist
<1>34. CASE Elapse
  BY <1>34 DEF Elapse, link_, chip, outside, hist
<1>35. CASE Button
  BY <1>35 DEF Button, link_, chip
<1>36. CASE SystemReset
  BY <1>36 DEF SystemReset, NoCloud, PowerOff
<1>37. CASE World
  BY <1>37 DEF World, Join, Lease, Refuse, Leave, Told, Hangup, Change, link_, radio,
               hist
<1>38. CASE UNCHANGED vars
  BY <1>38 DEF vars, link_, radio, chip, outside, hist
<1> QED
  BY <1>1, <1>2, <1>3, <1>4, <1>5, <1>6, <1>7, <1>8, <1>9, <1>10, <1>11, <1>12, <1>13,
     <1>14, <1>15, <1>16, <1>17, <1>18, <1>19, <1>20, <1>21, <1>22, <1>23, <1>24,
     <1>25, <1>26, <1>27, <1>28, <1>29, <1>30, <1>31, <1>32, <1>33, <1>34, <1>35,
     <1>36, <1>37, <1>38
     DEF Next, Thread, Reset, SmartConfig, Cloud, Callback

(* The power of the chip.                                                   *)
LEMMA PowerStep ==
  ASSUME TypeOK, PowerInv, [Next]_vars
  PROVE  PowerInv'
<1> USE DEF PowerInv
<1>1. CASE Setup
  BY <1>1 DEF Setup, PowerOn
<1>2. CASE ResetTimer
  BY <1>2 DEF ResetTimer, Due, power, chip, outside
<1>3. CASE ResetFlags
  BY <1>3 DEF ResetFlags, Clearing, NoLink, NoCloud, chip, outside
<1>4. CASE StopChip
  BY <1>4 DEF StopChip, PowerOff, power, radio
<1>5. CASE Restart
  BY <1>5 DEF Restart, PowerOn
<1>6. CASE StayOff
  BY <1>6 DEF StayOff, Due, power, radio, chip, outside
<1>7. CASE NotDue
  BY <1>7 DEF NotDue, Due, power, chip, outside
<1>8. CASE Start
  BY <1>8 DEF Start, PowerOn
<1>9. CASE Config
  BY <1>9 DEF Config, power, chip, outside
<1>10. CASE ScClear
  BY <1>10 DEF ScClear, NoLink, NoCloud, power, chip, outside
<1>11. CASE ScBegin
  BY <1>11 DEF ScBegin, power, radio, chip, outside
<1>12. CASE ScEnd
  BY <1>12 DEF ScEnd, PowerOff, power, radio
<1>13. CASE ScStart
  BY <1>13 DEF ScStart, PowerOn, TypeOK, RestOK
<1>14. CASE Advertise
  BY <1>14 DEF Advertise, power, chip, outside
<1>15. CASE CloudOff
  BY <1>15 DEF CloudOff, NoCloud, power, radio
<1>16. CASE CloudOn
  BY <1>16 DEF CloudOn, power, radio, chip, outside
<1>17. CASE Blink
  BY <1>17 DEF Blink, Blinking, power, radio, chip, outside
<1>18. CASE Dial
  BY <1>18 DEF Dial, power, radio
<1>19. CASE Dialed
  BY <1>19 DEF Dialed, power, radio, chip, outside
<1>20. CASE Failed
  BY <1>20 DEF Failed, Failing, chip, outside
<1>21. CASE Talk
  BY <1>21 DEF Talk, power, radio, chip, outside
<1>22. CASE Shaken
  BY <1>22 DEF Shaken, power, radio, chip, outside
<1>23. CASE CommFine
  BY <1>23 DEF CommFine, power, radio, chip, outside
<1>24. CASE CommFails
  BY <1>24 DEF CommFails, Failure, power, radio, chip, outside
<1>25. CASE Prepare
  BY <1>25 DEF Prepare, NoCloud, power, radio, chip, outside
<1>26. CASE Application
  BY <1>26 DEF Application, power, radio, chip, outside
<1>27. CASE AppCall
  BY <1>27 DEF AppCall, chip
<1>28. CASE SerialConfig
  BY <1>28 DEF SerialConfig, power, chip, outside
<1>29. CASE OnConnect
  BY <1>29 DEF OnConnect, Taken, power
<1>30. CASE OnDisconnect
  BY <1>30 DEF OnDisconnect, Disconnecting, ArmIfConnected, NoCloud, Taken, power
<1>31. CASE OnDhcp
  BY <1>31 DEF OnDhcp, Taken, power
<1>32. CASE OnConfigDone
  BY <1>32 DEF OnConfigDone, Taken, power
<1>33. CASE OnCloseWait
  BY <1>33 DEF OnCloseWait, NoCloud, Taken, power, radio
<1>34. CASE Elapse
  BY <1>34 DEF Elapse, power, chip, outside
<1>35. CASE Button
  BY <1>35 DEF Button, power, chip
<1>36. CASE SystemReset
  BY <1>36 DEF SystemReset, NoCloud, PowerOff
<1>37. CASE World
  BY <1>37 DEF World, Join, Lease, Refuse, Leave, Told, Hangup, Change, power, radio
<1>38. CASE UNCHANGED vars
  BY <1>38 DEF vars, power, radio, chip, outside
<1> QED
  BY <1>1, <1>2, <1>3, <1>4, <1>5, <1>6, <1>7, <1>8, <1>9, <1>10, <1>11, <1>12, <1>13,
     <1>14, <1>15, <1>16, <1>17, <1>18, <1>19, <1>20, <1>21, <1>22, <1>23, <1>24,
     <1>25, <1>26, <1>27, <1>28, <1>29, <1>30, <1>31, <1>32, <1>33, <1>34, <1>35,
     <1>36, <1>37, <1>38
     DEF Next, Thread, Reset, SmartConfig, Cloud, Callback

(* The thread while the chip is off.                                       *)
LEMMA OffStep ==
  ASSUME TypeOK, PowerInv, OffInv, [Next]_vars
  PROVE  OffInv'
<1> USE DEF PowerInv, OffInv, NothingUp
<1>1. CASE Setup
  BY <1>1 DEF Setup, PowerOn, link_, cloud, online
<1>2. CASE ResetTimer
  BY <1>2 DEF ResetTimer, Due, link_, smart, cloud, online, chip, outside
<1>3. CASE ResetFlags
  BY <1>3 DEF ResetFlags, Clearing, NoLink, NoCloud, smart, chip, outside, hist
<1>4. CASE StopChip
  BY <1>4 DEF StopChip, PowerOff, link_, smart, radio, cloud, online
<1>5. CASE Restart
  BY <1>5 DEF Restart, PowerOn, link_, smart, cloud, online
<1>6. CASE StayOff
  BY <1>6 DEF StayOff, Due, link_, smart, radio, cloud, online, chip, outside, hist
<1>7. CASE NotDue
  BY <1>7 DEF NotDue, Due, link_, smart, cloud, online, chip, outside
<1>8. CASE Start
  BY <1>8 DEF Start, PowerOn, link_, smart, cloud, online, hist
<1>9. CASE Config
  BY <1>9 DEF Config, link_, smart, cloud, online, chip, outside
<1>10. CASE ScClear
  BY <1>10 DEF ScClear, NoLink, NoCloud, chip, outside
<1>11. CASE ScBegin
  BY <1>11 DEF ScBegin, link_, smart, radio, cloud, online, chip, outside, hist
<1>12. CASE ScEnd
  BY <1>12 DEF ScEnd, PowerOff, link_, smart, radio, cloud, online, hist
<1>13. CASE ScStart
  BY <1>13 DEF ScStart, PowerOn, link_, cloud, online, TypeOK, RestOK
<1>14. CASE Advertise
  BY <1>14 DEF Advertise, link_, cloud, online, chip, outside, hist
<1>15. CASE CloudOff
  BY <1>15 DEF CloudOff, NoCloud, link_, smart, radio, cloud, hist
<1>16. CASE CloudOn
  BY <1>16 DEF CloudOn, link_, smart, radio, cloud, online, chip, outside, hist
<1>17. CASE Blink
  BY <1>17 DEF Blink, Blinking, link_, smart, radio, cloud, chip, outside, hist
<1>18. CASE Dial
  BY <1>18 DEF Dial, link_, smart, radio, cloud, online, hist
<1>19. CASE Dialed
  BY <1>19 DEF Dialed, link_, smart, radio, chip, outside, hist
<1>20. CASE Failed
  BY <1>20 DEF Failed, Failing, link_, smart, chip, outside, hist
<1>21. CASE Talk
  BY <1>21 DEF Talk, link_, smart, radio, cloud, online, chip, outside, hist
<1>22. CASE Shaken
  BY <1>22 DEF Shaken, link_, smart, radio, chip, outside, hist
<1>23. CASE CommFine
  BY <1>23 DEF CommFine, link_, smart, radio, cloud, online, chip, outside, hist
<1>24. CASE CommFails
  BY <1>24 DEF CommFails, Failure, link_, smart, radio, chip, outside, hist
<1>25. CASE Prepare
  BY <1>25 DEF Prepare, NoCloud, link_, smart, radio, chip, outside, hist
<1>26. CASE Application
  BY <1>26 DEF Application, link_, smart, radio, cloud, online, chip, outside, hist
<1>27. CASE AppCall
  BY <1>27 DEF AppCall, link_, smart, cloud, chip, hist
<1>28. CASE SerialConfig
  BY <1>28 DEF SerialConfig, link_, cloud, online, chip, outside, hist
<1>29. CASE OnConnect
  BY <1>29 DEF OnConnect, Taken, smart, cloud, online, Window
<1>30. CASE OnDisconnect
  BY <1>30 DEF OnDisconnect, Disconnecting, ArmIfConnected, NoCloud, Taken, smart
<1>31. CASE OnDhcp
  <2>1. chipOn /\ UNCHANGED <<pc, chipOn, WLAN_CONNECTED, SPARK_CLOUD_SOCKETED,
                             SPARK_CLOUD_CONNECTED>>
    BY <1>31 DEF OnDhcp, Taken, online, cloud
  <2>2. Window /\ WLAN_DHCP' => late'
    BY <1>31 DEF OnDhcp, Window
  <2>3. late => late'
    BY <1>31 DEF OnDhcp
  <2> QED
    BY <2>1, <2>2, <2>3 DEF Window
<1>32. CASE OnConfigDone
  BY <1>32 DEF OnConfigDone, Taken, link_, cloud, online, hist
<1>33. CASE OnCloseWait
  BY <1>33 DEF OnCloseWait, NoCloud, cloud, Taken, link_, smart, radio, hist
<1>34. CASE Elapse
  BY <1>34 DEF Elapse, link_, smart, cloud, online, chip, outside, hist
<1>35. CASE Button
  BY <1>35 DEF Button, link_, cloud, online, chip
<1>36. CASE SystemReset
  BY <1>36 DEF SystemReset, NoCloud, PowerOff
<1>37. CASE World
  BY <1>37 DEF World, Join, Lease, Refuse, Leave, Told, Hangup, Change, link_, smart,
               radio, cloud, online, hist
<1>38. CASE UNCHANGED vars
  BY <1>38 DEF vars, link_, smart, radio, cloud, online, chip, outside, hist
<1> QED
  BY <1>1, <1>2, <1>3, <1>4, <1>5, <1>6, <1>7, <1>8, <1>9, <1>10, <1>11, <1>12, <1>13,
     <1>14, <1>15, <1>16, <1>17, <1>18, <1>19, <1>20, <1>21, <1>22, <1>23, <1>24,
     <1>25, <1>26, <1>27, <1>28, <1>29, <1>30, <1>31, <1>32, <1>33, <1>34, <1>35,
     <1>36, <1>37, <1>38
     DEF Next, Thread, Reset, SmartConfig, Cloud, Callback

(* The queue of events and the link change together.                       *)
LEMMA QueueStep ==
  ASSUME TypeOK, QueueInv, [Next]_vars
  PROVE  QueueInv'
<1> USE DEF TypeOK, ChipOK, QueueInv
<1>1. CASE Setup \/ ResetTimer \/ ResetFlags \/ Restart \/ StayOff \/ NotDue \/ Start
           \/ Config \/ ScClear \/ ScBegin \/ ScStart \/ Advertise \/ CloudOff
           \/ CloudOn \/ Blink \/ Dial \/ Dialed \/ Failed \/ Talk \/ Shaken
           \/ CommFine \/ CommFails \/ Prepare \/ Application \/ AppCall
           \/ SerialConfig \/ Elapse \/ Button
  <2>1. UNCHANGED <<link, events>>
    BY <1>1 DEF Setup, PowerOn, ResetTimer, ResetFlags, Clearing, Restart, StayOff,
                NotDue, Start, Config, ScClear, ScBegin, ScStart, Advertise, CloudOff,
                CloudOn, Blink, Blinking, Dial, Dialed, Failed, Failing, Talk, Shaken,
                CommFine, CommFails, Failure, Prepare, Application, AppCall,
                SerialConfig, Elapse, Button, chip, outside
  <2> QED
    BY <2>1
<1>2. CASE StopChip
  <2>1. events' = << >> /\ link' = "none"
    BY <1>2 DEF StopChip, PowerOff
  <2> QED
    BY <2>1, AfterNone
<1>3. CASE ScEnd
  <2>1. events' = << >> /\ link' = "none"
    BY <1>3 DEF ScEnd, PowerOff
  <2> QED
    BY <2>1, AfterNone
<1>4. CASE OnConnect
  <2>1. events # << >> /\ events' = Tail(events) /\ link' = link
    BY <1>4 DEF OnConnect, Taken
  <2> QED
    BY <2>1, AfterTail, AfterMonotone
<1>5. CASE OnDisconnect
  <2>1. events # << >> /\ events' = Tail(events) /\ link' = link
    BY <1>5 DEF OnDisconnect, Disconnecting, Taken
  <2> QED
    BY <2>1, AfterTail, AfterMonotone
<1>6. CASE OnDhcp
  <2>1. events # << >> /\ events' = Tail(events) /\ link' = link
    BY <1>6 DEF OnDhcp, Taken
  <2> QED
    BY <2>1, AfterTail, AfterMonotone
<1>7. CASE OnConfigDone
  <2>1. events # << >> /\ events' = Tail(events) /\ link' = link
    BY <1>7 DEF OnConfigDone, Taken
  <2> QED
    BY <2>1, AfterTail, AfterMonotone
<1>8. CASE OnCloseWait
  <2>1. events # << >> /\ events' = Tail(events) /\ link' = link
    BY <1>8 DEF OnCloseWait, Taken
  <2> QED
    BY <2>1, AfterTail, AfterMonotone
<1>9. CASE SystemReset
  <2>1. events' = << >> /\ link' = "none"
    BY <1>9 DEF SystemReset, PowerOff
  <2> QED
    BY <2>1, AfterNone
<1>10. CASE World
  <2>1. PICK e \in Events :
          /\ events' = Append(events, e)
          /\ e \in LeaseEvents => (link' = "leased" <=> e = "DHCP")
          /\ e \notin LeaseEvents => (link' = "leased" <=> link = "leased")
    BY <1>10 DEF World, Join, Lease, Refuse, Leave, Told, Hangup, Change, Events,
                LeaseEvents
  <2>2. CASE e \in LeaseEvents
    <3>1. /\ After(FALSE, events') <=> e = "DHCP"
          /\ After(TRUE, events') <=> e = "DHCP"
      BY <2>1, <2>2, AfterAppend
    <3> QED
      BY <2>1, <2>2, <3>1
  <2>3. CASE e \notin LeaseEvents
    <3>1. /\ After(FALSE, events') <=> After(FALSE, events)
          /\ After(TRUE, events') <=> After(TRUE, events)
      BY <2>1, <2>3, AfterAppend
    <3> QED
      BY <2>1, <2>3, <3>1
  <2> QED
    BY <2>2, <2>3
<1>11. CASE UNCHANGED vars
  BY <1>11 DEF vars, chip, outside
<1> QED
  BY <1>1, <1>2, <1>3, <1>4, <1>5, <1>6, <1>7, <1>8, <1>9, <1>10, <1>11
     DEF Next, Thread, Reset, SmartConfig, Cloud, Callback

(* WLAN_DHCP follows the link.                                              *)
LEMMA FlagStep ==
  ASSUME TypeOK, PowerInv, OffInv, QueueInv, FlagFollowsLink, [Next]_vars
  PROVE  FlagFollowsLink'
<1> USE DEF TypeOK, FlagsOK, ChipOK, QueueInv, FlagFollowsLink, DhcpAfter, SmartPoints
<1>1. CASE Setup
  BY <1>1 DEF Setup, PowerOn, link_, PowerInv
<1>2. CASE ResetTimer
  BY <1>2 DEF ResetTimer, Due, link_, chip, outside
<1>3. CASE ResetFlags
  <2>1. pc' = "stop" /\ WLAN_DHCP' = FALSE /\ UNCHANGED <<link, events>>
    BY <1>3 DEF ResetFlags, Clearing, NoLink, outside, chip
  <2> QED
    BY <2>1
<1>4. CASE StopChip
  <2>1. /\ pc = "stop" /\ events' = << >> /\ UNCHANGED WLAN_DHCP /\ (late => late')
        /\ link' = "none"
    BY <1>4 DEF StopChip, PowerOff, radio, link_
  <2>2. WLAN_DHCP => late
    BY <2>1 DEF OffInv, NothingUp
  <2> QED
    BY <2>1, <2>2, AfterNone
<1>5. CASE Restart
  BY <1>5 DEF Restart, PowerOn, link_, PowerInv
<1>6. CASE StayOff
  BY <1>6 DEF StayOff, Due, link_, radio, chip, outside, hist
<1>7. CASE NotDue
  BY <1>7 DEF NotDue, Due, link_, chip, outside
<1>8. CASE Start
  BY <1>8 DEF Start, PowerOn, link_, hist, PowerInv
<1>9. CASE Config
  BY <1>9 DEF Config, link_, chip, outside
<1>10. CASE ScClear
  BY <1>10 DEF ScClear, NoLink, NoCloud, chip, outside
<1>11. CASE ScBegin
  BY <1>11 DEF ScBegin, link_, radio, chip, outside, hist
<1>12. CASE ScEnd
  <2>1. /\ pc = "sc.wait" /\ events' = << >> /\ UNCHANGED <<WLAN_DHCP, late>>
        /\ link' = "none"
    BY <1>12 DEF ScEnd, PowerOff, radio, link_, hist
  <2>2. WLAN_DHCP => late
    BY <2>1 DEF OffInv
  <2> QED
    BY <2>1, <2>2, AfterNone
<1>13. CASE ScStart
  BY <1>13 DEF ScStart, PowerOn, link_, PowerInv, RestOK
<1>14. CASE Advertise
  BY <1>14 DEF Advertise, link_, chip, outside, hist
<1>15. CASE CloudOff
  BY <1>15 DEF CloudOff, NoCloud, link_, radio, hist
<1>16. CASE CloudOn
  BY <1>16 DEF CloudOn, link_, radio, chip, outside, hist
<1>17. CASE Blink
  BY <1>17 DEF Blink, Blinking, link_, radio, chip, outside, hist
<1>18. CASE Dial
  BY <1>18 DEF Dial, link_, radio, hist
<1>19. CASE Dialed
  BY <1>19 DEF Dialed, link_, radio, chip, outside, hist
<1>20. CASE Failed
  BY <1>20 DEF Failed, Failing, link_, chip, outside, hist
<1>21. CASE Talk
  BY <1>21 DEF Talk, link_, radio, chip, outside, hist
<1>22. CASE Shaken
  BY <1>22 DEF Shaken, link_, radio, chip, outside, hist
<1>23. CASE CommFine
  BY <1>23 DEF CommFine, link_, radio, chip, outside, hist
<1>24. CASE CommFails
  BY <1>24 DEF CommFails, Failure, link_, radio, chip, outside, hist
<1>25. CASE Prepare
  BY <1>25 DEF Prepare, NoCloud, link_, radio, chip, outside, hist
<1>26. CASE Application
  BY <1>26 DEF Application, link_, radio, chip, outside, hist
<1>27. CASE AppCall
  BY <1>27 DEF AppCall, link_, chip, hist
<1>28. CASE SerialConfig
  BY <1>28 DEF SerialConfig, link_, chip, outside, hist
<1>29. CASE OnConnect
  <2>1. /\ events # << >> /\ events' = Tail(events) /\ UNCHANGED <<pc, link, WLAN_DHCP>>
        /\ Head(events) \notin LeaseEvents /\ (late => late')
    BY <1>29 DEF OnConnect, Taken, LeaseEvents
  <2> QED
    BY <2>1, AfterTail
<1>30. CASE OnDisconnect
  <2>1. /\ events # << >> /\ events' = Tail(events) /\ UNCHANGED <<pc, link>>
        /\ WLAN_DHCP' = (Head(events) = "DHCP") /\ Head(events) \in LeaseEvents
        /\ late => late'
    BY <1>30 DEF OnDisconnect, Disconnecting, Taken, LeaseEvents
  <2> QED
    BY <2>1, AfterTail
<1>31. CASE OnDhcp
  <2>1. /\ events # << >> /\ events' = Tail(events) /\ UNCHANGED <<pc, link>>
        /\ WLAN_DHCP' = (Head(events) = "DHCP") /\ Head(events) \in LeaseEvents
        /\ late => late'
    BY <1>31 DEF OnDhcp, Taken, LeaseEvents
  <2> QED
    BY <2>1, AfterTail
<1>32. CASE OnConfigDone
  <2>1. /\ events # << >> /\ events' = Tail(events)
        /\ UNCHANGED <<pc, late, link, WLAN_DHCP>>
        /\ Head(events) \notin LeaseEvents
    BY <1>32 DEF OnConfigDone, Taken, LeaseEvents, hist, radio, link_
  <2> QED
    BY <2>1, AfterTail
<1>33. CASE OnCloseWait
  <2>1. /\ events # << >> /\ events' = Tail(events)
        /\ UNCHANGED <<pc, late, link, WLAN_DHCP>>
        /\ Head(events) \notin LeaseEvents
    BY <1>33 DEF OnCloseWait, Taken, LeaseEvents, hist, radio, link_
  <2> QED
    BY <2>1, AfterTail
<1>34. CASE Elapse
  BY <1>34 DEF Elapse, link_, chip, outside, hist
<1>35. CASE Button
  BY <1>35 DEF Button, link_, chip
<1>36. CASE SystemReset
  <2>1. events' = << >> /\ WLAN_DHCP' = FALSE /\ link' = "none"
    BY <1>36 DEF SystemReset, PowerOff
  <2> QED
    BY <2>1, AfterNone
<1>37. CASE World
  <2>1. UNCHANGED <<pc, late, WLAN_DHCP>>
    BY <1>37 DEF World, Join, Lease, Refuse, Leave, Told, Hangup, Change, hist, radio, link_
  <2>2. PICK e \in Events :
          /\ events' = Append(events, e)
          /\ e \in LeaseEvents => (link' = "leased" <=> e = "DHCP")
          /\ e \notin LeaseEvents => (link' = "leased" <=> link = "leased")
    BY <1>37 DEF World, Join, Lease, Refuse, Leave, Told, Hangup, Change, Events,
                LeaseEvents
  <2>3. CASE e \in LeaseEvents
    <3>1. After(WLAN_DHCP', events') <=> e = "DHCP"
      BY <2>1, <2>2, <2>3, AfterAppend
    <3> QED
      BY <2>1, <2>2, <2>3, <3>1
  <2>4. CASE e \notin LeaseEvents
    <3>1. After(WLAN_DHCP', events') <=> After(WLAN_DHCP, events)
      BY <2>1, <2>2, <2>4, AfterAppend
    <3> QED
      BY <2>1, <2>2, <2>4, <3>1
  <2> QED
    BY <2>3, <2>4
<1>38. CASE UNCHANGED vars
  BY <1>38 DEF vars, link_, radio, chip, outside, hist
<1> QED
  BY <1>1, <1>2, <1>3, <1>4, <1>5, <1>6, <1>7, <1>8, <1>9, <1>10, <1>11, <1>12, <1>13,
     <1>14, <1>15, <1>16, <1>17, <1>18, <1>19, <1>20, <1>21, <1>22, <1>23, <1>24,
     <1>25, <1>26, <1>27, <1>28, <1>29, <1>30, <1>31, <1>32, <1>33, <1>34, <1>35,
     <1>36, <1>37, <1>38
     DEF Next, Thread, Reset, SmartConfig, Cloud, Callback

-----------------------------------------------------------------------------
(* The invariant holds at first ...                                        *)
LEMMA IInvInit == Init => IInv
<1> SUFFICES ASSUME Init PROVE IInv
  OBVIOUS
<1>1. TypeOK
  BY TypesInit
<1>2. FailuresReset
  BY WlanAssumption DEF Init, Boot, FailuresReset
<1>3. WatchInv
  BY DEF Init, Boot, WatchInv, Watched
<1>4. PowerInv /\ OffInv
  BY DEF Init, Boot, PowerInv, OffInv
<1>5. QueueInv /\ FlagFollowsLink
  <2>1. ~After(FALSE, << >>)
    BY AfterNone
  <2>2. events = << >> /\ WLAN_DHCP = FALSE /\ link = "none"
    BY DEF Init, Boot
  <2> QED
    BY <2>1, <2>2 DEF QueueInv, FlagFollowsLink, DhcpAfter
<1> QED
  BY <1>1, <1>2, <1>3, <1>4, <1>5 DEF IInv

(* ... and is kept by every step.                                          *)
LEMMA IInvStep == IInv /\ [Next]_vars => IInv'
<1> SUFFICES ASSUME IInv, [Next]_vars PROVE IInv'
  OBVIOUS
<1>1. TypeOK'
  BY FlagsStep, CloudStep, ChipStep, RestStep DEF IInv, TypeOK
<1>2. FailuresReset' /\ WatchInv'
  BY FailStep, WatchStep DEF IInv
<1>3. PowerInv' /\ OffInv'
  BY PowerStep, OffStep DEF IInv
<1>4. QueueInv' /\ FlagFollowsLink'
  BY QueueStep, FlagStep DEF IInv
<1> QED
  BY <1>1, <1>2, <1>3, <1>4 DEF IInv

LEMMA Invariant == Spec => []IInv
<1> QED
  BY IInvInit, IInvStep, PTL DEF Spec

-----------------------------------------------------------------------------
(* Every variable of spark_wlan.cpp keeps its type.                        *)
THEOREM WlanTypes == Spec => []TypeOK
<1>1. IInv => TypeOK
  BY DEF IInv
<1> QED
  BY <1>1, Invariant, PTL

(* Failing connects end in a reset of the chip (spark_wlan.cpp:615-630).   *)
THEOREM FailuresEndInReset == Spec => []FailuresReset
<1>1. IInv => FailuresReset
  BY DEF IInv
<1> QED
  BY <1>1, Invariant, PTL

(* A running chip without an address is under the watchdog, whatever the   *)
(* order of events, resets and restarts (WLAN_Async_Callback()).           *)
THEOREM AddressWatched == Spec => []Watched
<1>1. IInv => Watched
  BY DEF IInv, WatchInv
<1> QED
  BY <1>1, Invariant, PTL

(* WLAN_DHCP follows the chip's link over events that are still queued,    *)
(* stops and starts.                                                       *)
THEOREM AddressFlag == Spec => []FlagFollowsLink
<1>1. IInv => FlagFollowsLink
  BY DEF IInv
<1> QED
  BY <1>1, Invariant, PTL

(* SPARK_WLAN_Loop() sends no command to a chip it has stopped (483).      *)
THEOREM RunningChip == Spec => []OnlyToRunningChip
<1>1. IInv => OnlyToRunningChip
  <2>1. SUFFICES ASSUME IInv, Commands, ~chipOn, ~late PROVE FALSE
    BY DEF OnlyToRunningChip
  <2>2. /\ pc \in {"setup", "restart", "sc.start", "config", "mdns", "cloud", "talk",
                    "app", "loop", "start"}
        /\ pc \in {"config", "mdns", "cloud", "talk", "app", "loop", "start"}
             => NothingUp /\ ~WLAN_MANUAL_CONNECT
    BY <2>1 DEF IInv, OffInv
  <2> QED
    BY <2>1, <2>2 DEF Commands, NothingUp
<1> QED
  BY <1>1, Invariant, PTL

-----------------------------------------------------------------------------
(* One turn of main()'s loop, whatever the chip, the button and the        *)
(* application do meanwhile: how many steps it has still to take.  Smart   *)
(* config can come twice in a turn, the second time by the button; an      *)
(* error's count is blinked down, and from zero round to zero.             *)
SmartLeft ==
  IF pc = "sc.start" THEN 1 ELSE IF pc = "sc.wait" THEN 2
  ELSE IF pc = "sc.policy" THEN 3 ELSE 4

CloudLeft ==
  IF pc = "app" THEN 0 ELSE IF pc = "prepare" THEN 1 ELSE IF pc = "comm" THEN 2
  ELSE IF pc = "shaken" THEN 3 ELSE IF pc = "talk" THEN 4
  ELSE IF pc \in {"failed", "dialed"} THEN 5 ELSE 6

ResetLeft ==
  IF pc = "start" THEN 1 ELSE IF pc = "restart" THEN 5 ELSE IF pc = "stop" THEN 6
  ELSE IF pc = "clear" THEN 7 ELSE IF pc = "loop" THEN 8 ELSE 9

BlinksLeft == IF Spark_Error_Count = 0 THEN ErrorWrap ELSE Spark_Error_Count

CloudPoints == {"dial", "dialed", "failed", "talk", "shaken", "comm", "prepare", "app"}

TurnLeft ==
  IF pc \in CloudPoints THEN CloudLeft
  ELSE IF pc = "blink" THEN 6 + BlinksLeft
  ELSE IF pc = "cloud" THEN 7 + ErrorWrap
  ELSE IF pc = "mdns" THEN 8 + ErrorWrap
  ELSE IF pc \in SmartPoints \cup {"sc.clear"}
       THEN (IF ret = "mdns" THEN 8 ELSE 13) + ErrorWrap + SmartLeft
  ELSE IF pc = "config" THEN 13 + ErrorWrap
  ELSE 13 + ErrorWrap + ResetLeft

(* Every step of the thread is one less to take, and nothing else puts the *)
(* end of the turn off but a disconnect that clears the count of errors    *)
(* while it is blinked: it wraps, and is blinked out from the top.         *)
TurnEnds ==
  /\ [](TurnLeft \in 0..(22 + ErrorWrap))
  /\ [][/\ Thread => Application \/ TurnLeft' < TurnLeft
        /\ ~Thread => \/ TurnLeft' = TurnLeft
                      \/ SystemReset
                      \/ OnDisconnect /\ pc = "blink"]_vars
LEMMA TurnTypes ==
  ASSUME TypeOK
  PROVE  TurnLeft \in 0..(22 + ErrorWrap)
<1>1. ErrorWrap \in Nat /\ Spark_Error_Count \in 0..(ErrorWrap - 1) /\ ErrorWrap > 3
  BY WlanAssumption DEF TypeOK, CloudOK
<1>2. BlinksLeft \in 1..ErrorWrap
  BY <1>1 DEF BlinksLeft
<1>3. CloudLeft \in 0..6 /\ SmartLeft \in 1..4 /\ ResetLeft \in 1..9
  BY DEF CloudLeft, SmartLeft, ResetLeft
<1> HIDE DEF CloudLeft, SmartLeft, ResetLeft, BlinksLeft
<1> QED
  BY <1>1, <1>2, <1>3 DEF TurnLeft

(* The steps of a reset, a stop and a start.                               *)
LEMMA ResetTurn ==
  ASSUME TypeOK, Setup \/ Reset
  PROVE  TurnLeft' < TurnLeft
<1>1. ErrorWrap \in Nat
  BY WlanAssumption
<1>2. /\ pc \in {"setup", "loop", "clear", "stop", "start", "restart"}
      /\ TurnLeft = (13 + ErrorWrap) + ResetLeft
  <2>1. pc \in {"setup", "loop", "clear", "stop", "start", "restart"}
    BY DEF Setup, Reset, ResetTimer, ResetFlags, Clearing, StopChip, Restart, StayOff,
           NotDue, Start
  <2> QED
    BY <2>1 DEF TurnLeft, CloudPoints, SmartPoints
<1>3. CASE \/ pc = "setup" /\ pc' = "loop"
           \/ pc = "loop" /\ pc' \in {"clear", "start"}
           \/ pc = "clear" /\ pc' = "stop"
           \/ pc = "stop" /\ pc' = "restart"
  <2>1. TurnLeft' = (13 + ErrorWrap) + ResetLeft'
    BY <1>3 DEF TurnLeft, CloudPoints, SmartPoints
  <2>2. ResetLeft \in Nat /\ ResetLeft' \in Nat /\ ResetLeft' < ResetLeft
    BY <1>3 DEF ResetLeft
  <2>3. \A n, a, b \in Nat : a < b => n + a < n + b
    OBVIOUS
  <2>4. (13 + ErrorWrap) + ResetLeft' < (13 + ErrorWrap) + ResetLeft
    <3> DEFINE floor == 13 + ErrorWrap
    <3>1. floor \in Nat
      BY <1>1
    <3> HIDE DEF floor, ResetLeft
    <3>2. floor + ResetLeft' < floor + ResetLeft
      BY <2>2, <2>3, <3>1
    <3> QED
      BY <3>2 DEF floor
  <2> QED
    BY <1>2, <2>1, <2>4
<1>4. CASE pc' = "config"
  <2>1. TurnLeft' = 13 + ErrorWrap
    BY <1>4 DEF TurnLeft, CloudPoints, SmartPoints
  <2>2. ResetLeft \in Nat \ {0}
    BY DEF ResetLeft
  <2> QED
    BY <1>1, <1>2, <2>1, <2>2
<1>5. CASE pc = "restart" /\ pc' = "sc.clear" /\ ret' = "config"
  <2>1. TurnLeft' = (13 + ErrorWrap) + 4 /\ ResetLeft = 5
    BY <1>5 DEF TurnLeft, CloudPoints, SmartPoints, SmartLeft, ResetLeft
  <2> QED
    BY <1>1, <1>2, <2>1
<1>6. \/ pc = "setup" /\ pc' = "loop"
      \/ pc = "loop" /\ pc' \in {"clear", "start", "config"}
      \/ pc = "clear" /\ pc' = "stop"
      \/ pc = "stop" /\ pc' \in {"restart", "config"}
      \/ pc = "start" /\ pc' = "config"
      \/ pc = "restart" /\ pc' = "sc.clear" /\ ret' = "config"
  BY DEF Setup, Reset, ResetTimer, ResetFlags, Clearing, StopChip, Restart, StayOff,
         NotDue, Start
<1> QED
  BY <1>3, <1>4, <1>5, <1>6

(* The steps of smart config and of the advertisement.                     *)
LEMMA SmartTurn ==
  ASSUME TypeOK, SmartConfig
  PROVE  TurnLeft' < TurnLeft
<1>1. ErrorWrap \in Nat /\ ret \in {"config", "mdns"}
  BY WlanAssumption DEF TypeOK, RestOK
<1>2. \/ pc = "config" /\ (pc' = "mdns" \/ (pc' = "sc.clear" /\ ret' = "mdns"))
      \/ /\ ret' = ret
         /\ \/ pc = "sc.clear" /\ pc' = "sc.policy"
            \/ pc = "sc.policy" /\ pc' = "sc.wait"
            \/ pc = "sc.wait" /\ pc' = "sc.start"
      \/ pc = "sc.start" /\ pc' = ret
      \/ pc = "mdns" /\ pc' = "cloud"
  BY DEF SmartConfig, Config, ScClear, ScBegin, ScEnd, ScStart, Advertise, local
<1> DEFINE base == 8 + ErrorWrap
<1>3. CASE pc = "config" /\ (pc' = "mdns" \/ (pc' = "sc.clear" /\ ret' = "mdns"))
  <2>1. TurnLeft = base + 5 /\ TurnLeft' \in {base, base + 4}
    BY <1>1, <1>3 DEF TurnLeft, CloudPoints, SmartPoints, SmartLeft
  <2> QED
    BY <1>1, <2>1
<1>4. CASE /\ ret' = ret
           /\ \/ pc = "sc.clear" /\ pc' = "sc.policy"
              \/ pc = "sc.policy" /\ pc' = "sc.wait"
              \/ pc = "sc.wait" /\ pc' = "sc.start"
  <2> DEFINE floor == (IF ret = "mdns" THEN 8 ELSE 13) + ErrorWrap
  <2>1. /\ TurnLeft = floor + SmartLeft /\ TurnLeft' = floor + SmartLeft'
        /\ floor \in Nat
    BY <1>1, <1>4 DEF TurnLeft, CloudPoints, SmartPoints
  <2>2. SmartLeft \in Nat /\ SmartLeft' \in Nat /\ SmartLeft' < SmartLeft
    BY <1>4 DEF SmartLeft
  <2>3. \A n, a, b \in Nat : a < b => n + a < n + b
    OBVIOUS
  <2>4. floor + SmartLeft' < floor + SmartLeft
    <3> HIDE DEF floor, SmartLeft
    <3> QED
      BY <2>1, <2>2, <2>3
  <2> QED
    BY <2>1, <2>4
<1>5. CASE pc = "sc.start" /\ pc' = ret
  <2>1. CASE ret = "config"
    <3>1. TurnLeft = 14 + ErrorWrap /\ TurnLeft' = 13 + ErrorWrap
      BY <1>1, <1>5, <2>1 DEF TurnLeft, CloudPoints, SmartPoints, SmartLeft
    <3> QED
      BY <1>1, <3>1
  <2>2. CASE ret = "mdns"
    <3>1. TurnLeft = base + 1 /\ TurnLeft' = base
      BY <1>1, <1>5, <2>2 DEF TurnLeft, CloudPoints, SmartPoints, SmartLeft
    <3> QED
      BY <1>1, <3>1
  <2> QED
    BY <1>1, <2>1, <2>2
<1>6. CASE pc = "mdns" /\ pc' = "cloud"
  <2>1. TurnLeft = base /\ TurnLeft' = 7 + ErrorWrap
    BY <1>6 DEF TurnLeft, CloudPoints, SmartPoints
  <2> QED
    BY <1>1, <2>1
<1> QED
  BY <1>2, <1>3, <1>4, <1>5, <1>6

(* The steps of the connection to the cloud.                               *)
LEMMA CloudTurn ==
  ASSUME TypeOK, Cloud
  PROVE  TurnLeft' < TurnLeft
<1>1. /\ ErrorWrap \in Nat /\ ErrorWrap > 3
      /\ Spark_Error_Count \in 0..(ErrorWrap - 1)
  BY WlanAssumption DEF TypeOK, CloudOK
<1>2. CASE CloudOn /\ pc' = "blink"
  <2>1. Spark_Error_Count' = Spark_Error_Count
    BY <1>2 DEF CloudOn, online, errors
  <2>2. BlinksLeft' = BlinksLeft
    BY <2>1 DEF BlinksLeft
  <2>3. BlinksLeft \in Int /\ BlinksLeft <= ErrorWrap
    BY <1>1 DEF BlinksLeft
  <2>4. TurnLeft = 7 + ErrorWrap /\ TurnLeft' = 6 + BlinksLeft
    BY <1>2, <2>2 DEF CloudOn, TurnLeft, CloudPoints, SmartPoints
  <2> HIDE DEF BlinksLeft
  <2> QED
    BY <1>1, <2>3, <2>4
<1>3. CASE Blink
  <2> DEFINE count == (Spark_Error_Count + ErrorWrap - 1) % ErrorWrap
  <2>1. /\ pc = "blink" /\ Spark_Error_Count' = count
        /\ pc' = IF count # 0 THEN "blink" ELSE "dial"
    BY <1>3 DEF Blink, Blinking
  <2>2. count = IF Spark_Error_Count = 0 THEN ErrorWrap - 1 ELSE Spark_Error_Count - 1
    BY <1>1
  <2>3. BlinksLeft \in Nat /\ count = BlinksLeft - 1
    BY <1>1, <2>2 DEF BlinksLeft
  <2>4. TurnLeft = 6 + BlinksLeft
    BY <2>1 DEF TurnLeft, CloudPoints, SmartPoints
  <2>5. CASE count = 0
    <3>1. TurnLeft' = 6 /\ BlinksLeft = 1
      BY <2>1, <2>3, <2>5 DEF TurnLeft, CloudPoints, CloudLeft
    <3> QED
      BY <2>4, <3>1
  <2>6. CASE count # 0
    <3>1. BlinksLeft' = count
      BY <2>1, <2>6 DEF BlinksLeft
    <3>2. TurnLeft' = 6 + count
      BY <2>1, <2>6, <3>1 DEF TurnLeft, CloudPoints, SmartPoints
    <3> HIDE DEF count, BlinksLeft
    <3> QED
      BY <2>3, <2>4, <3>2
  <2> HIDE DEF count
  <2> QED
    BY <2>5, <2>6
<1>4. CASE /\ pc = "cloud" /\ pc' \in CloudPoints
  <2>1. TurnLeft = 7 + ErrorWrap /\ TurnLeft' = CloudLeft'
    BY <1>4 DEF TurnLeft, CloudPoints, SmartPoints
  <2>2. CloudLeft' \in 0..6
    BY DEF CloudLeft
  <2> HIDE DEF CloudLeft
  <2> QED
    BY <1>1, <2>1, <2>2
<1>5. CASE \/ pc = "dial" /\ pc' \in {"dialed", "failed"}
           \/ pc \in {"dialed", "failed"} /\ pc' = "talk"
           \/ pc = "talk" /\ pc' \in {"app", "comm", "shaken"}
           \/ pc = "shaken" /\ pc' = "comm"
           \/ pc = "comm" /\ pc' \in {"app", "prepare"}
           \/ pc = "prepare" /\ pc' = "app"
  <2>1. TurnLeft = CloudLeft /\ TurnLeft' = CloudLeft'
    BY <1>5 DEF TurnLeft, CloudPoints
  <2>2. CloudLeft' < CloudLeft
    BY <1>5 DEF CloudLeft
  <2> QED
    BY <2>1, <2>2
<1>6. \/ CloudOn /\ pc' = "blink"
      \/ Blink
      \/ pc = "cloud" /\ pc' \in {"app", "talk", "dial"}
      \/ pc = "dial" /\ pc' \in {"dialed", "failed"}
      \/ pc \in {"dialed", "failed"} /\ pc' = "talk"
      \/ pc = "talk" /\ pc' \in {"app", "comm", "shaken"}
      \/ pc = "shaken" /\ pc' = "comm"
      \/ pc = "comm" /\ pc' \in {"app", "prepare"}
      \/ pc = "prepare" /\ pc' = "app"
  <2>1. CloudOn => pc = "cloud" /\ pc' \in {"talk", "blink", "dial"}
    BY DEF CloudOn
  <2>2. CloudOff => pc = "cloud" /\ pc' = "app"
    BY DEF CloudOff
  <2>3. Dial => pc = "dial" /\ pc' \in {"dialed", "failed"}
    BY DEF Dial
  <2>4. Dialed \/ Failed => pc \in {"dialed", "failed"} /\ pc' = "talk"
    BY DEF Dialed, Failed, Failing
  <2>5. Talk => pc = "talk" /\ pc' \in {"app", "comm", "shaken"}
    BY DEF Talk
  <2>6. Shaken => pc = "shaken" /\ pc' = "comm"
    BY DEF Shaken
  <2>7. CommFine \/ CommFails => pc = "comm" /\ pc' \in {"app", "prepare"}
    BY DEF CommFine, CommFails, Failure
  <2>8. Prepare => pc = "prepare" /\ pc' = "app"
    BY DEF Prepare
  <2> QED
    BY <2>1, <2>2, <2>3, <2>4, <2>5, <2>6, <2>7, <2>8 DEF Cloud
<1>7. pc = "cloud" /\ pc' \in {"app", "talk", "dial"} => pc' \in CloudPoints
  BY DEF CloudPoints
<1> QED
  BY <1>2, <1>3, <1>4, <1>5, <1>6, <1>7

(* What runs beside the thread does not move it, the reset apart.          *)
LEMMA OthersTurn ==
  ASSUME TypeOK, Next, ~Thread
  PROVE  TurnLeft' = TurnLeft \/ SystemReset \/ (OnDisconnect /\ pc = "blink")
<1>1. ASSUME UNCHANGED <<pc, ret>>, pc = "blink" => Spark_Error_Count' = Spark_Error_Count
      PROVE  TurnLeft' = TurnLeft
  <2>1. /\ SmartLeft' = SmartLeft /\ CloudLeft' = CloudLeft /\ ResetLeft' = ResetLeft
    BY <1>1 DEF SmartLeft, CloudLeft, ResetLeft
  <2>2. pc = "blink" => BlinksLeft' = BlinksLeft
    BY <1>1 DEF BlinksLeft
  <2> HIDE DEF SmartLeft, CloudLeft, ResetLeft, BlinksLeft
  <2> QED
    BY <1>1, <2>1, <2>2 DEF TurnLeft
<1>2. CASE AppCall \/ SerialConfig
  BY <1>1, <1>2 DEF AppCall, SerialConfig, local, online, errors
<1>3. CASE OnDisconnect
  BY <1>1, <1>3 DEF OnDisconnect, Disconnecting, local
<1>4. CASE OnConnect \/ OnDhcp
  BY <1>1, <1>4 DEF OnConnect, OnDhcp, local, online, errors
<1>5. CASE OnConfigDone \/ OnCloseWait
  BY <1>1, <1>5 DEF OnConfigDone, OnCloseWait, local, online, errors
<1>6. CASE Elapse \/ Button
  BY <1>1, <1>6 DEF Elapse, Button, local, online, errors
<1>7. CASE World
  <2>1. UNCHANGED <<pc, local, online>>
    BY <1>7 DEF World, Join, Lease, Refuse, Leave, Told, Hangup, Change
  <2> QED
    BY <1>1, <2>1 DEF local, online, errors
<1> QED
  BY <1>2, <1>3, <1>4, <1>5, <1>6, <1>7 DEF Next, Callback

(* No turn of main()'s loop is endless: the thread waits for the user's    *)
(* smart config or the chip, or it has a step less to go to user code.     *)
THEOREM TurnComesToAnEnd == Spec => TurnEnds
<1>1. IInv => TurnLeft \in 0..(22 + ErrorWrap)
  BY TurnTypes DEF IInv
<1>2. IInv /\ [Next]_vars =>
        [/\ Thread => Application \/ TurnLeft' < TurnLeft
         /\ ~Thread => \/ TurnLeft' = TurnLeft
                       \/ SystemReset
                       \/ OnDisconnect /\ pc = "blink"]_vars
  BY ResetTurn, SmartTurn, CloudTurn, OthersTurn DEF IInv, Thread
<1> QED
  BY <1>1, <1>2, Invariant, PTL DEF Spec, TurnEnds
=============================================================================
