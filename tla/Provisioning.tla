----------------------------- MODULE Provisioning -----------------------------
(***************************************************************************)
(* How the device gets its network.  Qt asks for it; the Bluetooth thread  *)
(* (write_plate_blue_scan, bluetask.go) stops the main loop and listens to *)
(* a phone that broadcasts, over and over, the fragments of four fields:   *)
(*   si  the name of the wifi      pd  its password                        *)
(*   sd  the canteen               tk  the token for the binding           *)
(* A fragment carries the number of fragments of its field and its own     *)
(* place.  Fields are put together in order, decrypted, and when all that  *)
(* are needed are there the wifi is configured, a binding is asked for     *)
(* and the time thread (write_plate_init_ntp_time) fetches the time again, *)
(* which may restart the process.                                          *)
(*                                                                         *)
(* The settings of the phone are numbered; setting s makes the four fields *)
(* of s.  What a buffer holds is the setting whose first fragments it      *)
(* holds in order, None, or Garbage for any other mixture.                 *)
(***************************************************************************)
EXTENDS Naturals, FiniteSets

CONSTANTS
  MaxSettings,  \* bound on the settings the phone broadcasts
  Total,        \* Total[f][s]: fragments of field f of setting s
  MaxNoise,     \* bound on the lines of other devices that look like a name
  MaxProvisions, \* bound on the times Qt asks for the network
  MaxUnbinds    \* bound on the unbindings by Qt

Fields   == {"si", "pd", "sd", "tk"}
Settings == 1..MaxSettings

ASSUME BoundAssumption ==
  /\ MaxSettings \in Nat \ {0}
  /\ MaxNoise \in Nat /\ MaxProvisions \in Nat /\ MaxUnbinds \in Nat

ASSUME TotalAssumption == Total \in [Fields -> [Settings -> Nat \ {0}]]

VARIABLES
  phone,       \* what the phone broadcasts
  blueflag, mainTaskFlag, ntpflag, wPSetWifiFlag,
  bindStartFlag, netConnectStatus,
  blue,        \* Bluetooth thread: "idle" "scan" "found" "configured"
  num,         \* ssidrecnum, pdrecnum, sdrecnum, tkrecnum
  buffer,      \* ssidtempbuffer, pdtempbuffer, sdtempbuffer, tktempbuffer
  bWifiConSta, \* the fields this scan has got
  value,       \* ssidstr, pskstr, bindRestaurantID, siteBindToken
  ntp,         \* the time thread: "wait", "good", "bad"
  registered,  \* the status is not INIT_STATUS
  bound,       \* the device is bound
  wifi,        \* name and password in wpa_supplicant.conf
  link,        \* wlan0 is up and in the network of wifi
  noises, provisions, unbinds

\* History.
VARIABLES
  changed,     \* the phone has changed its settings
  spent,       \* a token has been put together since the process started
  owed,        \* a provisioning for a binding has ended, and no binding yet
  forgotten,   \* a restart has forgotten such a one, or that Qt asked
  renew,       \* the time is to be fetched again
  raced        \* the answer to an earlier request has come between

bluevars == <<blue, num, buffer, bWifiConSta, value>>
counts   == <<noises, provisions, unbinds>>
history  == <<changed, spent, owed, forgotten, renew, raced>>
vars == <<phone, blueflag, mainTaskFlag, ntpflag, wPSetWifiFlag,
          bindStartFlag, netConnectStatus, bluevars, ntp,
          registered, bound, wifi, link, counts, history>>

None    == 0
Garbage == MaxSettings + 1
Values  == 0..(MaxSettings + 1)
Needed  == IF registered THEN Fields ELSE {"si", "pd"}
\* The wifi of a setting works when name and password belong together.
Works(w) == w.si \in Settings /\ w.pd = w.si

Fresh ==
  /\ blueflag' = FALSE /\ mainTaskFlag' = TRUE
  /\ ntpflag' = TRUE
  /\ wPSetWifiFlag' = FALSE /\ bindStartFlag' = FALSE
  /\ netConnectStatus' = FALSE
  /\ blue' = "idle" /\ ntp' = "wait"
  /\ num' = [f \in Fields |-> 1] /\ buffer' = [f \in Fields |-> None]
  /\ bWifiConSta' = {} /\ value' = [f \in Fields |-> None]

Init ==
  /\ phone = 1
  /\ blueflag = FALSE /\ mainTaskFlag = TRUE
  /\ ntpflag = TRUE
  /\ wPSetWifiFlag = FALSE /\ bindStartFlag = FALSE
  /\ netConnectStatus = FALSE
  /\ blue = "idle" /\ ntp = "wait"
  /\ num = [f \in Fields |-> 1] /\ buffer = [f \in Fields |-> None]
  /\ bWifiConSta = {} /\ value = [f \in Fields |-> None]
  /\ registered \in BOOLEAN /\ bound = FALSE
  /\ wifi = [si |-> None, pd |-> None] /\ link = FALSE
  /\ noises = 0 /\ provisions = 0 /\ unbinds = 0
  /\ changed = FALSE /\ spent = FALSE /\ owed = FALSE /\ forgotten = FALSE
  /\ renew = FALSE /\ raced = FALSE

-----------------------------------------------------------------------------
(* The outside world *)

ChangeSettings ==
  /\ phone < MaxSettings /\ phone' = phone + 1
  /\ changed' = TRUE
  /\ UNCHANGED <<blueflag, mainTaskFlag, ntpflag, wPSetWifiFlag,
                 bindStartFlag, netConnectStatus, bluevars, ntp, registered,
                 bound, wifi, link, counts, spent, owed, forgotten, renew,
                 raced>>

\* WRPLATE_INIT_BIND_CMD and write_plate_set_blue_scan
QtProvision ==
  /\ provisions < MaxProvisions /\ provisions' = provisions + 1
  /\ blueflag' = TRUE /\ link' = FALSE
  /\ UNCHANGED <<phone, mainTaskFlag, ntpflag, wPSetWifiFlag, bindStartFlag,
                 netConnectStatus, bluevars, ntp, registered, bound, wifi,
                 noises, unbinds, history>>

(* WRPLATE_UNBIND_CMD: the wifi file is written without name and password. *)
(* When the backend answers a new binding may be asked for (the steps are  *)
(* in Binding).  The next network is to restart the device, unless its     *)
(* status is below 2 still (msgTask.c:517): a registered device may be in  *)
(* WAIT_TOPIC, 1, so that either may follow.                               *)
QtUnbind ==
  /\ unbinds < MaxUnbinds /\ unbinds' = unbinds + 1
  /\ bound' = FALSE /\ owed' = FALSE
  /\ wifi' = [si |-> None, pd |-> None]
  /\ bindStartFlag' \in {bindStartFlag, TRUE}
  /\ wPSetWifiFlag' \in {wPSetWifiFlag, wPSetWifiFlag \/ registered}
  /\ UNCHANGED <<phone, blueflag, mainTaskFlag, ntpflag, netConnectStatus,
                 bluevars, ntp, registered, link, noises, provisions,
                 changed, spent, forgotten, renew, raced>>

-----------------------------------------------------------------------------
(* The Bluetooth thread *)

BlueSame == UNCHANGED <<phone, wPSetWifiFlag, netConnectStatus, ntp,
                        registered, bound, provisions, unbinds, changed,
                        forgotten>>

\* Other tasks stop, and no time is fetched meanwhile.
ScanStart ==
  /\ blue = "idle" /\ blueflag
  /\ blue' = "scan" /\ bWifiConSta' = {}
  /\ mainTaskFlag' = FALSE /\ ntpflag' = FALSE
  /\ BlueSame
  /\ UNCHANGED <<blueflag, bindStartFlag, num, buffer, value, wifi, link,
                 noises, spent, owed, renew, raced>>

(* What decrypting the buffer of a field gives when a fragment says that   *)
(* it has t fragments: the setting; or, for anything else but nothing at   *)
(* all, perhaps garbage that has the form of a text.                       *)
Decoded(f, b, t) ==
  IF b \in Settings /\ Total[f][b] = t THEN {b}
  ELSE IF b = None THEN {None} ELSE {None, Garbage}

\* The buffer after a fragment of setting s has been added at place i.
Added(b, s, i) == IF b = IF i = 1 THEN None ELSE s THEN s ELSE Garbage

\* Mutants of Reset: the canteen puts nothing back; from 0 instead of 1.
ResetSome(f, n) == IF f = "sd" THEN n
                   ELSE [n EXCEPT ![IF f = "tk" THEN "pd" ELSE f] = 1]
ResetToZero(f, n) == [n EXCEPT ![IF f = "tk" THEN "pd" ELSE f] = 0]

(* A counter goes back to 1 with its field; the token puts the counter of  *)
(* the password back instead of its own.                                   *)
Reset(f, n) == [n EXCEPT ![IF f = "tk" THEN "pd" ELSE f] = 1]

\* Mutant of Emptied: what the buffer holds stays for the next scan.
Kept(f, b) == b

Emptied(f, b) == [b EXCEPT ![f] = None]

(* Fragment i of field f.  A fragment that is not the next one is dropped, *)
(* but its total is compared with the counter all the same.                *)
Fragment(f, i) ==
  LET s    == phone
      t    == Total[f][s]
      next == i = num[f]
      n    == IF next THEN [num EXCEPT ![f] = i + 1] ELSE num
      b    == IF next THEN [buffer EXCEPT ![f] = Added(buffer[f], s, i)]
              ELSE buffer
  IN
  /\ blue = "scan" /\ ~(Needed \subseteq bWifiConSta)
  /\ f \notin bWifiConSta /\ i \in 1..t
  /\ next \/ n[f] = t + 1
  /\ IF n[f] # t + 1
     THEN num' = n /\ buffer' = b /\ UNCHANGED <<bWifiConSta, value, blue>>
     ELSE \E v \in Decoded(f, b[f], t) :
            /\ num' = Reset(f, n) /\ buffer' = Emptied(f, b)
            /\ IF v = None THEN blue' = "idle" /\ UNCHANGED <<bWifiConSta, value>>
               ELSE /\ bWifiConSta' = bWifiConSta \cup {f}
                    /\ value' = [value EXCEPT ![f] = v]
                    /\ UNCHANGED blue
  /\ spent' = (spent \/ (f = "tk" /\ n[f] = t + 1))
  /\ BlueSame
  /\ UNCHANGED <<blueflag, mainTaskFlag, ntpflag, bindStartFlag, wifi, link,
                 noises, owed, renew, raced>>

\* A line with "si" in it that is too short ends the scan, which starts anew.
Noise ==
  /\ blue = "scan" /\ "si" \notin bWifiConSta
  /\ noises < MaxNoise /\ noises' = noises + 1
  /\ blue' = "idle"
  /\ BlueSame
  /\ UNCHANGED <<blueflag, mainTaskFlag, ntpflag, bindStartFlag, num, buffer,
                 bWifiConSta, value, wifi, link, spent, owed, renew, raced>>

\* write_data_wifi_config_file
WifiFile(v) == [f \in {"si", "pd"} |-> v[f]]

ScanDone ==
  /\ blue = "scan" /\ Needed \subseteq bWifiConSta
  /\ wifi' = WifiFile(value)
  /\ blue' = "found"
  /\ BlueSame
  /\ UNCHANGED <<blueflag, mainTaskFlag, ntpflag, bindStartFlag, num, buffer,
                 bWifiConSta, value, link, noises, spent, owed, renew, raced>>

\* Mutant of Configured: the binding is not asked for.
ConfiguredOnly ==
  /\ blue = "found" /\ blue' = "configured"
  /\ blueflag' = FALSE /\ UNCHANGED bindStartFlag
  /\ owed' = /\ registered /\ Fields \subseteq bWifiConSta
             /\ Works(wifi) /\ ~bound
  /\ BlueSame
  /\ UNCHANGED <<mainTaskFlag, ntpflag, num, buffer, bWifiConSta, value, wifi,
                 link, noises, spent, renew, raced>>

Configured ==
  /\ blue = "found" /\ blue' = "configured"
  /\ blueflag' = FALSE /\ bindStartFlag' = TRUE
  /\ owed' = /\ registered /\ Fields \subseteq bWifiConSta
             /\ Works(wifi) /\ ~bound
  /\ BlueSame
  /\ UNCHANGED <<mainTaskFlag, ntpflag, num, buffer, bWifiConSta, value, wifi,
                 link, noises, spent, renew, raced>>

\* Mutant of Reconnect: the time is not asked for.
ReconnectOnly ==
  /\ blue = "configured" /\ blue' = "idle"
  /\ link' = Works(wifi)
  /\ UNCHANGED ntpflag /\ mainTaskFlag' = TRUE
  /\ renew' = TRUE /\ raced' = (ntp = "good")
  /\ BlueSame
  /\ UNCHANGED <<blueflag, bindStartFlag, num, buffer, bWifiConSta, value,
                 wifi, noises, spent, owed>>

\* wifi_connect.sh, and the other tasks go on.
Reconnect ==
  /\ blue = "configured" /\ blue' = "idle"
  /\ link' = Works(wifi)
  /\ ntpflag' = TRUE /\ mainTaskFlag' = TRUE
  /\ renew' = TRUE /\ raced' = (ntp = "good")
  /\ BlueSame
  /\ UNCHANGED <<blueflag, bindStartFlag, num, buffer, bWifiConSta, value,
                 wifi, noises, spent, owed>>

-----------------------------------------------------------------------------
(* The time thread *)

NtpSame == UNCHANGED <<phone, registered, bound, wifi, link, counts, changed,
                       raced>>

NtpAsk ==
  /\ ntp = "wait" /\ ntpflag
  /\ ntp' = IF link THEN "good" ELSE "bad"
  /\ NtpSame
  /\ UNCHANGED <<blueflag, mainTaskFlag, ntpflag, wPSetWifiFlag,
                 bindStartFlag, netConnectStatus, bluevars, spent, owed,
                 forgotten, renew>>

NtpFailed ==
  /\ ntp = "bad" /\ ntp' = "wait"
  /\ netConnectStatus' = FALSE
  /\ NtpSame
  /\ UNCHANGED <<blueflag, mainTaskFlag, ntpflag, wPSetWifiFlag,
                 bindStartFlag, bluevars, spent, owed, forgotten, renew>>

(* The time is there.  Whatever has asked for it meanwhile, the flag is    *)
(* put back.                                                               *)
NtpGood ==
  /\ ntp = "good" /\ ~wPSetWifiFlag
  /\ ntp' = "wait"
  /\ netConnectStatus' = TRUE /\ ntpflag' = FALSE
  /\ renew' = FALSE
  /\ NtpSame
  /\ UNCHANGED <<blueflag, mainTaskFlag, wPSetWifiFlag, bindStartFlag,
                 bluevars, spent, owed, forgotten>>

(* rebootgolang.sh, when the network has been set after an unbinding: the  *)
(* canteen, the token and the request for a binding are gone.              *)
NtpRestarts ==
  /\ ntp = "good" /\ wPSetWifiFlag
  /\ Fresh
  /\ spent' = FALSE /\ forgotten' = (forgotten \/ owed \/ blueflag)
  /\ NtpSame /\ UNCHANGED <<owed, renew>>

-----------------------------------------------------------------------------
(* The main loop: the binding, whose steps are in Binding *)

(* INIT_STATUS: the device is made known to the backend (the main loop may *)
(* be at it when a scan starts).                                           *)
Register ==
  /\ ~registered /\ netConnectStatus
  /\ registered' = TRUE
  /\ UNCHANGED <<phone, blueflag, mainTaskFlag, ntpflag, wPSetWifiFlag,
                 bindStartFlag, netConnectStatus, bluevars, ntp, bound, wifi,
                 link, counts, history>>

\* The backend takes a token that belongs to the canteen.
Bind ==
  /\ mainTaskFlag /\ registered /\ ~bound /\ bindStartFlag /\ link
  /\ value["sd"] = value["tk"] /\ value["sd"] \in Settings
  /\ bound' = TRUE /\ bindStartFlag' = FALSE /\ owed' = FALSE
  /\ UNCHANGED <<phone, blueflag, mainTaskFlag, ntpflag, wPSetWifiFlag,
                 netConnectStatus, bluevars, ntp, registered, wifi, link,
                 counts, changed, spent, forgotten, renew, raced>>

-----------------------------------------------------------------------------
Receive  == \E f \in Fields : \E i \in 1..Total[f][phone] : Fragment(f, i)
BlueStep == ScanStart \/ ScanDone \/ Configured \/ Reconnect
NtpStep  == NtpAsk \/ NtpFailed \/ NtpGood \/ NtpRestarts

Next == \/ ChangeSettings \/ QtProvision \/ QtUnbind
        \/ Receive \/ Noise \/ BlueStep \/ NtpStep \/ Register \/ Bind

Spec == Init /\ [][Next]_vars

(* The threads loop for ever.  The phone repeats its fragments, so that    *)
(* while a scan lacks a field one of the fragments it can use is heard in  *)
(* the end.  The backend answers a device that has just been provisioned;  *)
(* nothing is asked of it for older tokens.                                *)
FairSpec == Spec /\ WF_vars(BlueStep \/ Receive) /\ WF_vars(NtpStep)
                 /\ WF_vars(Register) /\ WF_vars(owed /\ Bind)

-----------------------------------------------------------------------------
(* Properties *)

DataOK ==
  /\ phone \in Settings
  /\ blue \in {"idle", "scan", "found", "configured"}
  /\ num \in [Fields -> Nat \ {0}]
  /\ buffer \in [Fields -> Values] /\ value \in [Fields -> Values]
  /\ bWifiConSta \in SUBSET Fields
  /\ \A f \in bWifiConSta : value[f] # None
  /\ ntp \in {"wait", "good", "bad"}
  /\ wifi \in [{"si", "pd"} -> Values]
  /\ noises \in 0..MaxNoise
  /\ provisions \in 0..MaxProvisions /\ unbinds \in 0..MaxUnbinds

FlagsOK ==
  /\ blueflag \in BOOLEAN /\ mainTaskFlag \in BOOLEAN /\ ntpflag \in BOOLEAN
  /\ wPSetWifiFlag \in BOOLEAN /\ bindStartFlag \in BOOLEAN
  /\ netConnectStatus \in BOOLEAN
  /\ registered \in BOOLEAN /\ bound \in BOOLEAN /\ link \in BOOLEAN
  /\ changed \in BOOLEAN /\ spent \in BOOLEAN /\ owed \in BOOLEAN
  /\ forgotten \in BOOLEAN /\ renew \in BOOLEAN /\ raced \in BOOLEAN

\* The values the variables may take.
TypeOK == DataOK /\ FlagsOK

(* No mixture of fragments is ever written to the wifi file, unless the    *)
(* phone changed its settings or a token had been put together before in   *)
(* this run of the process.                                                *)
WifiIsWhole ==
  [][wifi' # wifi /\ Garbage \in {(wifi.si)', (wifi.pd)'} => changed \/ spent]_vars

(* The main loop, stopped for a provisioning, goes on in the end, however  *)
(* many scans noise has ended - unless the phone changed its settings or a *)
(* token had been put together before.                                     *)
MainResumes == ~mainTaskFlag ~> mainTaskFlag \/ changed \/ spent

(* A provisioning for a binding is followed by the binding, unless the     *)
(* restart for the new network forgets it, the phone has changed its       *)
(* settings or another scan has stopped the main loop.                     *)
BindFollows == owed ~> ~owed \/ forgotten \/ changed \/ ~mainTaskFlag

(* After a provisioning the time is fetched again, over the new network -  *)
(* if that works - unless the answer of the old one comes just then, a     *)
(* restart forgets that Qt has asked for another network, or another scan  *)
(* has stopped the main loop.                                              *)
TimeFetched ==
  renew ~> ~renew \/ raced \/ forgotten \/ ~Works(wifi) \/ ~mainTaskFlag
-----------------------------------------------------------------------------
(* The invariant that makes WifiIsWhole inductive                          *)

(* As long as the phone keeps its settings and no token is put together, a *)
(* buffer holds the fragments before its counter, in order.                *)
InOrder(f) ==
  \/ num[f] = 1 /\ buffer[f] = None
  \/ num[f] \in 2..Total[f][1] /\ buffer[f] = 1

WholeInv ==
  /\ ~changed => phone = 1
  /\ ~changed /\ ~spent => \A f \in Fields : InOrder(f) /\ value[f] \in {None, 1}
=============================================================================
