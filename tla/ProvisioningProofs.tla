-------------------------- MODULE ProvisioningProofs --------------------------
(***************************************************************************)
(* Proofs about Provisioning: the values keep their types, and as long as  *)
(* the phone keeps its settings and no token has been put together, what   *)
(* the buffers hold is in order, so that no mixture of fragments reaches   *)
(* the wifi file.                                                          *)
(***************************************************************************)
EXTENDS Provisioning, TLAPS

USE DEF None, Settings, Fields

(* What decrypting gives is a setting, nothing, or garbage. *)
LEMMA DecodedTyped ==
  ASSUME NEW f \in Fields, NEW b \in Values, NEW t \in Nat
  PROVE  Decoded(f, b, t) \subseteq Values
BY BoundAssumption, SMT DEF Decoded, Values, Garbage

(* The buffer after a fragment holds a setting, nothing, or garbage. *)
LEMMA AddedTyped ==
  ASSUME NEW b \in Values, NEW s \in Settings, NEW i \in Nat
  PROVE  Added(b, s, i) \in Values
BY BoundAssumption, SMT DEF Added, Values, Garbage

-----------------------------------------------------------------------------
(* The step that takes a fragment, by its two outcomes: the field is still *)
(* incomplete, or it is decrypted.                                         *)
LEMMA FragmentData ==
  ASSUME DataOK, NEW f \in Fields, NEW i \in 1..Total[f][phone], Fragment(f, i)
  PROVE  DataOK'
<1> DEFINE t == Total[f][phone]
           n == IF i = num[f] THEN [num EXCEPT ![f] = i + 1] ELSE num
           b == IF i = num[f] THEN [buffer EXCEPT ![f] = Added(buffer[f], phone, i)]
                ELSE buffer
<1>1. t \in Nat \ {0} /\ i \in Nat /\ phone \in Settings
  <2>1. phone \in Settings
    BY DEF DataOK
  <2>2. t \in Nat \ {0}
    BY <2>1, TotalAssumption
  <2> QED BY <2>1, <2>2, SMT
<1>2. n \in [Fields -> Nat \ {0}]
  BY <1>1, SMT DEF DataOK
<1>3. b \in [Fields -> Values]
  <2>1. Added(buffer[f], phone, i) \in Values
    BY <1>1, AddedTyped DEF DataOK
  <2> QED BY <2>1, SMT DEF DataOK
<1>4. UNCHANGED <<phone, ntp, provisions, unbinds, wifi, noises>>
  BY DEF Fragment, BlueSame
<1>5. /\ num' \in [Fields -> Nat \ {0}] /\ buffer' \in [Fields -> Values]
      /\ value' \in [Fields -> Values] /\ bWifiConSta' \in SUBSET Fields
      /\ \A g \in bWifiConSta' : value'[g] # None
      /\ blue' \in {"idle", "scan", "found", "configured"}
  <2>1. CASE n[f] # t + 1
    <3>1. /\ num' = n /\ buffer' = b /\ bWifiConSta' = bWifiConSta
          /\ value' = value /\ blue' = blue
      BY <2>1 DEF Fragment
    <3> QED BY <3>1, <1>2, <1>3 DEF DataOK
  <2>2. CASE n[f] = t + 1
    <3>1. PICK v \in Decoded(f, b[f], t) :
            /\ num' = Reset(f, n) /\ buffer' = Emptied(f, b)
            /\ IF v = None THEN blue' = "idle" /\ UNCHANGED <<bWifiConSta, value>>
               ELSE /\ bWifiConSta' = bWifiConSta \cup {f}
                    /\ value' = [value EXCEPT ![f] = v]
                    /\ UNCHANGED blue
      BY <2>2 DEF Fragment
    <3>2. v \in Values
      <4>1. b[f] \in Values BY <1>3
      <4> HIDE DEF b, t
      <4> QED BY <4>1, <1>1, DecodedTyped
    <3>3. num' \in [Fields -> Nat \ {0}]
      <4> HIDE DEF n
      <4> QED BY <3>1, <1>2, SMT DEF Reset
    <3>4. buffer' \in [Fields -> Values]
      <4> HIDE DEF b
      <4> QED BY <3>1, <1>3, BoundAssumption, SMT DEF Emptied, Values
    <3>5. CASE v = None
      BY <3>1, <3>3, <3>4, <3>5 DEF DataOK
    <3>6. CASE v # None
      <4>1. /\ bWifiConSta' = bWifiConSta \cup {f} /\ blue' = blue
            /\ value' = [value EXCEPT ![f] = v]
        BY <3>1, <3>6
      <4> HIDE DEF n, b, t
      <4> QED BY <4>1, <3>2, <3>3, <3>4, <3>6, SMT DEF DataOK
    <3> QED BY <3>5, <3>6
  <2> QED BY <2>1, <2>2
<1> QED BY <1>4, <1>5 DEF DataOK

(* Every step keeps the types of the data. *)
LEMMA DataTyped == DataOK /\ [Next]_vars => DataOK'
<1> SUFFICES ASSUME DataOK, [Next]_vars PROVE DataOK'
  OBVIOUS
<1>1. CASE ChangeSettings
  BY <1>1, BoundAssumption, SMT DEF ChangeSettings, DataOK, bluevars, counts
<1>2. CASE QtProvision
  BY <1>2, BoundAssumption, SMT DEF QtProvision, DataOK, bluevars
<1>3. CASE QtUnbind
  BY <1>3, BoundAssumption, SMT DEF QtUnbind, DataOK, bluevars, Values
<1>4. CASE Receive
  BY <1>4, FragmentData DEF Receive
<1>5. CASE Noise
  BY <1>5, BoundAssumption, SMT DEF Noise, DataOK, BlueSame
<1>6. CASE ScanStart
  BY <1>6, SMT DEF ScanStart, DataOK, BlueSame
<1>7. CASE ScanDone
  BY <1>7, SMT DEF ScanDone, DataOK, BlueSame, WifiFile
<1>8. CASE Configured
  BY <1>8, SMT DEF Configured, DataOK, BlueSame
<1>9. CASE Reconnect
  BY <1>9, SMT DEF Reconnect, DataOK, BlueSame
<1>10. CASE NtpStep
  <2>1. CASE NtpAsk
    BY <2>1, SMT DEF NtpAsk, NtpSame, DataOK, bluevars, counts
  <2>2. CASE NtpFailed
    BY <2>2, SMT DEF NtpFailed, NtpSame, DataOK, bluevars, counts
  <2>3. CASE NtpGood
    BY <2>3, SMT DEF NtpGood, NtpSame, DataOK, bluevars, counts
  <2>4. CASE NtpRestarts
    BY <2>4, BoundAssumption, SMT
       DEF NtpRestarts, Fresh, NtpSame, DataOK, counts, Values
  <2> QED BY <1>10, <2>1, <2>2, <2>3, <2>4 DEF NtpStep
<1>11. CASE Register
  BY <1>11, SMT DEF Register, DataOK, bluevars, counts
<1>12. CASE Bind
  BY <1>12, SMT DEF Bind, DataOK, bluevars, counts
<1>13. CASE UNCHANGED vars
  BY <1>13, SMT DEF vars, DataOK, bluevars, counts
<1> QED
  BY <1>1, <1>2, <1>3, <1>4, <1>5, <1>6, <1>7, <1>8, <1>9, <1>10, <1>11,
     <1>12, <1>13 DEF Next, BlueStep

(* Every step keeps the flags Boolean. *)
LEMMA FlagsTyped == FlagsOK /\ [Next]_vars => FlagsOK'
<1> SUFFICES ASSUME FlagsOK, [Next]_vars PROVE FlagsOK'
  OBVIOUS
<1>1. CASE ChangeSettings
  BY <1>1, SMT DEF ChangeSettings, FlagsOK
<1>2. CASE QtProvision
  <2>1. blueflag' \in BOOLEAN /\ link' \in BOOLEAN
    BY <1>2, Zenon DEF QtProvision
  <2>2. UNCHANGED <<mainTaskFlag, ntpflag, wPSetWifiFlag, bindStartFlag,
                    netConnectStatus, registered, bound, changed, spent,
                    owed, forgotten, renew, raced>>
    BY <1>2 DEF QtProvision, history
  <2>3. /\ mainTaskFlag' \in BOOLEAN /\ ntpflag' \in BOOLEAN
        /\ wPSetWifiFlag' \in BOOLEAN /\ bindStartFlag' \in BOOLEAN
        /\ netConnectStatus' \in BOOLEAN /\ registered' \in BOOLEAN
        /\ bound' \in BOOLEAN
        /\ changed' \in BOOLEAN /\ spent' \in BOOLEAN /\ owed' \in BOOLEAN
        /\ forgotten' \in BOOLEAN /\ renew' \in BOOLEAN /\ raced' \in BOOLEAN
    BY <2>2, SMT DEF FlagsOK
  <2> QED BY <2>1, <2>3, Zenon DEF FlagsOK
<1>3. CASE QtUnbind
  <2>1. /\ bound' = FALSE /\ owed' = FALSE
        /\ bindStartFlag' \in {bindStartFlag, TRUE}
        /\ wPSetWifiFlag' \in {wPSetWifiFlag, wPSetWifiFlag \/ registered}
    BY <1>3 DEF QtUnbind
  <2>2. UNCHANGED <<blueflag, mainTaskFlag, ntpflag, netConnectStatus,
                    registered, link, changed, spent, forgotten, renew, raced>>
    BY <1>3 DEF QtUnbind
  <2>3. /\ bindStartFlag \in BOOLEAN /\ registered \in BOOLEAN
        /\ wPSetWifiFlag \in BOOLEAN
    BY Zenon DEF FlagsOK
  <2>4. /\ bound' \in BOOLEAN /\ owed' \in BOOLEAN
        /\ bindStartFlag' \in BOOLEAN /\ wPSetWifiFlag' \in BOOLEAN
    BY <2>1, <2>3, Zenon
  <2>5. /\ blueflag' \in BOOLEAN /\ mainTaskFlag' \in BOOLEAN
        /\ ntpflag' \in BOOLEAN /\ netConnectStatus' \in BOOLEAN
        /\ registered' \in BOOLEAN /\ link' \in BOOLEAN
        /\ changed' \in BOOLEAN /\ spent' \in BOOLEAN
        /\ forgotten' \in BOOLEAN /\ renew' \in BOOLEAN /\ raced' \in BOOLEAN
    BY <2>2, SMT DEF FlagsOK
  <2> QED BY <2>4, <2>5, Zenon DEF FlagsOK
<1>4. CASE Receive
  <2>1. PICK f \in Fields : \E i \in 1..Total[f][phone] : Fragment(f, i)
    BY <1>4, Zenon DEF Receive
  <2>2. PICK i \in 1..Total[f][phone] : Fragment(f, i)
    BY <2>1, Zenon
  <2> QED BY <2>2, SMT DEF Fragment, BlueSame, FlagsOK
<1>5. CASE Noise
  BY <1>5, SMT DEF Noise, FlagsOK, BlueSame
<1>6. CASE BlueStep
  <2> DEFINE Kept6 == UNCHANGED <<wPSetWifiFlag, netConnectStatus, registered,
                                  bound, changed, forgotten>>
  <2>1. CASE ScanStart
    <3>1. mainTaskFlag' \in BOOLEAN /\ ntpflag' \in BOOLEAN
      BY <2>1, Zenon DEF ScanStart
    <3>2. /\ Kept6
          /\ UNCHANGED <<blueflag, bindStartFlag, link, spent, owed, renew, raced>>
      BY <2>1 DEF ScanStart, BlueSame
    <3>3. /\ wPSetWifiFlag' \in BOOLEAN /\ netConnectStatus' \in BOOLEAN
          /\ registered' \in BOOLEAN /\ bound' \in BOOLEAN
          /\ changed' \in BOOLEAN /\ forgotten' \in BOOLEAN
          /\ blueflag' \in BOOLEAN /\ bindStartFlag' \in BOOLEAN
          /\ link' \in BOOLEAN /\ spent' \in BOOLEAN /\ owed' \in BOOLEAN
          /\ renew' \in BOOLEAN /\ raced' \in BOOLEAN
      BY <3>2, SMT DEF FlagsOK
    <3> QED BY <3>1, <3>3, Zenon DEF FlagsOK
  <2>2. CASE ScanDone
    <3>1. /\ Kept6
          /\ UNCHANGED <<blueflag, mainTaskFlag, ntpflag, bindStartFlag, link,
                         spent, owed, renew, raced>>
      BY <2>2 DEF ScanDone, BlueSame
    <3> QED BY <3>1, SMT DEF FlagsOK
  <2>3. CASE Configured
    <3>1. /\ blueflag' = FALSE /\ bindStartFlag' = TRUE
          /\ owed' = (/\ registered /\ Fields \subseteq bWifiConSta
                     /\ Works(wifi) /\ ~bound)
          /\ Kept6
          /\ UNCHANGED <<mainTaskFlag, ntpflag, link, spent, renew, raced>>
      BY <2>3 DEF Configured, BlueSame
    <3>2. blueflag' \in BOOLEAN /\ bindStartFlag' \in BOOLEAN /\ owed' \in BOOLEAN
      BY <3>1, Zenon
    <3>3. /\ wPSetWifiFlag' \in BOOLEAN /\ netConnectStatus' \in BOOLEAN
          /\ registered' \in BOOLEAN /\ bound' \in BOOLEAN
          /\ changed' \in BOOLEAN /\ forgotten' \in BOOLEAN
          /\ mainTaskFlag' \in BOOLEAN /\ ntpflag' \in BOOLEAN
          /\ link' \in BOOLEAN /\ spent' \in BOOLEAN
          /\ renew' \in BOOLEAN /\ raced' \in BOOLEAN
      BY <3>1, SMT DEF FlagsOK
    <3> QED BY <3>2, <3>3, Zenon DEF FlagsOK
  <2>4. CASE Reconnect
    <3>1. /\ link' = Works(wifi) /\ ntpflag' = TRUE /\ mainTaskFlag' = TRUE
          /\ renew' = TRUE /\ raced' = (ntp = "good")
          /\ Kept6
          /\ UNCHANGED <<blueflag, bindStartFlag, spent, owed>>
      BY <2>4 DEF Reconnect, BlueSame
    <3>2. /\ link' \in BOOLEAN /\ ntpflag' \in BOOLEAN /\ mainTaskFlag' \in BOOLEAN
          /\ renew' \in BOOLEAN /\ raced' \in BOOLEAN
      BY <3>1, Zenon DEF Works
    <3>3. /\ wPSetWifiFlag' \in BOOLEAN /\ netConnectStatus' \in BOOLEAN
          /\ registered' \in BOOLEAN /\ bound' \in BOOLEAN
          /\ changed' \in BOOLEAN /\ forgotten' \in BOOLEAN
          /\ blueflag' \in BOOLEAN /\ bindStartFlag' \in BOOLEAN
          /\ spent' \in BOOLEAN /\ owed' \in BOOLEAN
      BY <3>1, SMT DEF FlagsOK
    <3> QED BY <3>2, <3>3, Zenon DEF FlagsOK
  <2> QED BY <1>6, <2>1, <2>2, <2>3, <2>4 DEF BlueStep
<1>7. CASE NtpStep
  <2>1. UNCHANGED <<registered, bound, link, changed, raced>>
    BY <1>7 DEF NtpStep, NtpAsk, NtpFailed, NtpGood, NtpRestarts, NtpSame
  <2>2. CASE NtpAsk
    <3>1. UNCHANGED <<blueflag, mainTaskFlag, ntpflag, wPSetWifiFlag,
                      bindStartFlag, netConnectStatus, spent, owed,
                      forgotten, renew>>
      BY <2>2 DEF NtpAsk
    <3> QED BY <2>1, <3>1, SMT DEF FlagsOK
  <2>3. CASE NtpFailed
    <3>1. netConnectStatus' \in BOOLEAN
      BY <2>3, Zenon DEF NtpFailed
    <3>2. UNCHANGED <<blueflag, mainTaskFlag, ntpflag, wPSetWifiFlag,
                      bindStartFlag, spent, owed, forgotten, renew>>
      BY <2>3 DEF NtpFailed
    <3>3. /\ blueflag' \in BOOLEAN /\ mainTaskFlag' \in BOOLEAN
          /\ ntpflag' \in BOOLEAN /\ wPSetWifiFlag' \in BOOLEAN
          /\ bindStartFlag' \in BOOLEAN /\ spent' \in BOOLEAN
          /\ owed' \in BOOLEAN /\ forgotten' \in BOOLEAN /\ renew' \in BOOLEAN
          /\ registered' \in BOOLEAN /\ bound' \in BOOLEAN
          /\ link' \in BOOLEAN /\ changed' \in BOOLEAN /\ raced' \in BOOLEAN
      BY <2>1, <3>2, SMT DEF FlagsOK
    <3> QED BY <3>1, <3>3, Zenon DEF FlagsOK
  <2>4. CASE NtpGood
    <3>1. /\ netConnectStatus' = TRUE /\ ntpflag' = FALSE /\ renew' = FALSE
          /\ UNCHANGED <<blueflag, mainTaskFlag, wPSetWifiFlag,
                         bindStartFlag, spent, owed, forgotten>>
      BY <2>4 DEF NtpGood
    <3>2. netConnectStatus' \in BOOLEAN /\ ntpflag' \in BOOLEAN /\ renew' \in BOOLEAN
      BY <3>1, Zenon
    <3>3. /\ blueflag' \in BOOLEAN /\ mainTaskFlag' \in BOOLEAN
          /\ wPSetWifiFlag' \in BOOLEAN /\ bindStartFlag' \in BOOLEAN
          /\ spent' \in BOOLEAN /\ owed' \in BOOLEAN /\ forgotten' \in BOOLEAN
          /\ registered' \in BOOLEAN /\ bound' \in BOOLEAN
          /\ link' \in BOOLEAN /\ changed' \in BOOLEAN /\ raced' \in BOOLEAN
      BY <2>1, <3>1, SMT DEF FlagsOK
    <3> QED BY <3>2, <3>3, Zenon DEF FlagsOK
  <2>5. CASE NtpRestarts
    <3>1. /\ blueflag' = FALSE /\ mainTaskFlag' = TRUE /\ ntpflag' = TRUE
          /\ wPSetWifiFlag' = FALSE /\ bindStartFlag' = FALSE
          /\ netConnectStatus' = FALSE /\ spent' = FALSE
          /\ forgotten' = (forgotten \/ owed \/ blueflag)
          /\ UNCHANGED <<owed, renew>>
      BY <2>5 DEF NtpRestarts, Fresh
    <3>2. /\ blueflag' \in BOOLEAN /\ mainTaskFlag' \in BOOLEAN
          /\ ntpflag' \in BOOLEAN /\ wPSetWifiFlag' \in BOOLEAN
          /\ bindStartFlag' \in BOOLEAN /\ netConnectStatus' \in BOOLEAN
          /\ spent' \in BOOLEAN /\ forgotten' \in BOOLEAN
      BY <3>1, Zenon
    <3>3. /\ owed' \in BOOLEAN /\ renew' \in BOOLEAN
          /\ registered' \in BOOLEAN /\ bound' \in BOOLEAN
          /\ link' \in BOOLEAN /\ changed' \in BOOLEAN /\ raced' \in BOOLEAN
      BY <2>1, <3>1, SMT DEF FlagsOK
    <3> QED BY <3>2, <3>3, Zenon DEF FlagsOK
  <2> QED BY <1>7, <2>2, <2>3, <2>4, <2>5 DEF NtpStep
<1>8. CASE Register
  BY <1>8, SMT DEF Register, FlagsOK, history
<1>9. CASE Bind
  BY <1>9, Zenon DEF Bind, FlagsOK
<1>10. CASE UNCHANGED vars
  BY <1>10, SMT DEF vars, FlagsOK, history
<1> QED
  BY <1>1, <1>2, <1>3, <1>4, <1>5, <1>6, <1>7, <1>8, <1>9, <1>10 DEF Next

(* What the variables hold has its type: no buffer, counter or flag of     *)
(* bluetask.go, app.go and ntpTime.go leaves its values.                   *)
THEOREM TypeCorrect == Spec => []TypeOK
<1>1. Init => TypeOK
  <2>1. Init => DataOK
    BY BoundAssumption, SMT DEF Init, DataOK, Values
  <2>2. Init => FlagsOK
    BY Zenon DEF Init, FlagsOK
  <2> QED BY <2>1, <2>2 DEF TypeOK
<1>2. TypeOK /\ [Next]_vars => TypeOK'
  BY DataTyped, FlagsTyped DEF TypeOK
<1> QED BY <1>1, <1>2, PTL DEF Spec

-----------------------------------------------------------------------------
(* The invariant of the buffers *)

(* A fragment of the only setting there has been continues what is there,  *)
(* or completes it; only the token disturbs another field.                 *)
LEMMA FragmentInOrder ==
  ASSUME DataOK, WholeInv, NEW f \in Fields, NEW i \in 1..Total[f][phone],
         Fragment(f, i), ~changed', ~spent'
  PROVE  \A g \in Fields : InOrder(g)' /\ value'[g] \in {None, 1}
<1> DEFINE t == Total[f][phone]
           n == IF i = num[f] THEN [num EXCEPT ![f] = i + 1] ELSE num
           b == IF i = num[f] THEN [buffer EXCEPT ![f] = Added(buffer[f], phone, i)]
                ELSE buffer
<1>1. changed' = changed /\ spent' = (spent \/ (f = "tk" /\ n[f] = t + 1))
  BY DEF Fragment, BlueSame
<1>2. /\ ~changed /\ ~spent
      /\ ~(f = "tk" /\ n[f] = t + 1)
  <2>1. ~changed BY <1>1, Zenon
  <2> HIDE DEF n, t
  <2>2. ~(spent \/ (f = "tk" /\ n[f] = t + 1))
    BY <1>1, Zenon
  <2> QED BY <2>1, <2>2, Zenon
<1>3. /\ phone = 1
      /\ \A g \in Fields : InOrder(g) /\ value[g] \in {None, 1}
  BY <1>2, Zenon DEF WholeInv
<1>4. /\ t = Total[f][1] /\ t \in Nat \ {0} /\ i \in 1..t
      /\ num \in [Fields -> Nat \ {0}] /\ buffer \in [Fields -> Values]
      /\ value \in [Fields -> Values]
  <2>1. phone \in Settings
    BY DEF DataOK
  <2>2. t \in Nat \ {0}
    BY <2>1, TotalAssumption
  <2> QED BY <1>3, <2>2 DEF DataOK
<1>5. 1 \in Settings
  BY BoundAssumption, SMT
<1>6. CASE n[f] # t + 1
  <2>1. num' = n /\ buffer' = b /\ value' = value
    BY <1>6 DEF Fragment
  <2>2. \A g \in Fields : InOrder(g)'
    <3> SUFFICES ASSUME NEW g \in Fields PROVE InOrder(g)'
      OBVIOUS
    <3>1. InOrder(g)
      BY <1>3
    <3>2. CASE g = f /\ i = num[f]
      <4>1. num'[g] = i + 1 /\ buffer'[g] = Added(buffer[f], 1, i)
        BY <2>1, <3>2, <1>3, <1>4
      <4>2. i + 1 \in 2..t
        <5>1. i + 1 # t + 1
          BY <1>6, <3>2, <1>4
        <5> HIDE DEF t
        <5> QED BY <5>1, <1>4, SMT
      <4>3. Added(buffer[f], 1, i) = 1
        <5> HIDE DEF t
        <5> QED BY <3>1, <3>2, <1>4, SMT DEF InOrder, Added
      <4> HIDE DEF n, b, t
      <4> QED BY <4>1, <4>2, <4>3, <3>2, <1>4 DEF InOrder
    <3>3. CASE ~(g = f /\ i = num[f])
      <4>1. num'[g] = num[g] /\ buffer'[g] = buffer[g]
        BY <2>1, <3>3, <1>4
      <4> QED BY <4>1, <3>1 DEF InOrder
    <3> QED BY <3>2, <3>3
  <2> QED BY <2>1, <2>2, <1>3
<1>7. CASE n[f] = t + 1
  <2>1. f # "tk"
    <3> HIDE DEF n, t
    <3> QED BY <1>7, <1>2, Zenon
  <2>2. i = num[f] /\ i = t
    <3>1. CASE i = num[f]
      <4>1. i + 1 = t + 1
        BY <3>1, <1>7, <1>4
      <4> HIDE DEF t
      <4> QED BY <3>1, <4>1, <1>4, SMT
    <3>2. CASE i # num[f]
      <4>1. num[f] = t + 1
        BY <3>2, <1>7
      <4>2. InOrder(f)
        BY <1>3
      <4> HIDE DEF t
      <4> QED BY <4>1, <4>2, <1>4, SMT DEF InOrder
    <3> QED BY <3>1, <3>2
  <2>3. b[f] = 1
    <3>1. Added(buffer[f], 1, i) = 1
      <4>1. InOrder(f)
        BY <1>3
      <4> HIDE DEF t
      <4> QED BY <4>1, <2>2, <1>4, SMT DEF InOrder, Added
    <3>2. b[f] = Added(buffer[f], 1, i)
      BY <2>2, <1>3, <1>4
    <3> HIDE DEF b
    <3> QED BY <3>1, <3>2
  <2>4. Decoded(f, b[f], t) = {1}
    <3> HIDE DEF b, t
    <3> QED BY <2>3, <1>4, <1>5 DEF Decoded
  <2>5. PICK v \in {1} :
          /\ num' = Reset(f, n) /\ buffer' = Emptied(f, b)
          /\ IF v = None THEN blue' = "idle" /\ UNCHANGED <<bWifiConSta, value>>
             ELSE /\ bWifiConSta' = bWifiConSta \cup {f}
                  /\ value' = [value EXCEPT ![f] = v]
                  /\ UNCHANGED blue
    <3>1. \E v \in Decoded(f, b[f], t) :
            /\ num' = Reset(f, n) /\ buffer' = Emptied(f, b)
            /\ IF v = None THEN blue' = "idle" /\ UNCHANGED <<bWifiConSta, value>>
               ELSE /\ bWifiConSta' = bWifiConSta \cup {f}
                    /\ value' = [value EXCEPT ![f] = v]
                    /\ UNCHANGED blue
      BY <1>7 DEF Fragment
    <3> HIDE DEF n, b, t
    <3> QED BY <3>1, <2>4
  <2>6. value' = [value EXCEPT ![f] = 1]
    <3> HIDE DEF n, b
    <3> QED BY <2>5
  <2>7. num' = [num EXCEPT ![f] = 1]
    <3>1. n = [num EXCEPT ![f] = i + 1]
      BY <2>2
    <3>2. num' = [n EXCEPT ![f] = 1]
      <4> HIDE DEF n, b
      <4> QED BY <2>5, <2>1 DEF Reset
    <3> HIDE DEF n
    <3> QED BY <3>1, <3>2, <1>4
  <2>8. buffer' = [buffer EXCEPT ![f] = None]
    <3>1. b = [buffer EXCEPT ![f] = Added(buffer[f], phone, i)]
      BY <2>2
    <3>2. buffer' = [b EXCEPT ![f] = None]
      <4> HIDE DEF n, b
      <4> QED BY <2>5 DEF Emptied
    <3> HIDE DEF b
    <3> QED BY <3>1, <3>2, <1>4
  <2> HIDE DEF n, b, t
  <2> QED BY <2>6, <2>7, <2>8, <1>3, <1>4 DEF InOrder
<1> QED BY <1>6, <1>7

(* What was in order stays so while the buffers are not touched. *)
LEMMA SameInOrder ==
  ASSUME WholeInv, UNCHANGED <<phone, num, buffer, value, spent, changed>>
  PROVE  WholeInv'
BY DEF WholeInv, InOrder

(* Every step keeps what the buffers hold in order. *)
LEMMA WholeKept == DataOK /\ WholeInv /\ [Next]_vars => WholeInv'
<1> SUFFICES ASSUME DataOK, WholeInv, [Next]_vars PROVE WholeInv'
  OBVIOUS
<1>1. CASE ChangeSettings
  <2>1. changed'
    BY <1>1, Zenon DEF ChangeSettings
  <2> QED BY <2>1, Zenon DEF WholeInv
<1>2. CASE Receive
  <2>0. PICK f \in Fields : \E i \in 1..Total[f][phone] : Fragment(f, i)
    BY <1>2 DEF Receive
  <2>1. PICK i \in 1..Total[f][phone] : Fragment(f, i)
    BY <2>0
  <2>2. UNCHANGED <<phone, changed>>
    BY <2>1 DEF Fragment, BlueSame
  <2>3. ~changed' /\ ~spent' =>
          \A g \in Fields : InOrder(g)' /\ value'[g] \in {None, 1}
    BY <2>1, FragmentInOrder
  <2> QED BY <2>2, <2>3 DEF WholeInv
<1>3. CASE NtpRestarts
  <2>1. UNCHANGED <<phone, changed>>
    BY <1>3 DEF NtpRestarts, NtpSame
  <2>2. \A g \in Fields : InOrder(g)' /\ value'[g] \in {None, 1}
    BY <1>3 DEF NtpRestarts, Fresh, InOrder
  <2> QED BY <2>1, <2>2 DEF WholeInv
<1>4. CASE QtProvision \/ QtUnbind
  BY <1>4, SameInOrder DEF QtProvision, QtUnbind, bluevars, history
<1>5. CASE Noise \/ BlueStep
  BY <1>5, SameInOrder
     DEF Noise, BlueStep, ScanStart, ScanDone, Configured, Reconnect, BlueSame
<1>6. CASE NtpAsk \/ NtpFailed \/ NtpGood
  BY <1>6, SameInOrder DEF NtpAsk, NtpFailed, NtpGood, NtpSame, bluevars
<1>7. CASE Register \/ Bind \/ UNCHANGED vars
  BY <1>7, SameInOrder DEF Register, Bind, vars, bluevars, history
<1> QED
  BY <1>1, <1>2, <1>3, <1>4, <1>5, <1>6, <1>7 DEF Next, NtpStep

(* What is written to the wifi file is what the scan has got, or nothing. *)
LEMMA WifiWritten ==
  ASSUME [Next]_vars, wifi' # wifi
  PROVE  wifi' = WifiFile(value) \/ wifi' = [si |-> None, pd |-> None]
<1>1. CASE QtUnbind
  BY <1>1 DEF QtUnbind
<1>2. CASE ScanDone
  BY <1>2 DEF ScanDone
<1>3. CASE Receive
  BY <1>3 DEF Receive, Fragment
<1>4. CASE ChangeSettings \/ QtProvision \/ Noise
  BY <1>4 DEF ChangeSettings, QtProvision, Noise
<1>5. CASE ScanStart \/ Configured \/ Reconnect
  BY <1>5 DEF ScanStart, Configured, Reconnect
<1>6. CASE NtpStep
  BY <1>6 DEF NtpStep, NtpAsk, NtpFailed, NtpGood, NtpRestarts, NtpSame
<1>7. CASE Register \/ Bind \/ UNCHANGED vars
  BY <1>7 DEF Register, Bind, vars
<1> QED
  BY <1>1, <1>2, <1>3, <1>4, <1>5, <1>6, <1>7 DEF Next, BlueStep

(* No mixture of fragments is written to wpa_supplicant.conf by            *)
(* write_data_wifi_config_file as long as the phone has kept its settings  *)
(* and the process has put no token together.                              *)
THEOREM WifiIsWholeHolds == Spec => WifiIsWhole
<1>1. Init => DataOK
  BY BoundAssumption, SMT DEF Init, DataOK, Values
<1>2. Init => WholeInv
  BY DEF Init, WholeInv, InOrder
<1>3. DataOK /\ WholeInv /\ [Next]_vars =>
        [wifi' # wifi /\ Garbage \in {(wifi.si)', (wifi.pd)'}
           => changed \/ spent]_vars
  <2> SUFFICES ASSUME DataOK, WholeInv, [Next]_vars, wifi' # wifi,
                      ~changed, ~spent
               PROVE  Garbage \notin {(wifi.si)', (wifi.pd)'}
    BY Zenon
  <2>1. \A f \in Fields : value[f] \in {None, 1}
    BY Zenon DEF WholeInv
  <2>2. (wifi.si)' \in {None, 1} /\ (wifi.pd)' \in {None, 1}
    BY <2>1, WifiWritten DEF WifiFile
  <2>3. Garbage \notin {None, 1}
    BY BoundAssumption, SMT DEF Garbage
  <2> QED BY <2>2, <2>3
<1> QED
  BY <1>1, <1>2, <1>3, DataTyped, WholeKept, PTL DEF Spec, WifiIsWhole
=============================================================================
