------------------------------ MODULE RadioTests ------------------------------
(***************************************************************************)
(* wifi_test (Wifi.cpp) on the command thread and bluetooth_test           *)
(* (Bluetooth.cpp) on a thread of its own.  The number of Wi-Fi scans left *)
(* is a member that is set once, by the board; the list of Bluetooth       *)
(* devices is a member that every scan frees and allocates again.          *)
(***************************************************************************)
EXTENDS Descriptors

CONSTANT Scans \* scan count given to Wifi by the board: 5

ASSUME RadioAssumption == Scans \in Nat

VARIABLES scanCount, \* Wifi::scanCount, -1 for all negative values
          btCount,   \* bluetoothScanResult.count
          btDevices, \* bluetoothScanResult.devices: the test that allocated it, or None
          btRaced    \* history: bluetooth tests that overlapped another

radioVars == <<scanCount, btCount, btDevices, btRaced>>
wifiOnly == <<btCount, btDevices, btRaced>>

RadioAnswer(k, v) == Judged(To(th[k], "send"), v)
-----------------------------------------------------------------------------
\* wpaScanWifi(): while (scanCount--).
WifiSpent(k) ==
  /\ At(k, "wifi") /\ scanCount = 0 /\ UNCHANGED wifiOnly
  /\ scanCount' = -1
  /\ Local(k, Meets(RadioAnswer(k, "NG"), {"spent"}))
\* A scan that cannot be started or fails uses up a turn as well.
WifiScan(k) ==
  /\ At(k, "wifi") /\ scanCount # 0 /\ UNCHANGED wifiOnly
  /\ scanCount' = IF scanCount > 0 THEN scanCount - 1 ELSE scanCount
  /\ \E ok \in BOOLEAN :
       /\ ok => Opened # DOMAIN fds
       /\ Local(k, IF ok THEN To(th[k], "wifiResults") ELSE Meets(th[k], {"fault"}))
\* The results: the network, one whose name contains its name, or neither.
WifiResults(k) ==
  /\ At(k, "wifiResults") /\ UNCHANGED radioVars
  /\ \/ Local(k, Shows(RadioAnswer(k, "OK"), 1))
     \/ Local(k, Meets(RadioAnswer(k, "OK"), {"lookalike"}))
     \/ Local(k, Meets(To(th[k], "wifi"), {"fault"}))
     \/ Local(k, Meets(RadioAnswer(k, "NG"), {"fault"}))
-----------------------------------------------------------------------------
\* scanBluetoothDevices(): the old list is freed ...
BtOthers(k) ==
  {j \in DOMAIN th \ {k} : th[j].at \in {"btOpen", "btInquiry", "btFill", "btClose", "btResult", "btRead"}}
BtFree(k) ==
  /\ At(k, "bt") /\ Local(k, To(th[k], "btOpen")) /\ UNCHANGED scanCount
  /\ btDevices' = None /\ btCount' = -1
  /\ btRaced' = IF BtOthers(k) = {} THEN btRaced ELSE btRaced \cup BtOthers(k) \cup {k}
BtOpen(k) ==
  /\ At(k, "btOpen") /\ UNCHANGED radioVars
  /\ Open(k, <<k, 1>>, To(th[k], "btInquiry"), RadioAnswer(k, "NG"))
\* ... and, when devices were found, a new one is allocated and filled while
\* it asks each device for its name and its signal.
BtInquiry(k) ==
  /\ At(k, "btInquiry") /\ UNCHANGED <<scanCount, btRaced>>
  /\ \/ FailsAndCloses(k, th[k].fd, RadioAnswer(k, "NG")) /\ UNCHANGED <<btCount, btDevices>>
     \/ /\ Close(k, th[k].fd, To(th[k], "btResult"))
        /\ btCount' = 0 /\ UNCHANGED btDevices
     \/ /\ Works(k, th[k].fd, Shows(To(th[k], "btFill"), 1))
        /\ btCount' = 1 /\ btDevices' = k
\* What another test has freed meanwhile may be written to, for good or ill.
BtFill(k) ==
  /\ At(k, "btFill") /\ UNCHANGED <<radioVars, alive>>
  /\ Local(k, To(th[k], "btClose"))
BtClose(k) ==
  /\ At(k, "btClose") /\ UNCHANGED <<radioVars, alive>>
  /\ Close(k, th[k].fd, To(th[k], "btResult"))
\* A list without devices is an answer without a verdict.
\* A bug: the count is not looked at.
BtResultUnchecked(k) ==
  /\ At(k, "btResult") /\ UNCHANGED <<radioVars, alive>>
  /\ Local(k, To(th[k], "btRead"))
BtResult(k) ==
  /\ At(k, "btResult") /\ UNCHANGED <<radioVars, alive>>
  /\ Local(k, To(th[k], IF btCount > 0 THEN "btRead" ELSE "send"))
BtRead(k) ==
  /\ At(k, "btRead") /\ btDevices # None /\ UNCHANGED <<radioVars, alive>>
  /\ Local(k, RadioAnswer(k, "OK"))
\* The list is gone under the hands of the test.
BtGone(k) ==
  /\ \/ At(k, "btFill") /\ btDevices # k
     \/ At(k, "btRead") /\ btDevices = None
  /\ alive' = FALSE
  /\ UNCHANGED <<th, fds, radioVars>>

RadioStep(k) ==
  \/ /\ WifiSpent(k) \/ WifiScan(k) \/ WifiResults(k)
        \/ BtFree(k) \/ BtOpen(k) \/ BtInquiry(k)
     /\ UNCHANGED alive
  \/ BtFill(k) \/ BtClose(k) \/ BtResult(k) \/ BtRead(k) \/ BtGone(k)
=============================================================================
