----------------------------- MODULE DeviceTests -----------------------------
(***************************************************************************)
(* The tests of TaskHandler that open a device, ask it something and close *)
(* it again: ln_test and baseinfo_test (VendorStorage.cpp, BaseInfo.cpp),  *)
(* gpio_test (Gpio.cpp), net_test (Net.cpp), common_test (Adc.cpp),        *)
(* camera_test (Camera.cpp), manual_test (Led.cpp, Fan.cpp) and rtc_test   *)
(* (Rtc.cpp), whose descriptor is a member.  Items by kind:                *)
(*   "mac", "ln"  a number written to the vendor storage and read back     *)
(*   "info"       a value read there or from the device tree               *)
(*   "pin"        a GPIO line       "adc"  a voltage      "cam"  a camera   *)
(*   "nic"        an interface whose address must contain a prefix         *)
(*   "nic3"       one that needs any address                               *)
(*   "lamp"       a LED        "fan"  the fan, opened by the board at start *)
(*   "unknown"    a channel or camera that the board does not have         *)
(*   "other"      a lamp it does not have   "off"  an item not enabled     *)
(***************************************************************************)
EXTENDS Descriptors

VARIABLES rtcFd,    \* Rtc::rtcFd_
          clockBy,  \* the test that set the clock last
          clockRaced \* history: rtc tests that overlapped another

rtcVars == <<rtcFd, clockBy, clockRaced>>

DeviceFresh(k) ==
  [Fresh EXCEPT !.at = "device", !.result = IF plan[k].test = "baseinfo" THEN "none" ELSE "true"]

\* ln_test(): what is written is read back; the last verdict is the result.
LnVerdict(t, v) == [Judged(t, v) EXCEPT !.result = IF v = "NG" THEN "false" ELSE "true"]
\* baseinfo_test(): what cannot be read is "NULL"; there is no result.
InfoVerdict(t, v) == [Judged(t, v) EXCEPT !.result = "none"]
\* The verdict on an item, after which the test goes on with the next.
Verdict(k, v) ==
  LET t == [th[k] EXCEPT !.at = "device", !.n = 0, !.try = 0]
  IN CASE plan[k].test = "ln" -> LnVerdict(t, v)
       [] plan[k].test = "baseinfo" -> InfoVerdict(t, v)
       [] OTHER -> Judged(t, v)
-----------------------------------------------------------------------------
\* The loop over the items; common_test leaves it when told to stop.
Halted(k) == plan[k].test = "common" /\ k \in stopped
DeviceItem(k) ==
  /\ At(k, "device") /\ MoreItems(k) /\ ~Halted(k) /\ UNCHANGED rtcVars
  /\ Local(k, CASE Item(k) = "off" -> Verdict(k, "SKIP")
                [] Item(k) = "other" -> Verdict(k, "none")
                [] Item(k) = "unknown" -> Meets(Verdict(k, "NG"), {"unknown"})
                [] Item(k) \in {"lamp", "fan"} -> Forgets(To(th[k], "lamp"))
                [] OTHER -> Forgets(To(th[k], "access")))
\* A camera test without a camera has no answer.
DeviceEnds(k) ==
  /\ At(k, "device") /\ (~MoreItems(k) \/ Halted(k)) /\ UNCHANGED rtcVars
  /\ IF plan[k].test = "camera" /\ plan[k].items = <<>> THEN Quits(k) ELSE Answers(k)

\* The lamps have descriptors of their own, from the start of TestApp: write()
\* to it.  One that could not be opened stays as it is, and so does a fan that
\* did not take the first write.
Lit(k) == Local(k, Shows(Verdict(k, "OK"), th[k].item))
Dark(k) == Local(k, Meets(Verdict(k, "NG"), {"fault"}))
SetLed(k) == Item(k) = "lamp" /\ (Lit(k) \/ Dark(k))
FanCtrl(k) == Item(k) = "fan" /\ (Lit(k) \/ Dark(k))
Lamp(k) == At(k, "lamp") /\ (SetLed(k) \/ FanCtrl(k)) /\ UNCHANGED rtcVars

\* The devices that are opened for the item: some accesses, each an open(),
\* requests and a close().  What fails makes it NG; the last request decides.
AccessOpen(k) ==
  /\ At(k, "access")
  /\ Open(k, <<k, th[k].item>>, [th[k] EXCEPT !.at = "request", !.try = 0], Verdict(k, "NG"))
\* Gpio does not close its descriptors.
NextAccess(k) == [th[k] EXCEPT !.at = "access", !.n = @ + 1]
Done(k, v) == IF Item(k) # "pin" THEN [th[k] EXCEPT !.at = "close", !.want = v]
              ELSE IF v = "next" THEN NextAccess(k) ELSE Verdict(k, v)
AccessClose(k) ==
  /\ At(k, "close")
  /\ Close(k, th[k].fd, IF th[k].want = "next" THEN NextAccess(k) ELSE Verdict(k, th[k].want))
Request(k, accesses, requests) ==
  /\ At(k, "request")
  /\ \/ Fails(k, th[k].fd, Done(k, "NG"))
     \/ /\ th[k].try + 1 < requests
        /\ Works(k, th[k].fd, [th[k] EXCEPT !.try = @ + 1])
     \/ /\ th[k].try + 1 = requests /\ th[k].n + 1 < accesses
        /\ Works(k, th[k].fd, Done(k, "next"))
     \/ /\ th[k].try + 1 = requests /\ th[k].n + 1 = accesses
        /\ Works(k, th[k].fd, IF Astray(k, th[k].fd) = {} THEN Shows(Done(k, "OK"), th[k].item)
                               ELSE Done(k, "OK"))
Access(k, accesses, requests) ==
  AccessOpen(k) \/ Request(k, accesses, requests) \/ AccessClose(k)
\* What was read looks right without being so.
Misleads(k) ==
  At(k, "request") /\ Works(k, th[k].fd, Meets(Done(k, "OK"), {"lookalike"}))

\* A number of at most 512 bytes is written by one ioctl() and read back.
Vendor(k) == Item(k) \in {"mac", "ln"} /\ Access(k, 2, 1)
\* fopen() and fgets() of the device tree.
GetHwid(k) == Item(k) = "info" /\ Access(k, 1, 1)
\* Export, unless it was done before, set the direction, read it, the value.
Exported(k) == At(k, "access") /\ th[k].n = 0 /\ Local(k, [th[k] EXCEPT !.n = 1])
Pin(k) == Item(k) = "pin" /\ (Exported(k) \/ Access(k, 4, 1))
\* A socket and one ioctl(); the address contains the prefix further on.
GetInterfaceIp(k) == Item(k) \in {"nic", "nic3"} /\ Access(k, 1, 1)
PrefixInside(k) == Item(k) = "nic" /\ Misleads(k)
ReadAdc(k) == Item(k) = "adc" /\ Access(k, 1, 1)
\* The device is set up, started, and gives a frame; or one without bytes.
CapturePng(k) == Item(k) = "cam" /\ Access(k, 1, 3)
EmptyFrame(k) == Item(k) = "cam" /\ th[k].try = 2 /\ Misleads(k)
Device(k) ==
  /\ th[k].at \in {"access", "request", "close"} /\ UNCHANGED <<rtcVars, alive>>
  /\ \/ Vendor(k) \/ GetHwid(k) \/ Pin(k) \/ GetInterfaceIp(k) \/ PrefixInside(k)
     \/ ReadAdc(k) \/ CapturePng(k) \/ EmptyFrame(k)

\* ffmpeg ends while the frame is written to it: SIGPIPE ends the process.
PipeBreaks(k) == At(k, "request") /\ Item(k) = "cam" /\ th[k].try = 2
\* A voltage that is no number: std::stoi() throws in a thread of the pool.
NotANumber(k) == At(k, "request") /\ Item(k) = "adc"
Dies(k) ==
  /\ PipeBreaks(k) \/ NotANumber(k)
  /\ alive' = FALSE
  /\ UNCHANGED <<th, fds, rtcVars>>
-----------------------------------------------------------------------------
\* setAndWait(): a failed open() is only logged.
RtcOthers(k) == {j \in DOMAIN th \ {k} : th[j].at \in {"rtcSet", "rtcGet", "rtcClose"}}
RtcAnswer(k, v) == Judged(To(th[k], "send"), v)
RtcOpen(k) ==
  /\ At(k, "rtcOpen") /\ UNCHANGED clockBy
  /\ Open(k, "rtc", To(th[k], "rtcSet"), To(th[k], "rtcSet"))
  /\ rtcFd' = th'[k].fd
  /\ clockRaced' = IF RtcOthers(k) = {} THEN clockRaced ELSE clockRaced \cup RtcOthers(k) \cup {k}
IsRtc(n) == n \in Opened /\ fds[n].file = "rtc"
RtcSet(k) ==
  /\ At(k, "rtcSet") /\ UNCHANGED <<rtcFd, clockRaced>>
  /\ \/ IsRtc(rtcFd) /\ Works(k, rtcFd, To(th[k], "rtcGet")) /\ clockBy' = k
     \/ FailsAndCloses(k, rtcFd, RtcAnswer(k, "NG")) /\ UNCHANGED clockBy

\* Two seconds later; getRtcTime() closes the descriptor when it fails, and
\* setAndWait() closes the number once more.
RtcRead(k, ok) == [th[k] EXCEPT !.at = "rtcClose", !.ok = ok]
RtcGet(k) ==
  /\ At(k, "rtcGet") /\ UNCHANGED rtcVars
  /\ \/ /\ IsRtc(rtcFd)
        /\ \/ Works(k, rtcFd, IF clockBy = k THEN Shows(RtcRead(k, TRUE), 1) ELSE RtcRead(k, TRUE))
           \/ Fails(k, rtcFd, RtcRead(k, FALSE))
     \/ FailsAndCloses(k, rtcFd, RtcRead(k, FALSE))
RtcClose(k) ==
  /\ At(k, "rtcClose") /\ UNCHANGED rtcVars
  /\ Close(k, rtcFd, RtcAnswer(k, IF th[k].ok THEN "OK" ELSE "NG"))

DeviceStep(k) ==
  \/ Device(k) \/ Dies(k)
  \/ /\ \/ DeviceItem(k) \/ DeviceEnds(k) \/ Lamp(k)
        \/ RtcOpen(k) \/ RtcSet(k) \/ RtcGet(k) \/ RtcClose(k)
     /\ UNCHANGED alive
=============================================================================
