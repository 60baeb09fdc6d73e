---------------------------- MODULE BootUpProofs ----------------------------
(***************************************************************************)
(* The safety properties of BootUp for any devices, programs, process ids  *)
(* and number of changes.                                                  *)
(***************************************************************************)
EXTENDS BootUp, SequenceTheorems, TLAPS

\* A child and everything it needs are in place.
Loaded ==
  /\ target_device \in Devices /\ mount_point = target_device
  /\ copy_path # ""

\* What holds of the globals at each place of the program.  The cleanup never
\* returns to mount_device, nor to the check of an invalid mount point.
Phase ==
  /\ pc \in {"scan", "monitor", "select", "reap", "check"} =>
       IF child_pid = 0 THEN globals = <<0, "", "", "">> ELSE Loaded
  /\ pc \in {"mount", "search", "copy", "launch"} =>
       dev \in Devices /\ child_pid = 0 /\ target_device = ""
  /\ pc = "mount" => mount_point = "" /\ copy_path = ""
  /\ pc \in {"search", "copy", "launch"} => mount_point = dev
  /\ pc = "search" => copy_path = ""
  /\ pc = "copy" => copy_path = mounted[dev]
  /\ pc = "launch" => copy_path \in tmp
  /\ pc \in {"kill", "remove", "umount"} =>
       after \in {"scan", "reap", "check", "exited"}
  /\ pc \in {"remove", "umount"} => child_pid = 0
  /\ pc = "umount" => copy_path = ""

\* The inductive invariant.
IInv == TypeOK /\ NothingForgotten /\ RunsFromTarget /\ Phase
\* The sentinels of the code are no names.
LEMMA Constants ==
  /\ "" \notin Devices /\ 0 \notin Pids /\ Pids \subseteq Nat \ {0}
  /\ "" \notin Programs /\ "directory" \notin Programs
  /\ "empty" \notin Programs
  /\ MaxChanges \in Nat
  BY DevicesAssumption, ProgramsAssumption, PidsAssumption, MaxChangesAssumption

LEMMA ScanDeviceStep ==
  ASSUME IInv, NEW d \in Devices, ScanDevice(d)
  PROVE  IInv'
<1>1. TypeOK'
  <2>1. pc' \in PC
    BY DEF IInv, TypeOK, Phase, PC, ScanDevice, Detect, ReturnFromDetect,
       Caller
  <2>2. QED
    BY <2>1, Constants DEF IInv, TypeOK, Phase, globals, control, usb, history,
       ScanDevice, Detect, ReturnFromDetect, Caller
<1>2. NothingForgotten'
  BY Constants DEF IInv, TypeOK, globals, control, usb, history,
     NothingForgotten, OwnPids, Own, Alive,
     Phase, ScanDevice, Detect, ReturnFromDetect, Caller
<1>3. RunsFromTarget'
  BY Constants DEF IInv, TypeOK, globals, control, usb, history, RunsFromTarget,
     NothingForgotten,
     OwnPids, Own, Alive, Phase, Loaded, ScanDevice, Detect, ReturnFromDetect,
     Caller
<1>4. Phase'
  BY Constants DEF IInv, TypeOK, globals, control, usb, history, RunsFromTarget,
     NothingForgotten,
     OwnPids, Own, Alive, Phase, Loaded, ScanDevice, Detect, ReturnFromDetect,
     Caller
<1>5. QED
  BY <1>1, <1>2, <1>3, <1>4 DEF IInv

LEMMA ScanEndsStep ==
  ASSUME IInv, ScanEnds
  PROVE  IInv'
<1>1. TypeOK'
  <2>1. pc' \in PC
    BY DEF IInv, TypeOK, Phase, PC, ScanEnds
  <2>2. QED
    BY <2>1 DEF IInv, TypeOK, globals, usb, history,
       ScanEnds
<1>2. NothingForgotten'
  BY Constants DEF IInv, TypeOK, globals, control, usb, history,
     NothingForgotten, OwnPids, Own, Alive,
     Phase, ScanEnds
<1>3. RunsFromTarget'
  BY Constants DEF IInv, TypeOK, globals, control, usb, history, RunsFromTarget,
     NothingForgotten,
     OwnPids, Own, Alive, Phase, Loaded, ScanEnds
<1>4. Phase'
  BY Constants DEF IInv, TypeOK, globals, control, usb, history, RunsFromTarget,
     NothingForgotten,
     OwnPids, Own, Alive, Phase, Loaded, ScanEnds
<1>5. QED
  BY <1>1, <1>2, <1>3, <1>4 DEF IInv

LEMMA MonitorReadyStep ==
  ASSUME IInv, MonitorReady
  PROVE  IInv'
<1>1. TypeOK'
  <2>1. events' \in Seq(Event)
    <3>1. PICK n \in 0..Len(events) :
                 events' = SubSeq(events, n + 1, Len(events))
      BY DEF MonitorReady
    <3>2. events \in Seq(Event) /\ Len(events) \in Nat /\ n + 1 \in Nat \ {0}
      <4>1. events \in Seq(Event)
        BY DEF IInv, TypeOK
      <4>2. QED
        BY <4>1, LenProperties
    <3>3. \A i \in n + 1..Len(events) : events[i] \in Event
      BY <3>2, ElementOfSeq
    <3>4. QED
      BY <3>1, <3>2, <3>3, SubSeqProperties
  <2>2. QED
    BY <2>1 DEF IInv, TypeOK, globals, control, usb, history, PC, MonitorReady
<1>2. NothingForgotten'
  BY Constants DEF IInv, TypeOK, globals, control, usb, history,
     NothingForgotten, OwnPids, Own, Alive,
     Phase, MonitorReady
<1>3. RunsFromTarget'
  BY Constants DEF IInv, TypeOK, globals, control, usb, history, RunsFromTarget,
     NothingForgotten,
     OwnPids, Own, Alive, Phase, Loaded, MonitorReady
<1>4. Phase'
  BY Constants DEF IInv, TypeOK, globals, control, usb, history, RunsFromTarget,
     NothingForgotten,
     OwnPids, Own, Alive, Phase, Loaded, MonitorReady
<1>5. QED
  BY <1>1, <1>2, <1>3, <1>4 DEF IInv

LEMMA MonitorFailsStep ==
  ASSUME IInv, MonitorFails
  PROVE  IInv'
<1>1. TypeOK'
  <2>1. pc' \in PC
    BY DEF IInv, TypeOK, Phase, PC, MonitorFails, CallCleanup
  <2>2. QED
    BY <2>1, Constants DEF IInv, TypeOK, Phase, globals, control, usb, history,
       MonitorFails, CallCleanup
<1>2. NothingForgotten'
  BY Constants DEF IInv, TypeOK, globals, control, usb, history,
     NothingForgotten, OwnPids, Own, Alive,
     Phase, MonitorFails, CallCleanup
<1>3. RunsFromTarget'
  BY Constants DEF IInv, TypeOK, globals, control, usb, history, RunsFromTarget,
     NothingForgotten,
     OwnPids, Own, Alive, Phase, Loaded, MonitorFails, CallCleanup
<1>4. Phase'
  BY Constants DEF IInv, TypeOK, globals, control, usb, history, RunsFromTarget,
     NothingForgotten,
     OwnPids, Own, Alive, Phase, Loaded, MonitorFails, CallCleanup
<1>5. QED
  BY <1>1, <1>2, <1>3, <1>4 DEF IInv

LEMMA MountStep ==
  ASSUME IInv, Mount
  PROVE  IInv'
<1>1. TypeOK'
  <2>1. pc' \in PC
    BY DEF IInv, TypeOK, Phase, PC, Mount, CallCleanup, Failure,
       ReturnFromDetect, Caller, Content
  <2>2. QED
    BY <2>1, Constants DEF IInv, TypeOK, Phase, globals, control, usb, history,
       Mount, CallCleanup, Failure, ReturnFromDetect, Caller, Content
<1>2. NothingForgotten'
  <2>1. mount_point = "" /\ tmp' = tmp /\ proc' = proc /\ child_pid' = child_pid
        /\ copy_path' = copy_path
    BY DEF IInv, Phase, Mount, globals
  <2>2. ASSUME NEW d \in Devices, mounted'[d] # ""
        PROVE  mount_point' = d
    <3>1. \A e \in Devices : mounted[e] = ""
      BY <2>1, Constants DEF IInv, NothingForgotten
    <3>2. QED
      BY <2>1, <2>2, <3>1 DEF IInv, TypeOK, Mount, globals, Phase
  <2>3. QED
    BY <2>1, <2>2 DEF IInv, NothingForgotten, OwnPids
<1>3. RunsFromTarget'
  BY Constants DEF IInv, TypeOK, globals, control, usb, history, RunsFromTarget,
     NothingForgotten,
     OwnPids, Own, Alive, Phase, Loaded, Mount, CallCleanup, Failure,
     ReturnFromDetect, Caller, Content
<1>4. Phase'
  BY Constants DEF IInv, TypeOK, globals, control, usb, history, RunsFromTarget,
     NothingForgotten,
     OwnPids, Own, Alive, Phase, Loaded, Mount, CallCleanup, Failure,
     ReturnFromDetect, Caller, Content
<1>5. QED
  BY <1>1, <1>2, <1>3, <1>4 DEF IInv

LEMMA SearchStep ==
  ASSUME IInv, Search
  PROVE  IInv'
<1>1. TypeOK'
  <2>1. pc' \in PC
    BY DEF IInv, TypeOK, Phase, PC, Search, CallCleanup, Failure, Caller,
       Content
  <2>2. QED
    BY <2>1, Constants DEF IInv, TypeOK, Phase, globals, control, usb, history,
       Search, CallCleanup, Failure, Caller, Content
<1>2. NothingForgotten'
  BY Constants DEF IInv, TypeOK, globals, control, usb, history,
     NothingForgotten, OwnPids, Own, Alive,
     Phase, Search, CallCleanup, Failure, Caller, Content
<1>3. RunsFromTarget'
  BY Constants DEF IInv, TypeOK, globals, control, usb, history, RunsFromTarget,
     NothingForgotten,
     OwnPids, Own, Alive, Phase, Loaded, Search, CallCleanup, Failure, Caller,
     Content
<1>4. Phase'
  BY Constants DEF IInv, TypeOK, globals, control, usb, history, RunsFromTarget,
     NothingForgotten,
     OwnPids, Own, Alive, Phase, Loaded, Search, CallCleanup, Failure, Caller,
     Content
<1>5. QED
  BY <1>1, <1>2, <1>3, <1>4 DEF IInv

LEMMA CopyStep ==
  ASSUME IInv, Copy
  PROVE  IInv'
<1>1. TypeOK'
  <2>1. pc' \in PC
    BY DEF IInv, TypeOK, Phase, PC, Copy, Copies, CallCleanup, Failure, Caller, Content
  <2>2. QED
    BY <2>1, Constants DEF IInv, TypeOK, Phase, globals, control, usb, history,
       Copy, Copies, CallCleanup, Failure, Caller, Content
<1>2. NothingForgotten'
  BY Constants DEF IInv, TypeOK, globals, control, usb, history,
     NothingForgotten, OwnPids, Own, Alive,
     Phase, Copy, Copies, CallCleanup, Failure, Caller, Content
<1>3. RunsFromTarget'
  BY Constants DEF IInv, TypeOK, globals, control, usb, history, RunsFromTarget,
     NothingForgotten,
     OwnPids, Own, Alive, Phase, Loaded, Copy, Copies, CallCleanup, Failure, Caller,
     Content
<1>4. Phase'
  BY Constants DEF IInv, TypeOK, globals, control, usb, history, RunsFromTarget,
     NothingForgotten,
     OwnPids, Own, Alive, Phase, Loaded, Copy, Copies, CallCleanup, Failure, Caller,
     Content
<1>5. QED
  BY <1>1, <1>2, <1>3, <1>4 DEF IInv

LEMMA LaunchStep ==
  ASSUME IInv, Launch
  PROVE  IInv'
<1>1. TypeOK'
  <2>1. pc' \in PC
    BY DEF IInv, TypeOK, Phase, PC, Launch, ReturnFromDetect, Caller
  <2>2. proc' \in [Pids -> ProcState]
    BY DEF IInv, TypeOK, ProcState, Own, Alive, Launch
  <2>3. QED
    BY <2>1, <2>2, Constants DEF IInv, TypeOK, Phase, globals, control, usb,
       history, Launch, ReturnFromDetect, Caller
<1>2. NothingForgotten'
  BY Constants DEF IInv, TypeOK, globals, control, usb, history,
     NothingForgotten, OwnPids, Own, Alive,
     Phase, Launch, ReturnFromDetect, Caller
<1>3. RunsFromTarget'
  BY Constants DEF IInv, TypeOK, globals, control, usb, history, RunsFromTarget,
     NothingForgotten,
     OwnPids, Own, Alive, Phase, Loaded, Launch, ReturnFromDetect, Caller
<1>4. Phase'
  BY Constants DEF IInv, TypeOK, globals, control, usb, history, RunsFromTarget,
     NothingForgotten,
     OwnPids, Own, Alive, Phase, Loaded, Launch, ReturnFromDetect, Caller
<1>5. QED
  BY <1>1, <1>2, <1>3, <1>4 DEF IInv

LEMMA LaunchFailsStep ==
  ASSUME IInv, LaunchFails
  PROVE  IInv'
<1>1. TypeOK'
  <2>1. pc' \in PC
    BY DEF IInv, TypeOK, Phase, PC, LaunchFails, CallCleanup, Failure, Caller
  <2>2. QED
    BY <2>1, Constants DEF IInv, TypeOK, Phase, globals, control, usb, history,
       LaunchFails, CallCleanup, Failure, Caller
<1>2. NothingForgotten'
  BY Constants DEF IInv, TypeOK, globals, control, usb, history,
     NothingForgotten, OwnPids, Own, Alive,
     Phase, LaunchFails, CallCleanup, Failure, Caller
<1>3. RunsFromTarget'
  BY Constants DEF IInv, TypeOK, globals, control, usb, history, RunsFromTarget,
     NothingForgotten,
     OwnPids, Own, Alive, Phase, Loaded, LaunchFails, CallCleanup, Failure,
     Caller
<1>4. Phase'
  BY Constants DEF IInv, TypeOK, globals, control, usb, history, RunsFromTarget,
     NothingForgotten,
     OwnPids, Own, Alive, Phase, Loaded, LaunchFails, CallCleanup, Failure,
     Caller
<1>5. QED
  BY <1>1, <1>2, <1>3, <1>4 DEF IInv

LEMMA TimeoutStep ==
  ASSUME IInv, Timeout
  PROVE  IInv'
<1>1. TypeOK'
  <2>1. pc' \in PC
    BY DEF IInv, TypeOK, Phase, PC, Timeout
  <2>2. UNCHANGED <<globals, dev, after, due, usb, mounted, tmp, proc, history>>
    BY DEF Timeout
  <2>3. QED
    BY <2>1, <2>2 DEF IInv, TypeOK, globals, usb, history
<1>2. NothingForgotten'
  BY Constants DEF IInv, TypeOK, globals, control, usb, history,
     NothingForgotten, OwnPids, Own, Alive,
     Phase, Timeout
<1>3. RunsFromTarget'
  BY Constants DEF IInv, TypeOK, globals, control, usb, history, RunsFromTarget,
     NothingForgotten,
     OwnPids, Own, Alive, Phase, Loaded, Timeout
<1>4. Phase'
  BY Constants DEF IInv, TypeOK, globals, control, usb, history, RunsFromTarget,
     NothingForgotten,
     OwnPids, Own, Alive, Phase, Loaded, Timeout
<1>5. QED
  BY <1>1, <1>2, <1>3, <1>4 DEF IInv

LEMMA ReceiveEventStep ==
  ASSUME IInv, ReceiveEvent
  PROVE  IInv'
<1>1. TypeOK'
  <2>1. events' \in Seq(Event) /\ Head(events) \in Event
    BY HeadTailProperties DEF IInv, TypeOK, ReceiveEvent, LaterEvents, IsTarget
  <2>2. Head(events).device \in Devices
    BY <2>1 DEF Event
  <2>3. pc' \in PC
    BY DEF PC, ReceiveEvent, LaterEvents, IsTarget, Detect, CallCleanup, ReturnFromDetect, Caller
  <2>4. dev' \in Devices \cup {""} /\ after' \in {after, "reap"}
    BY <2>2 DEF IInv, TypeOK, ReceiveEvent, LaterEvents, IsTarget, Detect, CallCleanup,
       ReturnFromDetect
  <2>5. UNCHANGED <<globals, due, stick, listening, changes, mounted, tmp, proc,
                    history>>
    BY DEF ReceiveEvent, LaterEvents, IsTarget
  <2>6. QED
    BY <2>1, <2>3, <2>4, <2>5 DEF IInv, TypeOK, globals, history
<1>2. NothingForgotten'
  BY Constants DEF IInv, TypeOK, globals, control, usb, history,
     NothingForgotten, OwnPids, Own, Alive,
     Phase, ReceiveEvent, LaterEvents, IsTarget, Detect, CallCleanup, ReturnFromDetect, Caller, Event
<1>3. RunsFromTarget'
  BY Constants DEF IInv, TypeOK, globals, control, usb, history, RunsFromTarget,
     NothingForgotten,
     OwnPids, Own, Alive, Phase, Loaded, ReceiveEvent, LaterEvents, IsTarget, Detect, CallCleanup,
     ReturnFromDetect, Caller, Event
<1>4. Phase'
  <2>1. Head(events).device \in Devices
    <3>1. Head(events) \in Event
      BY HeadTailProperties DEF IInv, TypeOK, ReceiveEvent, LaterEvents, IsTarget
    <3>2. QED
      BY <3>1 DEF Event
  <2>2. QED
    BY <2>1, Constants DEF IInv, TypeOK, globals, control, usb, history, Phase,
       Loaded, ReceiveEvent, LaterEvents, IsTarget,
       Detect, CallCleanup, ReturnFromDetect, Caller
<1>5. QED
  BY <1>1, <1>2, <1>3, <1>4 DEF IInv

LEMMA ReapStep ==
  ASSUME IInv, Reap
  PROVE  IInv'
<1>1. TypeOK'
  <2>1. proc' \in [Pids -> ProcState]
    BY DEF IInv, TypeOK, Reap, ProcState
  <2>2. QED
    <3>1. pc' \in {"kill", "check"} /\ after' \in {"check", after}
      BY DEF Reap, CallCleanup
    <3>2. UNCHANGED <<globals, dev, due, usb, mounted, tmp, history>>
      BY DEF Reap
    <3>3. pc' \in PC /\ after' \in {"", "scan", "reap", "check", "select",
                                    "mount", "exited"}
      BY <3>1 DEF IInv, TypeOK, PC
    <3>4. QED
      BY <2>1, <3>2, <3>3 DEF IInv, TypeOK, globals, usb, history
<1>2. NothingForgotten'
  BY Constants DEF IInv, TypeOK, globals, control, usb, history,
     NothingForgotten, OwnPids, Own, Alive,
     Phase, Reap, CallCleanup
<1>3. RunsFromTarget'
  BY Constants DEF IInv, TypeOK, globals, control, usb, history, RunsFromTarget,
     NothingForgotten,
     OwnPids, Own, Alive, Phase, Loaded, Reap, CallCleanup
<1>4. Phase'
  BY Constants DEF IInv, TypeOK, globals, control, usb, history, RunsFromTarget,
     NothingForgotten,
     OwnPids, Own, Alive, Phase, Loaded, Reap, CallCleanup
<1>5. QED
  BY <1>1, <1>2, <1>3, <1>4 DEF IInv

LEMMA CheckMountStep ==
  ASSUME IInv, CheckMount
  PROVE  IInv'
<1>1. TypeOK'
  <2>1. pc' \in PC
    BY DEF IInv, TypeOK, Phase, PC, CheckMount, CallCleanup
  <2>2. QED
    BY <2>1 DEF IInv, TypeOK, globals, usb, history,
       CheckMount, CallCleanup
<1>2. NothingForgotten'
  BY Constants DEF IInv, TypeOK, globals, control, usb, history,
     NothingForgotten, OwnPids, Own, Alive,
     Phase, CheckMount, CallCleanup
<1>3. RunsFromTarget'
  BY Constants DEF IInv, TypeOK, globals, control, usb, history, RunsFromTarget,
     NothingForgotten,
     OwnPids, Own, Alive, Phase, Loaded, CheckMount, CallCleanup
<1>4. Phase'
  BY Constants DEF IInv, TypeOK, globals, control, usb, history, RunsFromTarget,
     NothingForgotten,
     OwnPids, Own, Alive, Phase, Loaded, CheckMount, CallCleanup
<1>5. QED
  BY <1>1, <1>2, <1>3, <1>4 DEF IInv

LEMMA KillChildStep ==
  ASSUME IInv, KillChild
  PROVE  IInv'
<1>1. TypeOK'
  <2>1. pc' \in PC
    BY DEF IInv, TypeOK, Phase, PC, KillChild
  <2>2. proc' \in [Pids -> ProcState]
    BY DEF IInv, TypeOK, ProcState, Own, Alive, KillChild
  <2>3. QED
    BY <2>1, <2>2, Constants DEF IInv, TypeOK, Phase, globals, control, usb,
       history, KillChild
<1>2. NothingForgotten'
  <2>1. ASSUME NEW p \in Pids, proc'[p] \in Own
        PROVE  FALSE
    <3>1. CASE child_pid = 0
      BY <2>1, <3>1, Constants DEF IInv, NothingForgotten, OwnPids, KillChild
    <3>2. CASE child_pid # 0
      <4>1. child_pid \in Pids /\ proc' = [proc EXCEPT ![child_pid] = "free"]
        BY <3>2 DEF IInv, TypeOK, KillChild
      <4>2. proc'[child_pid] = "free" /\ (p # child_pid => proc'[p] = proc[p])
        BY <4>1 DEF IInv, TypeOK
      <4>3. QED
        BY <2>1, <4>2 DEF IInv, NothingForgotten, OwnPids, Own, Alive
    <3>3. QED
      BY <3>1, <3>2
  <2>2. QED
    BY <2>1 DEF IInv, NothingForgotten, OwnPids, KillChild
<1>3. RunsFromTarget'
  BY Constants DEF IInv, TypeOK, globals, control, usb, history, RunsFromTarget,
     NothingForgotten,
     OwnPids, Own, Alive, Phase, Loaded, KillChild
<1>4. Phase'
  BY Constants DEF IInv, TypeOK, globals, control, usb, history, RunsFromTarget,
     NothingForgotten,
     OwnPids, Own, Alive, Phase, Loaded, KillChild
<1>5. QED
  BY <1>1, <1>2, <1>3, <1>4 DEF IInv

LEMMA RemoveCopyStep ==
  ASSUME IInv, RemoveCopy
  PROVE  IInv'
<1>1. TypeOK'
  <2>1. pc' \in PC
    BY DEF IInv, TypeOK, Phase, PC, RemoveCopy
  <2>2. QED
    BY <2>1, Constants DEF IInv, TypeOK, Phase, globals, control, usb, history,
       RemoveCopy
<1>2. NothingForgotten'
  BY Constants DEF IInv, TypeOK, globals, control, usb, history,
     NothingForgotten, OwnPids, Own, Alive,
     Phase, RemoveCopy
<1>3. RunsFromTarget'
  BY Constants DEF IInv, TypeOK, globals, control, usb, history, RunsFromTarget,
     NothingForgotten,
     OwnPids, Own, Alive, Phase, Loaded, RemoveCopy
<1>4. Phase'
  BY Constants DEF IInv, TypeOK, globals, control, usb, history, RunsFromTarget,
     NothingForgotten,
     OwnPids, Own, Alive, Phase, Loaded, RemoveCopy
<1>5. QED
  BY <1>1, <1>2, <1>3, <1>4 DEF IInv

LEMMA UnmountStep ==
  ASSUME IInv, Unmount
  PROVE  IInv'
<1>1. TypeOK'
  <2>1. pc' \in PC
    BY DEF IInv, TypeOK, Phase, PC, Unmount, Unmounted
  <2>2. QED
    BY <2>1, Constants DEF IInv, TypeOK, Phase, globals, control, usb, history,
       Unmount, Unmounted
<1>2. NothingForgotten'
  BY Constants DEF IInv, TypeOK, globals, control, usb, history,
     NothingForgotten, OwnPids, Own, Alive,
     Phase, Unmount, Unmounted
<1>3. RunsFromTarget'
  BY Constants DEF IInv, TypeOK, globals, control, usb, history, RunsFromTarget,
     NothingForgotten,
     OwnPids, Own, Alive, Phase, Loaded, Unmount, Unmounted
<1>4. Phase'
  BY Constants DEF IInv, TypeOK, globals, control, usb, history, RunsFromTarget,
     NothingForgotten,
     OwnPids, Own, Alive, Phase, Loaded, Unmount, Unmounted
<1>5. QED
  BY <1>1, <1>2, <1>3, <1>4 DEF IInv

LEMMA InterruptStep ==
  ASSUME IInv, Interrupt
  PROVE  IInv'
<1>1. TypeOK'
  <2>1. pc' \in PC
    BY DEF IInv, TypeOK, Phase, PC, Interrupt
  <2>2. UNCHANGED <<globals, dev, after, due, usb, mounted, tmp, proc, history>>
    BY DEF Interrupt
  <2>3. QED
    BY <2>1, <2>2 DEF IInv, TypeOK, globals, usb, history
<1>2. NothingForgotten'
  BY Constants DEF IInv, TypeOK, globals, control, usb, history,
     NothingForgotten, OwnPids, Own, Alive,
     Phase, Interrupt
<1>3. RunsFromTarget'
  BY Constants DEF IInv, TypeOK, globals, control, usb, history, RunsFromTarget,
     NothingForgotten,
     OwnPids, Own, Alive, Phase, Loaded, Interrupt
<1>4. Phase'
  BY Constants DEF IInv, TypeOK, globals, control, usb, history, RunsFromTarget,
     NothingForgotten,
     OwnPids, Own, Alive, Phase, Loaded, Interrupt
<1>5. QED
  BY <1>1, <1>2, <1>3, <1>4 DEF IInv

LEMMA ExecStep ==
  ASSUME IInv, NEW p \in Pids, Exec(p)
  PROVE  IInv'
<1>1. TypeOK'
  BY DEF IInv, TypeOK, globals, control, usb, history, ProcState, Own, Alive,
     Exec
<1>2. NothingForgotten'
  BY Constants DEF IInv, TypeOK, globals, control, usb, history,
     NothingForgotten, OwnPids, Own, Alive,
     Phase, Exec
<1>3. RunsFromTarget'
  BY Constants DEF IInv, TypeOK, globals, control, usb, history, RunsFromTarget,
     NothingForgotten,
     OwnPids, Own, Alive, Phase, Loaded, Exec
<1>4. Phase'
  BY Constants DEF IInv, TypeOK, globals, control, usb, history, RunsFromTarget,
     NothingForgotten,
     OwnPids, Own, Alive, Phase, Loaded, Exec
<1>5. QED
  BY <1>1, <1>2, <1>3, <1>4 DEF IInv

LEMMA ExecFailsStep ==
  ASSUME IInv, NEW p \in Pids, ExecFails(p)
  PROVE  IInv'
<1>1. TypeOK'
  BY DEF IInv, TypeOK, globals, control, usb, history, ProcState, Own, Alive,
     ExecFails
<1>2. NothingForgotten'
  BY Constants DEF IInv, TypeOK, globals, control, usb, history,
     NothingForgotten, OwnPids, Own, Alive,
     Phase, ExecFails
<1>3. RunsFromTarget'
  BY Constants DEF IInv, TypeOK, globals, control, usb, history, RunsFromTarget,
     NothingForgotten,
     OwnPids, Own, Alive, Phase, Loaded, ExecFails
<1>4. Phase'
  BY Constants DEF IInv, TypeOK, globals, control, usb, history, RunsFromTarget,
     NothingForgotten,
     OwnPids, Own, Alive, Phase, Loaded, ExecFails
<1>5. QED
  BY <1>1, <1>2, <1>3, <1>4 DEF IInv

LEMMA ChildExitHandlerStep ==
  ASSUME IInv, NEW p \in Pids, ChildExitHandler(p)
  PROVE  IInv'
<1>1. TypeOK'
  BY DEF IInv, TypeOK, globals, control, usb, history, ProcState, Own,
     ChildExitHandler, Unmounted
<1>2. NothingForgotten'
  BY Constants DEF IInv, TypeOK, globals, control, usb, history,
     NothingForgotten, OwnPids, Own, Alive,
     Phase, ChildExitHandler, Unmounted
<1>3. RunsFromTarget'
  BY Constants DEF IInv, TypeOK, globals, control, usb, history, RunsFromTarget,
     NothingForgotten,
     OwnPids, Own, Alive, Phase, Loaded, ChildExitHandler, Unmounted
<1>4. Phase'
  BY Constants DEF IInv, TypeOK, globals, control, usb, history, RunsFromTarget,
     NothingForgotten,
     OwnPids, Own, Alive, Phase, Loaded, ChildExitHandler, Unmounted
<1>5. QED
  BY <1>1, <1>2, <1>3, <1>4 DEF IInv

LEMMA ProgramExitsStep ==
  ASSUME IInv, NEW p \in Pids, ProgramExits(p)
  PROVE  IInv'
<1>1. TypeOK'
  BY DEF IInv, TypeOK, globals, control, usb, history, ProcState, Own, Alive,
     ProgramExits
<1>2. NothingForgotten'
  BY Constants DEF IInv, TypeOK, globals, control, usb, history,
     NothingForgotten, OwnPids, Own, Alive,
     Phase, ProgramExits
<1>3. RunsFromTarget'
  BY Constants DEF IInv, TypeOK, globals, control, usb, history, RunsFromTarget,
     NothingForgotten,
     OwnPids, Own, Alive, Phase, Loaded, ProgramExits
<1>4. Phase'
  BY Constants DEF IInv, TypeOK, globals, control, usb, history, RunsFromTarget,
     NothingForgotten,
     OwnPids, Own, Alive, Phase, Loaded, ProgramExits
<1>5. QED
  BY <1>1, <1>2, <1>3, <1>4 DEF IInv

LEMMA OtherProcessStep ==
  ASSUME IInv, NEW p \in Pids, OtherProcess(p)
  PROVE  IInv'
<1>1. TypeOK'
  <2>1. proc' \in [Pids -> ProcState]
    BY DEF IInv, TypeOK, OtherProcess, ProcState
  <2>2. QED
    BY <2>1 DEF IInv, TypeOK, globals, control, usb, history, OtherProcess
<1>2. NothingForgotten'
  BY Constants DEF IInv, TypeOK, globals, control, usb, history,
     NothingForgotten, OwnPids, Own, Alive,
     Phase, OtherProcess
<1>3. RunsFromTarget'
  BY Constants DEF IInv, TypeOK, globals, control, usb, history, RunsFromTarget,
     NothingForgotten,
     OwnPids, Own, Alive, Phase, Loaded, OtherProcess
<1>4. Phase'
  BY Constants DEF IInv, TypeOK, globals, control, usb, history, RunsFromTarget,
     NothingForgotten,
     OwnPids, Own, Alive, Phase, Loaded, OtherProcess
<1>5. QED
  BY <1>1, <1>2, <1>3, <1>4 DEF IInv

LEMMA PlugStep ==
  ASSUME IInv, NEW d \in Devices, NEW c \in Content, Plug(d, c)
  PROVE  IInv'
<1>1. TypeOK'
  <2>1. events' \in Seq(Event)
    <3>1. [action |-> "add", device |-> d] \in Event
      BY DEF Event
    <3>2. QED
      BY <3>1, AppendProperties DEF IInv, TypeOK, Plug, Announce
  <2>2. stick' \in [Devices -> Content \cup {""}]
    BY DEF IInv, TypeOK, Plug
  <2>3. changes' \in 0..MaxChanges
    <3>1. changes \in 0..MaxChanges
      BY DEF IInv, TypeOK
    <3>2. changes < MaxChanges /\ changes' = changes + 1
      BY DEF Plug
    <3>3. QED
      BY <3>1, <3>2, MaxChangesAssumption
  <2>4. QED
    <3>1. due' \subseteq Devices
      BY DEF IInv, TypeOK, Plug
    <3>2. QED
      BY <2>1, <2>2, <2>3, <3>1 DEF IInv, TypeOK, globals, control, usb,
         history, Plug
<1>2. NothingForgotten'
  BY Constants DEF IInv, TypeOK, globals, control, usb, history,
     NothingForgotten, OwnPids, Own, Alive,
     Phase, Plug, Announce, Content, Event
<1>3. RunsFromTarget'
  BY Constants DEF IInv, TypeOK, globals, control, usb, history, RunsFromTarget,
     NothingForgotten,
     OwnPids, Own, Alive, Phase, Loaded, Plug, Announce, Content, Event
<1>4. Phase'
  BY Constants DEF IInv, TypeOK, globals, control, usb, history, RunsFromTarget,
     NothingForgotten,
     OwnPids, Own, Alive, Phase, Loaded, Plug, Announce, Content, Event
<1>5. QED
  BY <1>1, <1>2, <1>3, <1>4 DEF IInv

LEMMA PullStep ==
  ASSUME IInv, NEW d \in Devices, Pull(d)
  PROVE  IInv'
<1>1. TypeOK'
  <2>1. events' \in Seq(Event)
    <3>1. [action |-> "remove", device |-> d] \in Event
      BY DEF Event
    <3>2. QED
      BY <3>1, AppendProperties DEF IInv, TypeOK, Pull, Announce
  <2>2. stick' \in [Devices -> Content \cup {""}]
    BY DEF IInv, TypeOK, Pull
  <2>3. changes' \in 0..MaxChanges
    <3>1. changes \in 0..MaxChanges
      BY DEF IInv, TypeOK
    <3>2. changes < MaxChanges /\ changes' = changes + 1
      BY DEF Pull
    <3>3. QED
      BY <3>1, <3>2, MaxChangesAssumption
  <2>4. QED
    BY <2>1, <2>2, <2>3 DEF IInv, TypeOK, globals, control, usb, history, Pull
<1>2. NothingForgotten'
  BY Constants DEF IInv, TypeOK, globals, control, usb, history,
     NothingForgotten, OwnPids, Own, Alive,
     Phase, Pull, Announce, Content, Event
<1>3. RunsFromTarget'
  BY Constants DEF IInv, TypeOK, globals, control, usb, history, RunsFromTarget,
     NothingForgotten,
     OwnPids, Own, Alive, Phase, Loaded, Pull, Announce, Content, Event
<1>4. Phase'
  BY Constants DEF IInv, TypeOK, globals, control, usb, history, RunsFromTarget,
     NothingForgotten,
     OwnPids, Own, Alive, Phase, Loaded, Pull, Announce, Content, Event
<1>5. QED
  BY <1>1, <1>2, <1>3, <1>4 DEF IInv

THEOREM InitIInv == Init => IInv
<1> SUFFICES ASSUME Init PROVE IInv
  OBVIOUS
<1>1. TypeOK
  <2>1. events \in Seq(Event)
    BY EmptySeq DEF Init
  <2>2. changes \in 0..MaxChanges
    <3>1. changes = 0
      BY DEF Init
    <3>2. QED
      BY <3>1, MaxChangesAssumption
  <2>3. proc \in [Pids -> ProcState]
    BY DEF Init, ProcState
  <2>4. QED
    BY <2>1, <2>2, <2>3 DEF Init, TypeOK, PC
<1>2. NothingForgotten /\ RunsFromTarget
  BY DEF Init, NothingForgotten, RunsFromTarget, OwnPids, Own, Alive
<1>3. Phase
  BY DEF Init, Phase, globals
<1>4. QED
  BY <1>1, <1>2, <1>3 DEF IInv

THEOREM NextIInv == IInv /\ [Next]_vars => IInv'
<1> SUFFICES ASSUME IInv, [Next]_vars PROVE IInv'
  OBVIOUS
<1>1. CASE Process
  <2>1. ASSUME NEW d \in Devices, ScanDevice(d) PROVE IInv'
    BY <2>1, ScanDeviceStep
  <2>2. CASE ScanEnds \/ MonitorReady \/ MonitorFails
    BY <2>2, ScanEndsStep, MonitorReadyStep, MonitorFailsStep
  <2>3. CASE Mount \/ Search \/ Copy \/ Launch \/ LaunchFails
    BY <2>3, MountStep, SearchStep, CopyStep, LaunchStep, LaunchFailsStep
  <2>4. CASE Timeout \/ ReceiveEvent \/ Reap \/ CheckMount
    BY <2>4, TimeoutStep, ReceiveEventStep, ReapStep, CheckMountStep
  <2>5. CASE Cleanup
    BY <2>5, KillChildStep, RemoveCopyStep, UnmountStep DEF Cleanup
  <2>6. QED
    BY <1>1, <2>1, <2>2, <2>3, <2>4, <2>5 DEF Process
<1>2. CASE Environment
  <2>1. ASSUME NEW p \in Pids, Child(p) \/ OtherProcess(p) PROVE IInv'
    BY <2>1, ExecStep, ExecFailsStep, ChildExitHandlerStep, ProgramExitsStep,
       OtherProcessStep DEF Child
  <2>2. ASSUME NEW d \in Devices,
               Pull(d) \/ \E c \in Content : Plug(d, c)
        PROVE  IInv'
    BY <2>2, PullStep, PlugStep
  <2>3. QED
    BY <1>2, <2>1, <2>2, InterruptStep DEF Environment
<1>3. CASE UNCHANGED vars
  <2>1. TypeOK'
    BY <1>3 DEF IInv, TypeOK, vars, globals, control, usb, history
  <2>2. NothingForgotten'
    BY <1>3 DEF IInv, NothingForgotten, OwnPids, vars, globals
  <2>3. RunsFromTarget'
    BY <1>3 DEF IInv, RunsFromTarget, vars, globals
  <2>4. Phase'
    BY <1>3 DEF IInv, Phase, Loaded, vars, globals, control
  <2>5. QED
    BY <2>1, <2>2, <2>3, <2>4 DEF IInv
<1>4. QED
  BY <1>1, <1>2, <1>3 DEF Next, Exited

(***************************************************************************)
(* The invariant in every reachable state, and what it says of the parts a *)
(* run checks: test_app_start_v2.c never loses track of its child, mount   *)
(* or copy, whatever fails and whenever a stick is pulled.                 *)
(***************************************************************************)
THEOREM Inductive == Spec => []IInv
<1>1. Init => IInv
  BY InitIInv
<1>2. IInv /\ [Next]_vars => IInv'
  BY NextIInv
<1>3. QED
  BY <1>1, <1>2, PTL DEF Spec

\* Every variable of BootUp keeps its type.
THEOREM TypeCorrect == Spec => []TypeOK
<1>1. IInv => TypeOK
  BY DEF IInv
<1>2. QED
  BY <1>1, Inductive, PTL

\* The globals always name the child, the mount and the copy that exist.
THEOREM NothingIsForgotten == Spec => []NothingForgotten
<1>1. IInv => NothingForgotten
  BY DEF IInv
<1>2. QED
  BY <1>1, Inductive, PTL

\* A program runs only with its own stick as the target.
THEOREM ProgramsRunFromTarget == Spec => []RunsFromTarget
<1>1. IInv => RunsFromTarget
  BY DEF IInv
<1>2. QED
  BY <1>1, Inductive, PTL

\* Without a child the event loop finds nothing left behind.
THEOREM IdleStatesAreClean == Spec => []IdleIsClean
<1>1. ASSUME IInv PROVE IdleIsClean
  <2>1. ASSUME pc \in {"scan", "monitor", "mount", "select", "check"},
               child_pid = 0
        PROVE  ~Made /\ globals = <<0, "", "", "">>
    <3>1. globals = <<0, "", "", "">>
      BY <1>1, <2>1 DEF IInv, Phase, globals
    <3>2. mount_point = "" /\ copy_path = ""
      BY <3>1 DEF globals
    <3>3. OwnPids = {}
      BY <1>1, <2>1, Constants DEF IInv, NothingForgotten, OwnPids
    <3>4. tmp = {}
      BY <1>1, <3>2, Constants DEF IInv, TypeOK, NothingForgotten
    <3>5. \A d \in Devices : mounted[d] = ""
      BY <1>1, <3>2, Constants DEF IInv, NothingForgotten
    <3>6. QED
      BY <3>1, <3>3, <3>4, <3>5 DEF Made
  <2>2. ASSUME pc \in {"scan", "monitor", "select"}, child_pid # 0
        PROVE  target_device # "" /\ mount_point # ""
    BY <1>1, <2>2, Constants DEF IInv, Phase, Loaded
  <2>3. QED
    BY <2>1, <2>2 DEF IdleIsClean
<1>2. QED
  BY <1>1, Inductive, PTL

\* One program at most, of which the globals name everything.
THEOREM ProgramsAreAccounted == Spec => []ProgramAccounted
BY NothingIsForgotten, ProgramsRunFromTarget, PTL DEF ProgramAccounted
=============================================================================
