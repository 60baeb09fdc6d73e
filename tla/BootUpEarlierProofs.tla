------------------------- MODULE BootUpEarlierProofs -------------------------
(***************************************************************************)
(* The safety properties of BootUpEarlier for any devices, programs,       *)
(* process ids and number of changes, of both versions at once.            *)
(***************************************************************************)
EXTENDS BootUpEarlier, SequenceTheorems, TLAPS

Places == {"scan", "monitor", "mount", "search", "copy", "launch", "select", "reap",
           "check", "kill", "tidy", "exited"}
Returns == {"scan", "reap", "select", "mount", "exited"}

\* The copy that is about to be run is whole, and of the stick it is meant for.
WholeCopy(d) ==
  IF version = 0 THEN disk[Fixed] = mounted[d]
  ELSE copy_path \in Programs /\ disk[copy_path] = copy_path

\* Where the program is and what it knows there.
Phase ==
  /\ version = 0 => copy_path = Fixed
  /\ pc \in {"mount", "search", "copy", "launch"} => dev \in Devices /\ child_pid = 0
  /\ pc = "mount" => version = 0
  /\ pc \in {"kill", "tidy"} => after \in Returns
  /\ pc \in {"kill", "tidy"} /\ after = "mount" => version = 0 /\ dev \in Devices
  /\ pc = "tidy" => child_pid = 0
  /\ child_pid # 0 => target_device \in Devices

\* A copy is whole from the end of cp until the child has been started from it.
Copying ==
  /\ pc = "launch" => WholeCopy(dev)
  /\ \A p \in Pids : proc[p] = "starting" => WholeCopy(target_device)

\* The places outside the cleanup where no copy is in use without a child.
CopyFree == {"scan", "monitor", "select", "reap", "check", "search", "copy"}

\* Version 1 begins a detection without a copy, unless one failed before.
NoCopyYet ==
  version = 1 /\ failed = FALSE /\ child_pid = 0
    /\ pc \in CopyFree =>
  \A c \in Copies : disk[c] = ""

\* The inductive invariant.
IInv == TypeOK /\ RunsOwnStick /\ LeftoversKnown /\ Phase /\ Copying /\ NoCopyYet

\* What the assumptions say of devices, programs and process ids.
LEMMA Constants ==
  /\ "" \notin Devices /\ 0 \notin Pids
  /\ "" \notin Programs /\ "directory" \notin Programs
  /\ "empty" \notin Programs /\ "part" \notin Programs
  /\ MaxChanges \in Nat
  <1>1. "" \notin Devices /\ 0 \notin Pids /\ MaxChanges \in Nat
    BY DevicesAssumption, PidsAssumption, MaxChangesAssumption
  <1>2. "" \notin Programs /\ "directory" \notin Programs
        /\ "empty" \notin Programs /\ "part" \notin Programs
    BY ProgramsAssumption
  <1> QED
    BY <1>1, <1>2

\* Without a child no process of the program is left.
LEMMA NoChild == IInv /\ child_pid = 0 => \A p \in Pids : proc[p] \notin Own
  <1> SUFFICES ASSUME IInv, child_pid = 0, NEW p \in Pids, proc[p] \in Own PROVE FALSE
    OBVIOUS
  <1>1. p \in {0}
    BY DEF IInv, RunsOwnStick
  <1> QED
    BY <1>1, Constants

\* A state from which a detection may begin.
LEMMA Idle ==
  ASSUME IInv, version = 1, failed = FALSE, child_pid = 0,
         pc \in CopyFree
  PROVE  \A c \in Copies : disk[c] = ""
  BY DEF IInv, NoCopyYet

\* The variables that only the steps on mounts, copies and the child change.
data == <<version, child_pid, target_device, mount_point, copy_path, mounted, disk,
          proc, image>>

\* The types after such a step.
LEMMA ControlTypes ==
  ASSUME TypeOK, UNCHANGED data, UNCHANGED stick,
         pc' \in Places, after' \in Returns \cup {""}, dev' \in Devices \cup {""},
         due' \subseteq Devices, events' \in Seq(Event), listening' \in BOOLEAN,
         changes' \in 0..MaxChanges, failed' \in BOOLEAN
  PROVE  TypeOK'
  <1>1. /\ child_pid' \in Pids \cup {0} /\ target_device' \in Devices \cup {""}
        /\ mount_point' \in Devices \cup {""} /\ copy_path' \in Copies \cup {"directory", ""}
    BY DEF TypeOK, data
  <1>2. /\ stick' \in [Devices -> Content \cup {""}]
        /\ mounted' \in [Devices -> Content \cup {""}]
        /\ disk' \in [Copies -> Programs \cup {"part", ""}]
    BY DEF TypeOK, data
  <1>3. /\ proc' \in [Pids -> Own \cup {"free"}]
        /\ image' \in [Pids -> Programs \cup {"part", ""}]
    BY DEF TypeOK, data
  <1> QED
    BY <1>1, <1>2, <1>3 DEF TypeOK, Places, Returns, data

\* A step that changes none of them keeps the invariant if the place it goes to
\* asks for nothing new.
LEMMA ControlStep ==
  ASSUME IInv, UNCHANGED data, TypeOK', Phase', failed => failed',
         pc' = "launch" => pc = "launch" /\ dev' = dev,
         pc' \in CopyFree =>
           \/ failed' \/ version = 0 \/ child_pid # 0
           \/ pc \in CopyFree
  PROVE  IInv'
  <1>1. RunsOwnStick' /\ LeftoversKnown'
    BY DEF IInv, RunsOwnStick, LeftoversKnown, Running, data
  <1>2. Copying'
    BY DEF IInv, Copying, WholeCopy, data
  <1>3. NoCopyYet'
    <2> SUFFICES ASSUME version' = 1, failed' = FALSE, child_pid' = 0,
                        pc' \in CopyFree
                 PROVE  \A c \in Copies : disk'[c] = ""
      BY DEF NoCopyYet
    <2>1. version = 1 /\ failed = FALSE /\ child_pid = 0 /\ disk' = disk
      BY DEF data
    <2>2. pc \in CopyFree
      BY <2>1
    <2>3. \A c \in Copies : disk[c] = ""
      BY <2>1, <2>2, Idle, Zenon
    <2> QED
      BY <2>1, <2>3
  <1> QED
    BY <1>1, <1>2, <1>3 DEF IInv

\* detect_and_run_program() begins, or does not with a child.
LEMMA DetectGoesOn ==
  ASSUME IInv, NEW d \in Devices, Detect(d)
  PROVE  /\ pc' \in {"scan", "reap", "mount", "search"} /\ dev' \in Devices \cup {""}
         /\ pc' = "mount" => version = 0
         /\ pc' \in {"mount", "search"} => child_pid = 0 /\ dev' = d
  BY DEF Detect, Detect0, Detect1, ReturnFromDetect, Caller, Is

\* The scan at the start takes one device after the other.
LEMMA ScanDeviceStep ==
  ASSUME IInv, NEW d \in Devices, ScanDevice(d)
  PROVE  IInv'
  <1>1. /\ Detect(d) /\ pc = "scan" /\ child_pid = 0 /\ due' = due \ {d}
        /\ UNCHANGED data
        /\ UNCHANGED <<after, stick, events, listening, changes, failed>>
    BY DEF ScanDevice, globals, usb, children, data
  <1>2. TypeOK'
    BY <1>1, DetectGoesOn, ControlTypes DEF IInv, TypeOK, Places, Returns
  <1>3. Phase'
    BY <1>1, DetectGoesOn DEF IInv, Phase, data
  <1> QED
    BY <1>1, <1>2, <1>3, DetectGoesOn, ControlStep DEF CopyFree

\* The scan at the start ends.
LEMMA ScanEndsStep ==
  ASSUME IInv, ScanEnds
  PROVE  IInv'
  <1>1. /\ pc = "scan" /\ pc' = "monitor" /\ due' = {} /\ UNCHANGED data
        /\ UNCHANGED <<dev, after, stick, events, listening, changes, failed>>
    BY DEF ScanEnds, globals, usb, children, data
  <1>2. TypeOK'
    BY <1>1, ControlTypes DEF IInv, TypeOK, Places, Returns
  <1>3. Phase'
    BY <1>1 DEF IInv, Phase, data
  <1> QED
    BY <1>1, <1>2, <1>3, ControlStep DEF CopyFree

\* udev is ready.
LEMMA MonitorReadyStep ==
  ASSUME IInv, MonitorReady
  PROVE  IInv'
  <1>1. /\ pc = "monitor" /\ pc' = "select" /\ listening' = TRUE /\ UNCHANGED data
        /\ UNCHANGED <<dev, after, due, stick, changes, failed>>
    BY DEF MonitorReady, globals, children, data
  <1>2. events' \in Seq(Event)
    <2>1. PICK n \in 0..Len(events) : events' = SubSeq(events, n + 1, Len(events))
      BY DEF MonitorReady
    <2>2. events \in Seq(Event) /\ Len(events) \in Nat
      <3>1. events \in Seq(Event)
        BY DEF IInv, TypeOK
      <3> QED
        BY <3>1, LenProperties
    <2>3. \A i \in n + 1..Len(events) : events[i] \in Event
      BY <2>2, ElementOfSeq
    <2> QED
      BY <2>1, <2>2, <2>3, SubSeqProperties
  <1>3. TypeOK'
    BY <1>1, <1>2 DEF IInv, TypeOK, data
  <1>4. Phase'
    BY <1>1 DEF IInv, Phase, data
  <1> QED
    BY <1>1, <1>3, <1>4, ControlStep DEF CopyFree

\* main() returns, or goes on without a monitor.
LEMMA NoMonitorStep ==
  ASSUME IInv, MonitorFails \/ MonitorMissing
  PROVE  IInv'
  <1>1. /\ pc = "monitor" /\ pc' \in {"kill", "select", "exited"}
        /\ pc' = "kill" => after' = "exited"
        /\ after' \in {after, "exited"}
        /\ UNCHANGED data
        /\ UNCHANGED <<dev, due, stick, events, listening, changes, failed>>
    BY DEF MonitorFails, MonitorMissing, CallCleanup, globals, usb, children, data
  <1>2. TypeOK'
    BY <1>1, ControlTypes DEF IInv, TypeOK, Places, Returns
  <1>3. Phase'
    BY <1>1 DEF IInv, Phase, Returns, data
  <1> QED
    BY <1>1, <1>2, <1>3, ControlStep DEF CopyFree

\* select() returns without an event.
LEMMA TimeoutStep ==
  ASSUME IInv, Timeout
  PROVE  IInv'
  <1>1. /\ pc = "select" /\ pc' = "reap" /\ UNCHANGED data
        /\ UNCHANGED <<dev, after, due, stick, events, listening, changes, failed>>
    BY DEF Timeout, globals, usb, children, data
  <1>2. TypeOK'
    BY <1>1, ControlTypes DEF IInv, TypeOK, Places, Returns
  <1>3. Phase'
    BY <1>1 DEF IInv, Phase, data
  <1> QED
    BY <1>1, <1>2, <1>3, ControlStep DEF CopyFree

\* A signal interrupts select().
LEMMA InterruptStep ==
  ASSUME IInv, Interrupt
  PROVE  IInv'
  <1>1. /\ pc' = "exited" /\ UNCHANGED data
        /\ UNCHANGED <<dev, after, due, stick, events, listening, changes, failed>>
    BY DEF Interrupt, globals, usb, children, data
  <1>2. TypeOK'
    BY <1>1, ControlTypes DEF IInv, TypeOK, Places, Returns
  <1>3. Phase'
    BY <1>1 DEF IInv, Phase, data
  <1> QED
    BY <1>1, <1>2, <1>3, ControlStep DEF CopyFree

\* An event begins a detection, ends the program of version 0 or the child of
\* version 1, or is nobody's.
LEMMA ReceiveEventStep ==
  ASSUME IInv, ReceiveEvent
  PROVE  IInv'
  <1>1. /\ pc = "select" /\ events # <<>> /\ HandleDevice(Head(events))
        /\ events' = Tail(events) /\ UNCHANGED data
        /\ UNCHANGED <<due, stick, listening, changes, failed>>
    BY DEF ReceiveEvent, globals, children, data
  <1>2. Head(events).device \in Devices /\ events' \in Seq(Event)
    <2>1. events \in Seq(Event)
      BY DEF IInv, TypeOK
    <2>2. Head(events) \in Event /\ Tail(events) \in Seq(Event)
      BY <1>1, <2>1, HeadTailProperties
    <2> QED
      BY <1>1, <2>2 DEF Event
  <1>3. /\ pc' \in {"scan", "reap", "mount", "search", "kill", "exited"}
        /\ dev' \in Devices \cup {""} /\ after' \in {after, "reap"}
        /\ pc' = "mount" => version = 0
        /\ pc' \in {"mount", "search"} => child_pid = 0 /\ dev' \in Devices
        /\ pc' = "kill" => after' = "reap"
    <2>1. CASE Detect(Head(events).device) /\ UNCHANGED after
      BY <1>2, <2>1, DetectGoesOn
    <2>2. CASE (Removed0 \/ Removed1) /\ UNCHANGED dev
      BY <2>2 DEF Removed0, Removed1, CallCleanup, IInv, TypeOK
    <2>3. CASE pc' = "reap" /\ UNCHANGED <<dev, after>>
      BY <2>3 DEF IInv, TypeOK
    <2> QED
      BY <1>1, <2>1, <2>2, <2>3 DEF HandleDevice
  <1>4. TypeOK'
    BY <1>1, <1>2, <1>3, ControlTypes DEF IInv, TypeOK, Places, Returns
  <1>5. Phase'
    BY <1>1, <1>3 DEF IInv, Phase, Returns, data
  <1> QED
    BY <1>1, <1>3, <1>4, <1>5, ControlStep DEF CopyFree

\* Every way a detection fails.
LEMMA AbandonStep ==
  ASSUME IInv, Abandon0 \/ Abandon1, UNCHANGED data, pc \in {"search", "launch"},
         UNCHANGED <<due, stick, events, listening, changes>>
  PROVE  IInv'
  <1>1. /\ pc' \in {"kill", "scan", "reap"} /\ failed' = TRUE
        /\ dev' \in {dev, ""} /\ after' \in {after, "scan", "reap"}
        /\ pc' = "kill" => after' \in {"scan", "reap"}
    BY DEF Abandon0, Abandon1, CallCleanup, ReturnFromDetect, Caller
  <1>2. TypeOK'
    BY <1>1, ControlTypes DEF IInv, TypeOK, Places, Returns
  <1>3. Phase'
    BY <1>1 DEF IInv, Phase, Returns, data
  <1> QED
    BY <1>1, <1>2, <1>3, ControlStep DEF CopyFree
-----------------------------------------------------------------------------
\* Without a child nothing runs and nothing is about to: what is left to show
\* of a step that has none.
LEMMA ChildlessStep ==
  ASSUME IInv, child_pid = 0, child_pid' = 0, UNCHANGED <<version, proc, image>>,
         TypeOK', LeftoversKnown', Phase', NoCopyYet',
         pc' = "launch" => WholeCopy(dev)'
  PROVE  IInv'
  <1>1. \A p \in Pids : proc[p] \notin Own
    BY NoChild
  <1>2. \A p \in Pids : proc'[p] \notin Own
    BY <1>1
  <1>3. RunsOwnStick'
    BY <1>2 DEF RunsOwnStick, Running, Own, Alive
  <1>4. Copying'
    BY <1>2 DEF Copying, Own, Alive
  <1> QED
    BY <1>3, <1>4 DEF IInv

\* What the mount of a stick changes.
LEMMA MountStep ==
  ASSUME IInv, Mount
  PROVE  IInv'
  <1>1. /\ pc = "mount" /\ version = 0 /\ child_pid = 0 /\ dev \in Devices
        /\ UNCHANGED <<version, due, stick, events, listening, changes, disk, proc, image>>
    BY DEF Mount, IInv, Phase, usb, children
  <1>2. CASE mount_point # ""
    <2>1. /\ pc' = "kill" /\ after' = "mount" /\ UNCHANGED data
          /\ UNCHANGED <<dev, failed>>
      BY <1>1, <1>2 DEF Mount, CallCleanup, globals, data
    <2>2. TypeOK'
      BY <1>1, <2>1, ControlTypes DEF IInv, TypeOK, Places, Returns
    <2>3. Phase'
      BY <1>1, <2>1 DEF IInv, Phase, Returns, data
    <2> QED
      BY <1>1, <2>1, <2>2, <2>3, ControlStep DEF CopyFree
  <1>3. CASE mount_point = "" /\ pc' = "search"
    <2>1. /\ stick[dev] # "" /\ mounted' = [mounted EXCEPT ![dev] = stick[dev]]
          /\ mount_point' = dev
          /\ UNCHANGED <<child_pid, target_device, copy_path, dev, after, failed>>
      BY <1>3 DEF Mount, ReturnFromDetect, Caller, CallCleanup
    <2>2. mounted' \in [Devices -> Content \cup {""}]
      BY <1>1, <2>1 DEF IInv, TypeOK
    <2>3. TypeOK'
      BY <1>1, <1>3, <2>1, <2>2 DEF IInv, TypeOK
    <2>4. Phase'
      BY <1>1, <1>3, <2>1 DEF IInv, Phase
    <2>5. \A d \in Devices : mounted[d] = ""
      BY <1>1, <1>3, Constants DEF IInv, LeftoversKnown
    <2>6. LeftoversKnown'
      BY <1>1, <2>1, <2>5 DEF LeftoversKnown, IInv, TypeOK
    <2>7. NoCopyYet'
      <3>1. version' # 1
        BY <1>1
      <3> QED
        BY <3>1 DEF NoCopyYet
    <2> QED
      BY <1>1, <1>3, <2>1, <2>3, <2>4, <2>6, <2>7, ChildlessStep
  <1>4. CASE mount_point = "" /\ pc' # "search"
    <2>1. /\ mounted' \in {mounted, [mounted EXCEPT ![dev] = ""]}
          /\ failed' = TRUE /\ pc' \in {"scan", "reap"} /\ dev' = ""
          /\ UNCHANGED <<child_pid, target_device, mount_point, copy_path, after>>
      BY <1>4 DEF Mount, ReturnFromDetect, Caller, globals
    <2>2. /\ mounted' \in [Devices -> Content \cup {""}]
          /\ \A d \in Devices : mounted'[d] # "" => mounted[d] # ""
      BY <1>1, <2>1 DEF IInv, TypeOK
    <2>3. TypeOK'
      BY <1>1, <2>1, <2>2 DEF IInv, TypeOK
    <2>4. Phase'
      BY <1>1, <2>1 DEF IInv, Phase
    <2>5. LeftoversKnown'
      BY <1>1, <2>1, <2>2 DEF LeftoversKnown, IInv
    <2>6. NoCopyYet'
      <3>1. version' # 1
        BY <1>1
      <3> QED
        BY <3>1 DEF NoCopyYet
    <2> QED
      BY <1>1, <2>1, <2>3, <2>4, <2>5, <2>6, ChildlessStep
  <1> QED
    BY <1>2, <1>3, <1>4

\* v0 looks for the program on the stick.
LEMMA Search0Step ==
  ASSUME IInv, Search0
  PROVE  IInv'
  <1>1. /\ pc = "search" /\ UNCHANGED data
        /\ UNCHANGED <<due, stick, events, listening, changes>>
    BY DEF Search0, globals, usb, children, data
  <1>2. CASE pc' = "copy" /\ UNCHANGED <<dev, after, failed>>
    <2>1. TypeOK'
      BY <1>1, <1>2, ControlTypes DEF IInv, TypeOK, Places, Returns
    <2>2. Phase'
      BY <1>1, <1>2 DEF IInv, Phase, data
    <2> QED
      BY <1>1, <1>2, <2>1, <2>2, ControlStep DEF CopyFree
  <1> QED
    BY <1>1, <1>2, AbandonStep DEF CopyFree, Search0

\* The name found becomes the copy_path, while there is no copy yet.
LEMMA Search1Step ==
  ASSUME IInv, Search1
  PROVE  IInv'
  <1>1. /\ pc = "search" /\ version = 1 /\ child_pid = 0 /\ dev \in Devices
        /\ UNCHANGED <<version, child_pid, target_device, mount_point, due, mounted, disk,
                       stick, events, listening, changes, proc, image>>
    BY DEF Search1, Is, usb, children, IInv, Phase
  <1>2. CASE Abandon1 /\ UNCHANGED copy_path
    BY <1>1, <1>2, AbandonStep DEF CopyFree, data
  <1>3. CASE pc' = "copy"
    <2>1. /\ mounted[dev] \notin {"", "empty"} /\ copy_path' = mounted[dev]
          /\ UNCHANGED <<dev, after, failed>>
      BY <1>3 DEF Search1, Abandon1, ReturnFromDetect, Caller
    <2>2. copy_path' \in Copies \cup {"directory", ""}
      BY <1>1, <2>1 DEF IInv, TypeOK, Content, Copies
    <2>3. TypeOK'
      BY <1>1, <1>3, <2>1, <2>2 DEF IInv, TypeOK
    <2>4. Phase'
      <3>1. version' = 1 /\ child_pid' = 0 /\ dev' \in Devices /\ pc' = "copy"
        BY <1>1, <1>3, <2>1
      <3> QED
        BY <3>1 DEF Phase
    <2>5. failed = FALSE => \A c \in Copies : disk[c] = ""
      <3>1. version = 1 /\ child_pid = 0 /\ pc \in CopyFree
        BY <1>1 DEF CopyFree
      <3> QED
        BY <3>1, Idle
    <2>6. NoCopyYet'
      BY <1>1, <2>1, <2>5 DEF NoCopyYet
    <2>7. LeftoversKnown'
      BY <1>1, <2>1, <2>5, Constants DEF LeftoversKnown, IInv, TypeOK
    <2> QED
      BY <1>1, <1>3, <2>3, <2>4, <2>6, <2>7, ChildlessStep
  <1> QED
    BY <1>2, <1>3 DEF Search1

\* What cp writes.
LEMMA CopyTypes ==
  ASSUME IInv, NEW what \in Programs \cup {"part", ""}
  PROVE  /\ Copied(what) \in [Copies -> Programs \cup {"part", ""}]
         /\ \A c \in Copies : c # copy_path => Copied(what)[c] = disk[c]
         /\ copy_path \in Copies => Copied(what)[copy_path] = what
  BY DEF Copied, IInv, TypeOK

\* Types of what a copy that fails changes.
LEMMA CopyFailsTypes ==
  ASSUME IInv, CopyFails
  PROVE  /\ disk' \in [Copies -> Programs \cup {"part", ""}]
         /\ \A c \in Copies : c # copy_path => disk'[c] = disk[c]
  <1>1. CASE disk' = disk
    BY <1>1 DEF IInv, TypeOK
  <1>2. CASE disk' = Copied("part")
    BY <1>2, CopyTypes
  <1> QED
    BY <1>1, <1>2 DEF CopyFails

\* The types after a step of cp.
LEMMA CopyTypesKept ==
  ASSUME TypeOK, disk' \in [Copies -> Programs \cup {"part", ""}],
         UNCHANGED <<version, child_pid, target_device, mount_point, copy_path, mounted,
                     proc, image, due, stick, events, listening, changes>>,
         pc' \in Places, after' \in Returns \cup {""}, dev' \in Devices \cup {""},
         failed' \in BOOLEAN
  PROVE  TypeOK'
  <1>1. /\ child_pid' \in Pids \cup {0} /\ target_device' \in Devices \cup {""}
        /\ mount_point' \in Devices \cup {""} /\ copy_path' \in Copies \cup {"directory", ""}
        /\ events' \in Seq(Event) /\ listening' \in BOOLEAN /\ changes' \in 0..MaxChanges
    BY DEF TypeOK
  <1>2. /\ stick' \in [Devices -> Content \cup {""}]
        /\ mounted' \in [Devices -> Content \cup {""}]
        /\ proc' \in [Pids -> Own \cup {"free"}]
        /\ image' \in [Pids -> Programs \cup {"part", ""}]
    BY DEF TypeOK
  <1> QED
    BY <1>1, <1>2 DEF TypeOK, Places, Returns

\* A copy that failed: version 0 cleans up, version 1 does not.
LEMMA CopyFailsStep ==
  ASSUME IInv, pc = "copy", CopyFails, Abandon0 \/ Abandon1,
         UNCHANGED <<version, child_pid, target_device, mount_point, copy_path, mounted,
                     proc, image, due, stick, events, listening, changes>>
  PROVE  IInv'
  <1>1. /\ pc' \in {"kill", "scan", "reap"} /\ failed' = TRUE
        /\ dev' \in {dev, ""} /\ after' \in {after, "scan", "reap"}
        /\ pc' = "kill" => after' \in {"scan", "reap"}
    BY DEF Abandon0, Abandon1, CallCleanup, ReturnFromDetect, Caller
  <1>2. child_pid = 0
    BY DEF IInv, Phase
  <1>3. TypeOK'
    <2>1. disk' \in [Copies -> Programs \cup {"part", ""}]
      BY CopyFailsTypes
    <2>2. /\ pc' \in Places /\ after' \in Returns \cup {""} /\ dev' \in Devices \cup {""}
          /\ failed' \in BOOLEAN
      BY <1>1 DEF IInv, TypeOK, Places, Returns
    <2> QED
      BY <2>1, <2>2, CopyTypesKept DEF IInv
  <1>4. Phase'
    BY <1>1, <1>2 DEF IInv, Phase, Returns
  <1>5. LeftoversKnown'
    BY <1>1 DEF IInv, LeftoversKnown
  <1>6. NoCopyYet'
    BY <1>1 DEF NoCopyYet
  <1> QED
    BY <1>1, <1>2, <1>3, <1>4, <1>5, <1>6, ChildlessStep

\* A copy that is whole is about to be run.
LEMMA CopyDoneStep ==
  ASSUME IInv, pc = "copy", CopyOK, pc' = "launch", version = 1 => mounted[dev] = copy_path,
         UNCHANGED <<version, child_pid, target_device, mount_point, copy_path, mounted,
                     proc, image, dev, after, due, stick, events, listening, changes, failed>>
  PROVE  IInv'
  <1>1. mounted[dev] \in Programs /\ disk' = Copied(mounted[dev])
    BY DEF CopyOK
  <1>2. dev \in Devices /\ child_pid = 0 /\ version \in {0, 1}
    BY DEF IInv, Phase, TypeOK
  <1>3. copy_path \in Copies
    BY <1>1, <1>2 DEF IInv, Phase, Copies
  <1>4. /\ disk' \in [Copies -> Programs \cup {"part", ""}]
        /\ \A c \in Copies : c # copy_path => disk'[c] = disk[c]
        /\ disk'[copy_path] = mounted[dev]
    BY <1>1, <1>3, CopyTypes
  <1>5. TypeOK'
    BY <1>4, CopyTypesKept DEF IInv, TypeOK, Places, Returns
  <1>6. Phase'
    BY <1>2 DEF IInv, Phase
  <1>7. WholeCopy(dev)'
    BY <1>1, <1>2, <1>4 DEF WholeCopy, IInv, Phase
  <1>8. version = 1 /\ failed = FALSE => \A c \in Copies : disk[c] = ""
    BY <1>2, Idle DEF CopyFree
  <1>9. LeftoversKnown'
    <2>1. CASE version = 0
      BY <2>1 DEF IInv, LeftoversKnown
    <2>2. CASE version = 1
      <3>1. CASE failed = FALSE
        <4>1. \A c \in Copies : c # copy_path => disk'[c] = ""
          BY <1>4, <1>8, <2>2, <3>1
        <4>2. version' # 0 /\ copy_path' = copy_path
          BY <2>2
        <4>3. \A c \in Copies : disk'[c] # "" => copy_path' = c
          BY <4>1, <4>2, Zenon
        <4> QED
          BY <4>2, <4>3, Zenon DEF LeftoversKnown
      <3>2. CASE failed = TRUE
        BY <2>2, <3>2 DEF LeftoversKnown
      <3> QED
        BY <3>1, <3>2 DEF IInv, TypeOK
    <2> QED
      BY <1>2, <2>1, <2>2
  <1>10. NoCopyYet'
    BY DEF NoCopyYet, CopyFree
  <1> QED
    BY <1>2, <1>5, <1>6, <1>7, <1>9, <1>10, ChildlessStep

\* Every way a copy can end.
LEMMA CopyStep ==
  ASSUME IInv, Copy0 \/ Copy1
  PROVE  IInv'
  <1>1. /\ pc = "copy"
        /\ UNCHANGED <<version, child_pid, target_device, mount_point, copy_path, mounted,
                       proc, image, due, stick, events, listening, changes>>
    BY DEF Copy0, Copy1, globals, usb, children
  <1>2. CASE CopyFails /\ (Abandon0 \/ Abandon1)
    BY <1>1, <1>2, CopyFailsStep
  <1>3. CASE /\ CopyOK /\ pc' = "launch" /\ UNCHANGED <<dev, after, failed>>
             /\ version = 1 => mounted[dev] = copy_path
    BY <1>1, <1>3, CopyDoneStep
  <1>4. version = 0 \/ version = 1
    BY DEF IInv, TypeOK
  <1> QED
    BY <1>2, <1>3 DEF Copy0, Copy1, Is

\* The copy that was made is what the child will be started from.
LEMMA ForkStep ==
  ASSUME IInv, Fork, pc = "launch",
         UNCHANGED <<version, mount_point, copy_path, mounted, disk, image, due, stick,
                     events, listening, changes>>
  PROVE  IInv'
  <1>1. PICK p \in Pids :
          /\ proc[p] = "free" /\ proc' = [proc EXCEPT ![p] = "starting"]
          /\ child_pid' = p /\ target_device' = dev
    BY DEF Fork
  <1>2. /\ pc' \in {"scan", "reap"} /\ dev' = "" /\ UNCHANGED <<after, failed>>
        /\ dev \in Devices /\ child_pid = 0 /\ WholeCopy(dev)
    BY DEF Fork, ReturnFromDetect, Caller, IInv, Phase, Copying
  <1>3. p # 0 /\ "" \notin Devices
    BY Constants
  <1>4. /\ proc' \in [Pids -> Own \cup {"free"}] /\ proc'[p] = "starting"
        /\ \A q \in Pids \ {p} : proc'[q] \notin Own
    BY <1>1, <1>2, NoChild DEF IInv, TypeOK, Own, Alive
  <1>5. TypeOK'
    BY <1>1, <1>2, <1>4 DEF IInv, TypeOK
  <1>6. RunsOwnStick'
    BY <1>1, <1>4 DEF RunsOwnStick, Running, Own, Alive
  <1>7. LeftoversKnown'
    BY <1>2 DEF IInv, LeftoversKnown
  <1>8. Phase'
    BY <1>1, <1>2 DEF IInv, Phase
  <1>9. Copying'
    BY <1>1, <1>2, <1>4 DEF Copying, WholeCopy, Own, Alive
  <1>10. NoCopyYet'
    BY <1>1, <1>3 DEF NoCopyYet
  <1> QED
    BY <1>5, <1>6, <1>7, <1>8, <1>9, <1>10 DEF IInv

\* fork() makes a child that will run the copy.
LEMMA LaunchStep ==
  ASSUME IInv, Launch0 \/ Launch1
  PROVE  IInv'
  <1>1. /\ pc = "launch"
        /\ UNCHANGED <<version, mount_point, copy_path, mounted, disk, image, due, stick,
                       events, listening, changes>>
    BY DEF Launch0, Launch1, usb
  <1>2. CASE Fork
    BY <1>1, <1>2, ForkStep
  <1>3. CASE (Abandon0 \/ Abandon1) /\ UNCHANGED <<proc, child_pid, target_device>>
    BY <1>1, <1>3, AbandonStep DEF data
  <1> QED
    BY <1>2, <1>3 DEF Launch0, Launch1
-----------------------------------------------------------------------------
\* A process of the program is the child, which has a target.
LEMMA OnlyChild ==
  ASSUME IInv, NEW p \in Pids, proc[p] \in Own
  PROVE  /\ p = child_pid /\ child_pid # 0 /\ target_device \in Devices
         /\ \A q \in Pids : proc[q] \in Own => q = p
         /\ pc # "launch"
  <1>1. \A q \in Pids : proc[q] \in Own => q = child_pid
    BY DEF IInv, RunsOwnStick
  <1>2. p = child_pid /\ child_pid # 0
    BY <1>1, Constants
  <1>3. target_device \in Devices /\ pc # "launch"
    BY <1>2 DEF IInv, Phase
  <1> QED
    BY <1>1, <1>2, <1>3

\* Without a child nothing runs that main started.
LEMMA NothingRuns ==
  ASSUME \A p \in Pids : proc'[p] \notin Own, pc' # "launch"
  PROVE  RunsOwnStick' /\ Copying'
  <1>1. RunsOwnStick'
    BY DEF RunsOwnStick, Running, Own, Alive
  <1>2. Copying'
    BY DEF Copying, Own, Alive
  <1> QED
    BY <1>1, <1>2

\* The child is reaped or killed.
LEMMA ChildFreed ==
  ASSUME IInv, child_pid # 0 => proc' = [proc EXCEPT ![child_pid] = "free"],
         child_pid = 0 => proc' = proc
  PROVE  /\ proc' \in [Pids -> Own \cup {"free"}]
         /\ \A p \in Pids : proc'[p] \notin Own
  <1>1. /\ proc \in [Pids -> Own \cup {"free"}] /\ child_pid \in Pids \cup {0}
        /\ \A p \in Pids : proc[p] \in Own => p = child_pid
    BY OnlyChild DEF IInv, TypeOK
  <1>2. CASE child_pid = 0
    BY <1>1, <1>2, NoChild
  <1>3. CASE child_pid # 0
    <2>1. "free" \notin Own
      BY DEF Own, Alive
    <2> QED
      BY <1>1, <1>3, <2>1
  <1> QED
    BY <1>2, <1>3

\* v0 takes the child that has ended.
LEMMA Reap0Step ==
  ASSUME IInv, Reap0
  PROVE  IInv'
  <1>1. /\ pc = "reap" /\ pc' = "check" /\ version = 0 /\ version' = 0
        /\ UNCHANGED <<mount_point, copy_path, mounted, disk, image>>
        /\ UNCHANGED <<dev, after, due, stick, events, listening, changes, failed>>
    BY DEF Reap0, Is, usb
  <1>2. CASE HasExited
    <2>1. /\ child_pid # 0 /\ proc' = [proc EXCEPT ![child_pid] = "free"]
          /\ child_pid' = 0 /\ target_device' = ""
      BY <1>2 DEF Reap0, HasExited
    <2>2. proc' \in [Pids -> Own \cup {"free"}] /\ \A p \in Pids : proc'[p] \notin Own
      BY <2>1, ChildFreed
    <2>3. TypeOK'
      BY <1>1, <2>1, <2>2 DEF IInv, TypeOK
    <2>4. RunsOwnStick' /\ Copying'
      BY <1>1, <2>2, NothingRuns
    <2>5. LeftoversKnown'
      BY <1>1 DEF IInv, LeftoversKnown
    <2>6. Phase'
      BY <1>1, <2>1 DEF IInv, Phase
    <2>7. NoCopyYet'
      <3>1. version' # 1
        BY <1>1
      <3> QED
        BY <3>1 DEF NoCopyYet
    <2> QED
      BY <2>3, <2>4, <2>5, <2>6, <2>7 DEF IInv
  <1>3. CASE ~HasExited
    <2>1. UNCHANGED data
      BY <1>1, <1>3 DEF Reap0, data
    <2>2. TypeOK'
      BY <1>1, <2>1, ControlTypes DEF IInv, TypeOK, Places, Returns
    <2>3. Phase'
      BY <1>1, <2>1 DEF IInv, Phase, data
    <2> QED
      BY <1>1, <2>1, <2>2, <2>3, ControlStep DEF CopyFree
  <1> QED
    BY <1>2, <1>3

\* v1 takes the child that has ended.
LEMMA Reap1Step ==
  ASSUME IInv, Reap1
  PROVE  IInv'
  <1>1. /\ pc = "reap" /\ version = 1
        /\ UNCHANGED <<version, child_pid, target_device, mount_point, copy_path, mounted,
                       disk, image, dev, due, stick, events, listening, changes, failed>>
    BY DEF Reap1, Is, globals, usb
  <1>2. CASE HasExited
    <2>1. /\ child_pid # 0 /\ proc' = [proc EXCEPT ![child_pid] = "free"]
          /\ pc' = "kill" /\ after' = "select"
      BY <1>2 DEF Reap1, HasExited, CallCleanup
    <2>2. proc' \in [Pids -> Own \cup {"free"}] /\ \A p \in Pids : proc'[p] \notin Own
      BY <2>1, ChildFreed
    <2>3. TypeOK'
      BY <1>1, <2>1, <2>2 DEF IInv, TypeOK
    <2>4. RunsOwnStick' /\ Copying'
      BY <2>1, <2>2, NothingRuns
    <2>5. LeftoversKnown'
      BY <1>1 DEF IInv, LeftoversKnown
    <2>6. Phase'
      BY <1>1, <2>1 DEF IInv, Phase, Returns
    <2>7. NoCopyYet'
      BY <2>1 DEF NoCopyYet, CopyFree
    <2> QED
      BY <2>3, <2>4, <2>5, <2>6, <2>7 DEF IInv
  <1>3. CASE ~HasExited
    <2>1. pc' = "select" /\ UNCHANGED after /\ UNCHANGED data
      BY <1>1, <1>3 DEF Reap1, data
    <2>2. TypeOK'
      BY <1>1, <2>1, ControlTypes DEF IInv, TypeOK, Places, Returns
    <2>3. Phase'
      BY <1>1, <2>1 DEF IInv, Phase, data
    <2> QED
      BY <1>1, <2>1, <2>2, <2>3, ControlStep DEF CopyFree
  <1> QED
    BY <1>2, <1>3

\* Only a mount that is gone is forgotten.
LEMMA CheckMountStep ==
  ASSUME IInv, CheckMount
  PROVE  IInv'
  <1>1. /\ pc = "check" /\ pc' = "select"
        /\ UNCHANGED <<version, child_pid, target_device, copy_path, mounted, disk, proc,
                       image>>
        /\ UNCHANGED <<dev, after, due, stick, events, listening, changes, failed>>
    BY DEF CheckMount, usb, children
  <1>2. \/ mount_point' = mount_point
        \/ mount_point' = "" /\ mount_point # "" /\ mounted[mount_point] = ""
    BY DEF CheckMount
  <1>3. TypeOK'
    BY <1>2, <1>1 DEF IInv, TypeOK
  <1>4. RunsOwnStick' /\ Copying'
    BY <1>2, <1>1 DEF IInv, RunsOwnStick, Running, Copying, WholeCopy
  <1>5. LeftoversKnown'
    BY <1>2, <1>1 DEF IInv, LeftoversKnown
  <1>6. Phase'
    BY <1>2, <1>1 DEF IInv, Phase
  <1>7. NoCopyYet'
    BY <1>2, <1>1 DEF IInv, NoCopyYet, CopyFree
  <1> QED
    BY <1>3, <1>4, <1>5, <1>6, <1>7 DEF IInv

\* The cleanup: the child first, then the mount of version 0 or the copy of
\* version 1.
LEMMA KillChildStep ==
  ASSUME IInv, KillChild
  PROVE  IInv'
  <1>1. /\ pc = "kill" /\ pc' = "tidy" /\ child_pid' = 0
        /\ UNCHANGED <<version, target_device, mount_point, copy_path, mounted, disk, image>>
        /\ UNCHANGED <<dev, after, due, stick, events, listening, changes, failed>>
    BY DEF KillChild, usb
  <1>2. proc' \in [Pids -> Own \cup {"free"}] /\ \A p \in Pids : proc'[p] \notin Own
    <2>1. child_pid # 0 => proc' = [proc EXCEPT ![child_pid] = "free"]
      BY DEF KillChild
    <2>2. child_pid = 0 => proc' = proc
      BY DEF KillChild
    <2> QED
      BY <2>1, <2>2, ChildFreed
  <1>3. TypeOK'
    BY <1>1, <1>2 DEF IInv, TypeOK
  <1>4. RunsOwnStick' /\ Copying'
    BY <1>1, <1>2, NothingRuns
  <1>5. LeftoversKnown'
    BY <1>1 DEF IInv, LeftoversKnown
  <1>6. Phase'
    BY <1>1 DEF IInv, Phase
  <1>7. NoCopyYet'
    BY <1>1 DEF NoCopyYet, CopyFree
  <1> QED
    BY <1>3, <1>4, <1>5, <1>6, <1>7 DEF IInv

\* cleanup() returns to where it was called.
LEMMA CleanupReturns ==
  ASSUME IInv, CleanupEnds, pc = "tidy"
  PROVE  /\ child_pid = 0 /\ child_pid' = 0 /\ target_device' = ""
         /\ pc' = after /\ after \in Returns /\ after' = ""
         /\ dev' \in {dev, ""} /\ (after = "mount" => dev' = dev)
         /\ UNCHANGED <<version, proc, image, failed>>
         /\ UNCHANGED <<due, stick, events, listening, changes>>
  BY DEF CleanupEnds, IInv, Phase, usb, children

\* umount.
LEMMA UnmountStep ==
  ASSUME IInv, Unmount
  PROVE  IInv'
  <1>1. /\ pc = "tidy" /\ version = 0 /\ CleanupEnds
        /\ mounted' = Unmounted /\ mount_point' = "" /\ UNCHANGED <<disk, copy_path>>
    BY DEF Unmount, Is
  <1>2. /\ child_pid = 0 /\ child_pid' = 0 /\ target_device' = ""
        /\ pc' = after /\ after \in Returns /\ after' = ""
        /\ dev' \in {dev, ""} /\ (after = "mount" => dev' = dev)
        /\ UNCHANGED <<version, proc, image, failed>>
        /\ UNCHANGED <<due, stick, events, listening, changes>>
    BY <1>1, CleanupReturns
  <1>3. /\ mounted' \in [Devices -> Content \cup {""}]
        /\ \A d \in Devices : mounted'[d] = ""
    BY <1>1 DEF Unmounted, IInv, TypeOK, LeftoversKnown
  <1>4. TypeOK'
    BY <1>1, <1>2, <1>3 DEF IInv, TypeOK, Returns
  <1>5. LeftoversKnown'
    BY <1>1, <1>2, <1>3 DEF LeftoversKnown
  <1>6. Phase'
    BY <1>1, <1>2 DEF IInv, Phase, Returns
  <1>7. NoCopyYet'
    <2>1. version = 0 /\ version' = version
      BY <1>1, <1>2, Zenon
    <2>2. version' # 1
      BY <2>1
    <2> QED
      BY <2>2 DEF NoCopyYet
  <1>8. pc' # "launch"
    BY <1>2 DEF Returns
  <1> QED
    BY <1>2, <1>4, <1>5, <1>6, <1>7, <1>8, ChildlessStep

\* The copy is removed.
LEMMA RemoveCopyStep ==
  ASSUME IInv, RemoveCopy
  PROVE  IInv'
  <1>1. /\ pc = "tidy" /\ version = 1 /\ CleanupEnds
        /\ disk' = Copied("") /\ copy_path' = "" /\ UNCHANGED <<mounted, mount_point>>
    BY DEF RemoveCopy, Is
  <1>2. /\ child_pid = 0 /\ child_pid' = 0 /\ target_device' = ""
        /\ pc' = after /\ after \in Returns /\ after' = ""
        /\ dev' \in {dev, ""} /\ (after = "mount" => dev' = dev)
        /\ UNCHANGED <<version, proc, image, failed>>
        /\ UNCHANGED <<due, stick, events, listening, changes>>
    BY <1>1, CleanupReturns
  <1>3. /\ disk' \in [Copies -> Programs \cup {"part", ""}]
        /\ \A c \in Copies : c # copy_path => disk'[c] = disk[c]
        /\ copy_path \in Copies => disk'[copy_path] = ""
    BY <1>1, CopyTypes
  <1>4. failed \/ \A c \in Copies : disk'[c] = ""
    <2>1. version = 1
      BY <1>1, Zenon
    <2>2. version # 0
      BY <2>1
    <2>3. failed \/ \A c \in Copies : disk[c] # "" => copy_path = c
      BY <2>2, Zenon DEF IInv, LeftoversKnown
    <2> QED
      BY <1>3, <2>3
  <1>5. TypeOK'
    BY <1>1, <1>2, <1>3 DEF IInv, TypeOK, Returns
  <1>6. LeftoversKnown'
    <2>1. version' = version /\ failed' = failed /\ version = 1
      BY <1>1, <1>2, Zenon
    <2>2. version' # 0
      BY <2>1
    <2> QED
      BY <1>4, <2>1, <2>2, Zenon DEF LeftoversKnown
  <1>7. Phase'
    <2>1. /\ version = 1 /\ version' = version /\ child_pid' = 0 /\ pc' = after
          /\ pc = "tidy" /\ after \in Returns
      BY <1>1, <1>2, Zenon
    <2>2. version' = version /\ child_pid' = 0 /\ pc' = after /\ after # "mount"
      BY <2>1 DEF IInv, Phase
    <2>3. version' # 0 /\ pc' \in {"scan", "reap", "select", "exited"}
      BY <2>1, <2>2 DEF Returns
    <2> QED
      BY <2>2, <2>3 DEF Phase
  <1>8. NoCopyYet'
    BY <1>2, <1>4 DEF NoCopyYet
  <1>9. pc' # "launch"
    BY <1>2 DEF Returns
  <1> QED
    BY <1>2, <1>5, <1>6, <1>7, <1>8, <1>9, ChildlessStep
-----------------------------------------------------------------------------
\* The types after a step of the child.
LEMMA ChildTypes ==
  ASSUME TypeOK,
         UNCHANGED <<version, child_pid, target_device, mount_point, copy_path>>,
         UNCHANGED <<dev, pc, after, due, stick, events, listening, changes, failed>>,
         mounted' \in [Devices -> Content \cup {""}],
         disk' \in [Copies -> Programs \cup {"part", ""}],
         proc' \in [Pids -> Own \cup {"free"}],
         image' \in [Pids -> Programs \cup {"part", ""}]
  PROVE  TypeOK'
  <1>1. /\ child_pid' \in Pids \cup {0} /\ target_device' \in Devices \cup {""}
        /\ mount_point' \in Devices \cup {""} /\ copy_path' \in Copies \cup {"directory", ""}
        /\ stick' \in [Devices -> Content \cup {""}]
    BY DEF TypeOK
  <1>2. /\ dev' \in Devices \cup {""} /\ due' \subseteq Devices
        /\ events' \in Seq(Event) /\ listening' \in BOOLEAN /\ changes' \in 0..MaxChanges
        /\ failed' \in BOOLEAN
    BY DEF TypeOK
  <1> QED
    BY <1>1, <1>2 DEF TypeOK

\* The child runs what was copied for it.
LEMMA ExecStep ==
  ASSUME IInv, NEW p \in Pids, Exec(p)
  PROVE  IInv'
  <1>1. /\ proc[p] = "starting" /\ copy_path \in Copies
        /\ proc' = [proc EXCEPT ![p] = "running"]
        /\ image' = [image EXCEPT ![p] = disk[copy_path]]
        /\ UNCHANGED <<version, child_pid, target_device, mount_point, copy_path, mounted, disk>>
        /\ UNCHANGED <<dev, pc, after, due, stick, events, listening, changes, failed>>
    BY DEF Exec, globals, control, usb
  <1>2. /\ p = child_pid /\ child_pid # 0 /\ target_device \in Devices /\ pc # "launch"
        /\ \A q \in Pids : proc[q] \in Own => q = p
    BY <1>1, OnlyChild DEF Own, Alive
  <1>3. /\ proc' \in [Pids -> Own \cup {"free"}] /\ proc'[p] = "running"
        /\ \A q \in Pids \ {p} : proc'[q] \notin Own
    BY <1>1, <1>2 DEF IInv, TypeOK, Own, Alive
  <1>4. /\ image' \in [Pids -> Programs \cup {"part", ""}]
        /\ image'[p] = IF version = 0 THEN mounted[target_device] ELSE copy_path
    BY <1>1 DEF IInv, TypeOK, Copying, WholeCopy, Phase
  <1>5. TypeOK'
    BY <1>1, <1>3, <1>4, ChildTypes DEF IInv, TypeOK
  <1>6. RunsOwnStick'
    BY <1>1, <1>2, <1>3, <1>4, Constants DEF RunsOwnStick, Running, Own, Alive
  <1>7. LeftoversKnown'
    BY <1>1 DEF IInv, LeftoversKnown
  <1>8. Phase'
    BY <1>1 DEF IInv, Phase
  <1>9. Copying'
    BY <1>1, <1>2, <1>3 DEF Copying, Own, Alive
  <1>10. NoCopyYet'
    BY <1>1, <1>2 DEF NoCopyYet
  <1> QED
    BY <1>5, <1>6, <1>7, <1>8, <1>9, <1>10 DEF IInv

\* Its end, or the failure to start it.
LEMMA ChildEndsStep ==
  ASSUME IInv, NEW p \in Pids, ExecFails(p) \/ ProgramExits(p)
  PROVE  IInv'
  <1>1. /\ proc[p] \in {"starting", "running"}
        /\ \E to \in {"exiting", "zombie"} : proc' = [proc EXCEPT ![p] = to]
        /\ UNCHANGED <<version, child_pid, target_device, mount_point, copy_path, mounted,
                       disk, image>>
        /\ UNCHANGED <<dev, pc, after, due, stick, events, listening, changes, failed>>
    BY DEF ExecFails, ProgramExits, globals, control, usb
  <1>2. /\ p = child_pid /\ child_pid # 0 /\ pc # "launch"
        /\ \A q \in Pids : proc[q] \in Own => q = p
    BY <1>1, OnlyChild DEF Own, Alive
  <1>3. /\ proc' \in [Pids -> Own \cup {"free"}] /\ proc'[p] \in {"exiting", "zombie"}
        /\ \A q \in Pids \ {p} : proc'[q] \notin Own
    BY <1>1, <1>2 DEF IInv, TypeOK, Own, Alive
  <1>4. TypeOK'
    BY <1>1, <1>3, ChildTypes DEF IInv, TypeOK
  <1>5. RunsOwnStick' /\ Copying'
    BY <1>1, <1>2, <1>3 DEF RunsOwnStick, Running, Copying, Own, Alive
  <1>6. LeftoversKnown'
    BY <1>1 DEF IInv, LeftoversKnown
  <1>7. Phase'
    BY <1>1 DEF IInv, Phase
  <1>8. NoCopyYet'
    BY <1>1, <1>2 DEF NoCopyYet
  <1> QED
    BY <1>4, <1>5, <1>6, <1>7, <1>8 DEF IInv

\* The atexit handler in a child that was not started tidies up by the globals
\* it has inherited.
LEMMA ChildExitHandlerStep ==
  ASSUME IInv, NEW p \in Pids, ChildExitHandler(p)
  PROVE  IInv'
  <1>1. /\ proc[p] = "exiting" /\ proc' = [proc EXCEPT ![p] = "zombie"]
        /\ \/ version = 0 /\ mounted' = Unmounted /\ UNCHANGED disk
           \/ version = 1 /\ disk' = Copied("") /\ UNCHANGED mounted
        /\ UNCHANGED <<version, child_pid, target_device, mount_point, copy_path, image>>
        /\ UNCHANGED <<dev, pc, after, due, stick, events, listening, changes, failed>>
    BY DEF ChildExitHandler, Is, globals, control, usb
  <1>2. /\ p = child_pid /\ child_pid # 0 /\ pc # "launch"
        /\ \A q \in Pids : proc[q] \in Own => q = p
    BY <1>1, OnlyChild DEF Own
  <1>3. /\ proc' \in [Pids -> Own \cup {"free"}] /\ proc'[p] = "zombie"
        /\ \A q \in Pids \ {p} : proc'[q] \notin Own
    BY <1>1, <1>2 DEF IInv, TypeOK, Own, Alive
  <1>4. /\ mounted' \in [Devices -> Content \cup {""}]
        /\ \A d \in Devices : mounted'[d] # "" => mounted[d] # ""
    BY <1>1 DEF Unmounted, IInv, TypeOK
  <1>5. /\ disk' \in [Copies -> Programs \cup {"part", ""}]
        /\ \A c \in Copies : disk'[c] # "" => disk[c] # ""
    <2>1. CASE disk' = disk
      BY <2>1 DEF IInv, TypeOK
    <2>2. CASE disk' = Copied("")
      BY <2>2 DEF Copied, IInv, TypeOK
    <2> QED
      BY <1>1, <2>1, <2>2
  <1>6. TypeOK'
    BY <1>1, <1>3, <1>4, <1>5, ChildTypes DEF IInv, TypeOK
  <1>7. RunsOwnStick' /\ Copying'
    BY <1>1, <1>2, <1>3 DEF RunsOwnStick, Running, Copying, Own, Alive
  <1>8. LeftoversKnown'
    BY <1>1, <1>4, <1>5 DEF IInv, LeftoversKnown
  <1>9. Phase'
    BY <1>1 DEF IInv, Phase
  <1>10. NoCopyYet'
    BY <1>1, <1>2 DEF NoCopyYet
  <1> QED
    BY <1>6, <1>7, <1>8, <1>9, <1>10 DEF IInv
-----------------------------------------------------------------------------
\* A stick comes or goes.
LEMMA PlugStep ==
  ASSUME IInv, NEW d \in Devices, (\E c \in Content : Plug(d, c)) \/ Pull(d)
  PROVE  IInv'
  <1>1. /\ UNCHANGED data /\ UNCHANGED <<dev, pc, after, listening, failed>>
        /\ due' \in {due, due \cup {d}}
        /\ \E a \in {"add", "remove"} : Announce(a, d)
        /\ \E c \in Content \cup {""} : stick' = [stick EXCEPT ![d] = c]
    BY DEF Plug, Pull, globals, control, children, data
  <1>2. events' \in Seq(Event)
    <2>1. PICK a \in {"add", "remove"} : Announce(a, d)
      BY <1>1
    <2>2. [action |-> a, device |-> d] \in Event
      BY DEF Event
    <2>3. events \in Seq(Event)
      BY DEF IInv, TypeOK
    <2> QED
      BY <2>1, <2>2, <2>3, AppendProperties DEF Announce
  <1>3. stick' \in [Devices -> Content \cup {""}] /\ due' \subseteq Devices
    BY <1>1 DEF IInv, TypeOK
  <1>4. changes' \in 0..MaxChanges
    <2>1. changes \in 0..MaxChanges
      BY DEF IInv, TypeOK
    <2>2. changes < MaxChanges /\ changes' = changes + 1
      BY DEF Plug, Pull
    <2> QED
      BY <2>1, <2>2, MaxChangesAssumption
  <1>5. TypeOK'
    <2>1. /\ child_pid' \in Pids \cup {0} /\ target_device' \in Devices \cup {""}
          /\ mount_point' \in Devices \cup {""} /\ copy_path' \in Copies \cup {"directory", ""}
          /\ dev' \in Devices \cup {""} /\ listening' \in BOOLEAN /\ failed' \in BOOLEAN
      BY <1>1 DEF IInv, TypeOK, data
    <2>2. /\ mounted' \in [Devices -> Content \cup {""}]
          /\ disk' \in [Copies -> Programs \cup {"part", ""}]
          /\ proc' \in [Pids -> Own \cup {"free"}]
          /\ image' \in [Pids -> Programs \cup {"part", ""}]
      BY <1>1 DEF IInv, TypeOK, data
    <2>3. version' = version /\ pc' = pc /\ after' = after
      BY <1>1 DEF data
    <2> QED
      BY <1>2, <1>3, <1>4, <2>1, <2>2, <2>3 DEF IInv, TypeOK
  <1>6. Phase'
    BY <1>1 DEF IInv, Phase, data
  <1> QED
    BY <1>1, <1>5, <1>6, ControlStep

\* The desktop mounts sticks for version 1, which has names of its own.
LEMMA AutomountStep ==
  ASSUME IInv, NEW d \in Devices, Automount(d)
  PROVE  IInv'
  <1>1. /\ version = 1 /\ mounted' = [mounted EXCEPT ![d] = IF @ = "" THEN stick[d] ELSE ""]
        /\ UNCHANGED <<version, child_pid, target_device, mount_point, copy_path, disk, proc,
                       image>>
        /\ UNCHANGED <<dev, pc, after, due, stick, events, listening, changes, failed>>
    BY DEF Automount, Is, globals, control, usb, children
  <1>2. /\ version = 1
        /\ UNCHANGED <<version, child_pid, target_device, mount_point, copy_path, disk, proc,
                       image>>
        /\ UNCHANGED <<dev, pc, after, due, stick, events, listening, changes, failed>>
    BY <1>1, Zenon
  <1>3. mounted' \in [Devices -> Content \cup {""}]
    BY <1>1 DEF IInv, TypeOK
  <1>4. TypeOK'
    BY <1>1, <1>3, ChildTypes DEF IInv, TypeOK
  <1>5. version' # 0 /\ version # 0
    BY <1>2
  <1>6. RunsOwnStick'
    BY <1>2, <1>5, Zenon DEF IInv, RunsOwnStick, Running
  <1>7. LeftoversKnown'
    BY <1>2, <1>5, Zenon DEF IInv, LeftoversKnown
  <1>8. Phase'
    BY <1>2 DEF IInv, Phase
  <1>9. Copying'
    BY <1>2, <1>5, Zenon DEF IInv, Copying, WholeCopy
  <1>10. NoCopyYet'
    BY <1>2 DEF IInv, NoCopyYet
  <1> QED
    BY <1>4, <1>6, <1>7, <1>8, <1>9, <1>10 DEF IInv
-----------------------------------------------------------------------------
\* The invariant of the initial states.
LEMMA InitIInv == Init => IInv
  <1> SUFFICES ASSUME Init PROVE IInv
    OBVIOUS
  <1>1. TypeOK
    <2>1. events = <<>> /\ changes = 0
      BY Zenon DEF Init
    <2>2. events \in Seq(Event) /\ changes \in 0..MaxChanges
      BY <2>1, MaxChangesAssumption
    <2>3. proc \in [Pids -> Own \cup {"free"}] /\ copy_path \in Copies \cup {"directory", ""}
      BY DEF Init, Copies
    <2> QED
      BY <2>2, <2>3 DEF Init, TypeOK
  <1>2. \A p \in Pids : proc[p] \notin Own
    BY DEF Init, Own, Alive
  <1>3. RunsOwnStick /\ Copying
    BY <1>2 DEF Init, RunsOwnStick, Running, Copying, Own, Alive
  <1>4. LeftoversKnown /\ NoCopyYet
    BY DEF Init, LeftoversKnown, NoCopyYet
  <1>5. Phase
    BY DEF Init, Phase
  <1> QED
    BY <1>1, <1>3, <1>4, <1>5 DEF IInv

\* Every step keeps the invariant.
LEMMA NextIInv == IInv /\ [Next]_vars => IInv'
  <1> SUFFICES ASSUME IInv, [Next]_vars PROVE IInv'
    OBVIOUS
  <1>1. CASE Process
    BY <1>1, ScanDeviceStep, ScanEndsStep, MonitorReadyStep, NoMonitorStep, MountStep,
       Search0Step, Search1Step, CopyStep, LaunchStep, TimeoutStep, ReceiveEventStep,
       Reap0Step, Reap1Step, CheckMountStep, KillChildStep, UnmountStep, RemoveCopyStep
    DEF Process
  <1>2. CASE Environment
    BY <1>2, ExecStep, ChildEndsStep, ChildExitHandlerStep, PlugStep, AutomountStep,
       InterruptStep DEF Environment, Child
  <1>3. CASE UNCHANGED vars
    <2>1. /\ UNCHANGED data
          /\ UNCHANGED <<dev, pc, after, due, stick, events, listening, changes, failed>>
      BY <1>3 DEF vars, globals, control, usb, children, data
    <2>2. TypeOK'
      BY <2>1, ControlTypes DEF IInv, TypeOK, Places, Returns
    <2>3. Phase'
      BY <2>1 DEF IInv, Phase, data
    <2> QED
      BY <2>1, <2>2, <2>3, ControlStep
  <1> QED
    BY <1>1, <1>2, <1>3 DEF Next, Exited

(***************************************************************************)
(* The invariant in every reachable state, and what it says of the parts a *)
(* run checks.                                                             *)
(***************************************************************************)
THEOREM EarlierInductive == Spec => []IInv
  BY InitIInv, NextIInv, PTL DEF Spec

\* Every variable of BootUpEarlier keeps its type.
THEOREM EarlierTypeCorrect == Spec => []TypeOK
  <1>1. IInv => TypeOK
    BY DEF IInv
  <1> QED
    BY <1>1, EarlierInductive, PTL

\* Version 0 and version 1 run one program at most, from a whole copy of what its
\* own stick held (test_app_start_v0.c, test_app_start_v1.c).
THEOREM EarlierRunsOwnStick == Spec => []RunsOwnStick
  <1>1. IInv => RunsOwnStick
    BY DEF IInv
  <1> QED
    BY <1>1, EarlierInductive, PTL

\* Version 0 knows of every mount it has made, version 1 of its copy unless a
\* detection has failed.
THEOREM EarlierLeftoversKnown == Spec => []LeftoversKnown
  <1>1. IInv => LeftoversKnown
    BY DEF IInv
  <1> QED
    BY <1>1, EarlierInductive, PTL
=============================================================================
