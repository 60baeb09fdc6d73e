--------------------------- MODULE BootUpEarlier ---------------------------
(***************************************************************************)
(* The start programs before the deployed one: test_app_start_v0.c, which  *)
(* mounts a stick itself and copies one fixed name, and                    *)
(* test_app_start_v1.c, which uses what the desktop has mounted.  Actions, *)
(* abstractions and names are those of BootUp: "" is the empty string of   *)
(* the code and 0 the child_pid of -1.                                     *)
(***************************************************************************)
EXTENDS Integers, Sequences, FiniteSets

CONSTANTS Devices,    \* names is_sd_device() accepts
          Programs,   \* programs a stick may hold under the name looked for
          Pids,       \* process ids
          MaxChanges  \* bound: how often a stick is plugged or pulled

ASSUME DevicesAssumption == Devices \subseteq STRING /\ "" \notin Devices
ASSUME ProgramsAssumption ==
  Programs \subseteq STRING /\ Programs \cap {"", "directory", "empty", "part"} = {}
ASSUME PidsAssumption == Pids \subseteq Nat \ {0}
ASSUME MaxChangesAssumption == MaxChanges \in Nat

VARIABLES
  version,   \* which of the two programs is installed: 0 or 1
  \* the process: globals, the parameter of detect_and_run_program, control
  child_pid, target_device, mount_point, copy_path, dev, pc, after, due,
  \* the machine
  stick,     \* what is plugged in as a device: a kind of content, "" for none
  mounted,   \* what is mounted of a device, "" for nothing
  disk,      \* the copies: which program, or a part of one, "" for no file
  proc,      \* the state of every process id
  image,     \* what a process that runs was started from
  events, listening, changes, \* as in BootUp
  failed     \* history: a step of a detection failed

globals == <<child_pid, target_device, mount_point, copy_path>>
control == <<dev, pc, after, due>>
usb == <<stick, events, listening, changes>>
children == <<proc, image>>
vars == <<version, globals, control, usb, mounted, disk, children, failed>>

Content == Programs \cup {"directory", "empty"}
Fixed == "copy" \* /tmp/SIGNWAY_CMBOARD_TESTAPP, the copy_path of version 0
Copies == Programs \cup {Fixed}
Event == [action : {"add", "remove"}, device : Devices]

Alive == {"starting", "running"}
Own == Alive \cup {"exiting", "zombie"}

Init ==
  /\ version \in {0, 1}
  /\ child_pid = 0 /\ target_device = "" /\ mount_point = ""
  /\ copy_path = IF version = 0 THEN Fixed ELSE ""
  /\ dev = "" /\ pc = "scan" /\ after = ""
  /\ stick \in [Devices -> Content \cup {""}]
  /\ due = {d \in Devices : stick[d] # ""}
  /\ mounted = [d \in Devices |-> ""] /\ disk = [c \in Copies |-> ""]
  /\ proc = [p \in Pids |-> "free"] /\ image = [p \in Pids |-> ""]
  /\ events = <<>> /\ listening = FALSE /\ changes = 0
  /\ failed = FALSE
-----------------------------------------------------------------------------
Is(v) == version = v

CallCleanup(next) == pc' = "kill" /\ after' = next

Caller == IF listening THEN "reap" ELSE "scan"
ReturnFromDetect == pc' = Caller /\ dev' = ""
Detect0(d) == IF child_pid # 0 THEN ReturnFromDetect ELSE pc' = "mount" /\ dev' = d
Detect1(d) == IF child_pid # 0 THEN ReturnFromDetect ELSE pc' = "search" /\ dev' = d
Detect(d) == (Is(0) /\ Detect0(d)) \/ (Is(1) /\ Detect1(d))

\* A detection that fails: goto cleanup, or a plain return.
Abandon0 == Is(0) /\ CallCleanup(Caller) /\ failed' = TRUE /\ UNCHANGED dev
Abandon1 == Is(1) /\ ReturnFromDetect /\ failed' = TRUE /\ UNCHANGED after

ScanDevice(d) ==
  /\ pc = "scan" /\ child_pid = 0 /\ d \in due
  /\ due' = due \ {d}
  /\ Detect(d)
  /\ UNCHANGED <<version, globals, after, usb, mounted, disk, children, failed>>

ScanEnds ==
  /\ pc = "scan" /\ (child_pid # 0 \/ due = {})
  /\ pc' = "monitor" /\ due' = {}
  /\ UNCHANGED <<version, globals, dev, after, usb, mounted, disk, children, failed>>

MonitorReady ==
  /\ pc = "monitor"
  /\ listening' = TRUE /\ pc' = "select"
  /\ \E n \in 0..Len(events) : events' = SubSeq(events, n + 1, Len(events))
  /\ UNCHANGED <<version, globals, dev, after, due, stick, changes, mounted, disk,
                 children, failed>>

\* No udev, or in version 0 no monitor: main() returns, and atexit() cleans up.
MonitorFails ==
  /\ pc = "monitor"
  /\ CallCleanup("exited")
  /\ UNCHANGED <<version, globals, dev, due, usb, mounted, disk, children, failed>>

\* Version 1 goes on without a monitor: FD_SET of an error number is undefined,
\* it ends the process or leaves one that hears of no stick.
MonitorMissing ==
  /\ Is(1) /\ pc = "monitor"
  /\ pc' \in {"select", "exited"}
  /\ UNCHANGED <<version, globals, dev, after, due, usb, mounted, disk, children,
                 failed>>
-----------------------------------------------------------------------------
\* Without a look at what is still mounted.
MountAnew ==
  /\ pc = "mount" /\ stick[dev] # ""
  /\ mounted' = [mounted EXCEPT ![dev] = stick[dev]]
  /\ mount_point' = dev /\ pc' = "search"
  /\ UNCHANGED <<version, child_pid, target_device, copy_path, dev, after, due, usb,
                 disk, children, failed>>

\* get_mount_point() reads the options of a mount with %u and never finds one.
FoundMounted == FALSE

\* Version 0 mounts a stick itself, an earlier mount undone first.
Mount ==
  /\ pc = "mount" /\ ~FoundMounted
  /\ IF mount_point # ""
     THEN CallCleanup("mount") /\ UNCHANGED <<globals, dev, mounted, failed>>
     ELSE \/ /\ stick[dev] # ""
             /\ mounted' = [mounted EXCEPT ![dev] = stick[dev]]
             /\ mount_point' = dev /\ pc' = "search"
             /\ UNCHANGED <<child_pid, target_device, copy_path, dev, after, failed>>
          \/ /\ mounted' \in {mounted, [mounted EXCEPT ![dev] = ""]}
             /\ failed' = TRUE /\ ReturnFromDetect
             /\ UNCHANGED <<globals, after>>
  /\ UNCHANGED <<version, due, usb, disk, children>>

\* access(), which a directory passes too.
Search0 ==
  /\ Is(0) /\ pc = "search"
  /\ \/ mounted[dev] # "empty" /\ pc' = "copy" /\ UNCHANGED <<dev, after, failed>>
     \/ Abandon0
  /\ UNCHANGED <<version, globals, due, usb, mounted, disk, children>>

\* Without the test of what was found.
SearchAny ==
  /\ Is(1) /\ pc = "search" /\ pc' = "copy"
  /\ copy_path' = mounted[dev]
  /\ UNCHANGED <<version, child_pid, target_device, mount_point, dev, after, due, usb,
                 mounted, disk, children, failed>>

\* The mount of the desktop, and the first name in it with the prefix.
Search1 ==
  /\ Is(1) /\ pc = "search"
  /\ \/ /\ mounted[dev] \notin {"", "empty"}
        /\ copy_path' = mounted[dev] /\ pc' = "copy"
        /\ UNCHANGED <<dev, after, failed>>
     \/ Abandon1 /\ UNCHANGED copy_path
  /\ UNCHANGED <<version, child_pid, target_device, mount_point, due, usb, mounted,
                 disk, children>>

\* cp replaces the file, or fails and may leave a part of it.
Copied(what) == [c \in Copies |-> IF c = copy_path THEN what ELSE disk[c]]
CopyOK == mounted[dev] \in Programs /\ disk' = Copied(mounted[dev])
CopyFails == disk' \in {disk, Copied("part")}

CopyIgnored ==
  /\ Is(0) /\ pc = "copy" /\ pc' = "launch"
  /\ CopyOK \/ CopyFails
  /\ UNCHANGED <<version, globals, dev, after, due, usb, mounted, children, failed>>
Copy0 ==
  /\ Is(0) /\ pc = "copy"
  /\ \/ CopyOK /\ pc' = "launch" /\ UNCHANGED <<dev, after, failed>>
     \/ CopyFails /\ Abandon0
  /\ UNCHANGED <<version, globals, due, usb, mounted, children>>

\* By the name found: another stick may have come under the same device name.
Copy1 ==
  /\ Is(1) /\ pc = "copy"
  /\ \/ /\ CopyOK /\ mounted[dev] = copy_path
        /\ pc' = "launch" /\ UNCHANGED <<dev, after, failed>>
     \/ CopyFails /\ Abandon1
  /\ UNCHANGED <<version, globals, due, usb, mounted, children>>

\* chmod and fork.
Fork ==
  /\ \E p \in Pids :
       /\ proc[p] = "free"
       /\ proc' = [proc EXCEPT ![p] = "starting"]
       /\ child_pid' = p /\ target_device' = dev
  /\ ReturnFromDetect
  /\ UNCHANGED <<after, failed>>
Launch0 ==
  /\ Is(0) /\ pc = "launch"
  /\ \/ Fork
     \/ Abandon0 /\ UNCHANGED <<proc, child_pid, target_device>>
  /\ UNCHANGED <<version, mount_point, copy_path, due, usb, mounted, disk, image>>
Launch1 ==
  /\ Is(1) /\ pc = "launch"
  /\ \/ Fork
     \/ Abandon1 /\ UNCHANGED <<proc, child_pid, target_device>>
  /\ UNCHANGED <<version, mount_point, copy_path, due, usb, mounted, disk, image>>
-----------------------------------------------------------------------------
Timeout ==
  /\ pc = "select"
  /\ pc' = "reap"
  /\ UNCHANGED <<version, globals, dev, after, due, usb, mounted, disk, children,
                 failed>>

IsOther(d) == target_device # d
IsTarget(d) == target_device = d

\* A removed target is a SIGUSR1 to oneself: version 1 has a handler for it, the
\* one of version 0 is commented out and the signal ends the process.
Removed0 == Is(0) /\ pc' = "exited" /\ UNCHANGED after
Removed1 == Is(1) /\ CallCleanup("reap")

\* handle_device(); version 1 waits two seconds for the desktop to mount.
HandleDevice(e) ==
  \/ /\ e.action = "add" /\ child_pid = 0
     /\ Detect(e.device)
     /\ UNCHANGED after
  \/ /\ e.action = "remove" /\ IsTarget(e.device)
     /\ Removed0 \/ Removed1
     /\ UNCHANGED dev
  \/ /\ IF e.action = "add" THEN child_pid # 0 ELSE ~IsTarget(e.device)
     /\ pc' = "reap"
     /\ UNCHANGED <<dev, after>>

ReceiveEvent ==
  /\ pc = "select" /\ listening /\ events # <<>>
  /\ HandleDevice(Head(events))
  /\ events' = Tail(events)
  /\ UNCHANGED <<version, globals, due, stick, listening, changes, mounted, disk,
                 children, failed>>

\* waitpid(WNOHANG): version 0 forgets the child and keeps the mount, version 1
\* cleans up with child_pid still set.
HasExited == child_pid # 0 /\ proc[child_pid] = "zombie"
Reap0 ==
  /\ Is(0) /\ pc = "reap" /\ pc' = "check"
  /\ IF HasExited
     THEN /\ proc' = [proc EXCEPT ![child_pid] = "free"]
          /\ child_pid' = 0 /\ target_device' = ""
     ELSE UNCHANGED <<proc, child_pid, target_device>>
  /\ UNCHANGED <<version, mount_point, copy_path, dev, after, due, usb, mounted, disk,
                 image, failed>>
Reap1 ==
  /\ Is(1) /\ pc = "reap"
  /\ IF HasExited
     THEN /\ proc' = [proc EXCEPT ![child_pid] = "free"]
          /\ CallCleanup("select")
     ELSE pc' = "select" /\ UNCHANGED <<proc, after>>
  /\ UNCHANGED <<version, globals, dev, due, usb, mounted, disk, image, failed>>

\* mountpoint -q: a mount that is gone is only forgotten.
CheckMount ==
  /\ pc = "check" /\ pc' = "select"
  /\ mount_point' = IF mount_point # "" /\ child_pid = 0 /\ mounted[mount_point] = ""
                    THEN "" ELSE mount_point
  /\ UNCHANGED <<version, child_pid, target_device, copy_path, dev, after, due, usb,
                 mounted, disk, children, failed>>
-----------------------------------------------------------------------------
\* cleanup_resources(): kill and waitpid, then umount or remove.
KillChild ==
  /\ pc = "kill" /\ pc' = "tidy"
  /\ IF child_pid # 0 THEN proc' = [proc EXCEPT ![child_pid] = "free"]
     ELSE UNCHANGED proc
  /\ child_pid' = 0
  /\ UNCHANGED <<version, target_device, mount_point, copy_path, dev, after, due, usb,
                 mounted, disk, image, failed>>

Unmounted == [d \in Devices |-> IF d = mount_point THEN "" ELSE mounted[d]]

CleanupEnds ==
  /\ target_device' = ""
  /\ pc' = after /\ after' = ""
  /\ dev' = IF after = "mount" THEN dev ELSE ""
  /\ UNCHANGED <<version, child_pid, due, usb, children, failed>>
Unmount ==
  /\ Is(0) /\ pc = "tidy"
  /\ mounted' = Unmounted /\ mount_point' = ""
  /\ CleanupEnds
  /\ UNCHANGED <<disk, copy_path>>
RemoveCopy ==
  /\ Is(1) /\ pc = "tidy"
  /\ disk' = Copied("") /\ copy_path' = ""
  /\ CleanupEnds
  /\ UNCHANGED <<mounted, mount_point>>

\* SIGINT or SIGTERM: the default action ends the process without atexit().
Interrupt ==
  /\ pc # "exited" /\ pc' = "exited"
  /\ UNCHANGED <<version, globals, dev, after, due, usb, mounted, disk, children,
                 failed>>
-----------------------------------------------------------------------------
\* The forked child: execl, or its failure and the atexit handler in the child.
Exec(p) ==
  /\ proc[p] = "starting" /\ copy_path \in Copies /\ disk[copy_path] # ""
  /\ proc' = [proc EXCEPT ![p] = "running"]
  /\ image' = [image EXCEPT ![p] = disk[copy_path]]
  /\ UNCHANGED <<version, globals, control, usb, mounted, disk, failed>>

ExecFails(p) ==
  /\ proc[p] = "starting"
  /\ proc' = [proc EXCEPT ![p] = "exiting"]
  /\ UNCHANGED <<version, globals, control, usb, mounted, disk, image, failed>>

ChildExitHandler(p) ==
  /\ proc[p] = "exiting"
  /\ proc' = [proc EXCEPT ![p] = "zombie"]
  /\ \/ Is(0) /\ mounted' = Unmounted /\ UNCHANGED disk
     \/ Is(1) /\ disk' = Copied("") /\ UNCHANGED mounted
  /\ UNCHANGED <<version, globals, control, usb, image, failed>>

ProgramExits(p) ==
  /\ proc[p] = "running"
  /\ proc' = [proc EXCEPT ![p] = "zombie"]
  /\ UNCHANGED <<version, globals, control, usb, mounted, disk, image, failed>>

Announce(action, d) ==
  events' = Append(events, [action |-> action, device |-> d])

Plug(d, c) ==
  /\ changes < MaxChanges /\ stick[d] = ""
  /\ stick' = [stick EXCEPT ![d] = c]
  /\ Announce("add", d)
  /\ \/ UNCHANGED due
     \/ pc = "scan" /\ d \notin due /\ due' = due \cup {d}
  /\ changes' = changes + 1
  /\ UNCHANGED <<version, globals, dev, pc, after, listening, mounted, disk, children,
                 failed>>

Pull(d) ==
  /\ changes < MaxChanges /\ stick[d] # ""
  /\ stick' = [stick EXCEPT ![d] = ""]
  /\ Announce("remove", d)
  /\ changes' = changes + 1
  /\ UNCHANGED <<version, globals, control, listening, mounted, disk, children, failed>>

\* The desktop mounts a stick under /media/ubuntu, at some time after it was
\* plugged in, and unmounts it after it was pulled.
Automount(d) ==
  /\ Is(1) /\ mounted[d] # stick[d]
  /\ mounted' = [mounted EXCEPT ![d] = IF @ = "" THEN stick[d] ELSE ""]
  /\ UNCHANGED <<version, globals, control, usb, disk, children, failed>>
-----------------------------------------------------------------------------
Process ==
  \/ \E d \in Devices : ScanDevice(d)
  \/ ScanEnds \/ MonitorReady \/ MonitorFails \/ MonitorMissing
  \/ Mount \/ Search0 \/ Search1 \/ Copy0 \/ Copy1 \/ Launch0 \/ Launch1
  \/ Timeout \/ ReceiveEvent \/ Reap0 \/ Reap1 \/ CheckMount
  \/ KillChild \/ Unmount \/ RemoveCopy

Child(p) == Exec(p) \/ ExecFails(p) \/ ChildExitHandler(p) \/ ProgramExits(p)

Environment ==
  \/ \E p \in Pids : Child(p)
  \/ \E d \in Devices : Pull(d) \/ Automount(d) \/ \E c \in Content : Plug(d, c)
  \/ Interrupt

Exited == pc = "exited" /\ UNCHANGED vars

Next == Process \/ Environment \/ Exited

\* As for the deployed program: it is scheduled, and udevd delivers.
Spec == Init /\ [][Next]_vars /\ WF_vars(Process) /\ SF_vars(ReceiveEvent)
-----------------------------------------------------------------------------
TypeOK ==
  /\ version \in {0, 1}
  /\ child_pid \in Pids \cup {0}
  /\ target_device \in Devices \cup {""} /\ mount_point \in Devices \cup {""}
  /\ copy_path \in Copies \cup {"directory", ""}
  /\ dev \in Devices \cup {""} /\ due \subseteq Devices
  /\ pc \in {"scan", "monitor", "mount", "search", "copy", "launch", "select",
             "reap", "check", "kill", "tidy", "exited"}
  /\ after \in {"", "scan", "reap", "select", "mount", "exited"}
  /\ stick \in [Devices -> Content \cup {""}]
  /\ mounted \in [Devices -> Content \cup {""}]
  /\ disk \in [Copies -> Programs \cup {"part", ""}]
  /\ proc \in [Pids -> Own \cup {"free"}]
  /\ image \in [Pids -> Programs \cup {"part", ""}]
  /\ events \in Seq(Event) /\ listening \in BOOLEAN /\ changes \in 0..MaxChanges
  /\ failed \in BOOLEAN

(***************************************************************************)
(* Whatever fails or is pulled, there is one program at most and the       *)
(* globals name it; it runs from a whole copy of what its own stick held.  *)
(* Version 0 never removes its copy: after a copy that failed, the program *)
(* of an earlier stick, still there under the one name, is not run.        *)
(***************************************************************************)
Running(p) == proc[p] = "running"

RunsOwnStick ==
  /\ {p \in Pids : proc[p] \in Own} \subseteq {child_pid}
  /\ \A p \in Pids : Running(p) =>
       /\ target_device # ""
       /\ image[p] = IF version = 0 THEN mounted[target_device] ELSE copy_path

(***************************************************************************)
(* What is left for good: version 0 knows of every mount it has made, also *)
(* of the one it keeps for a program that ended; version 1 knows of every  *)
(* copy unless a detection has failed, after which the next one overwrites *)
(* copy_path.  A process of either version that a signal ends keeps all.   *)
(***************************************************************************)
LeftoversKnown ==
  IF version = 0
  THEN \A d \in Devices : mounted[d] # "" => mount_point = d
  ELSE failed \/ \A c \in Copies : disk[c] # "" => copy_path = c

(***************************************************************************)
(* A queued remove event of the running program's stick ends the program,  *)
(* or, in version 0, whose comments leave the cleaning up to that event,   *)
(* the start program alone.                                                *)
(***************************************************************************)
Pending(action, d) ==
  [action |-> action, device |-> d] \in {events[i] : i \in DOMAIN events}

RemovalEndsOne ==
  \A d \in Devices, p \in Pids :
    (listening /\ target_device = d /\ Running(p) /\ Pending("remove", d))
      ~> (~Running(p) \/ pc = "exited")
=============================================================================
