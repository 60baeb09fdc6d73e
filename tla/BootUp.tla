------------------------------- MODULE BootUp -------------------------------
(***************************************************************************)
(* TestAppBootUp/test_app_start_v2.c: the program started at boot that     *)
(* looks for a USB stick, copies the test program on it to /tmp, runs it   *)
(* and cleans up when the stick is pulled.  One action per system call     *)
(* whose outcome or timing matters; sticks, udevd, the started program and *)
(* unrelated processes move between any two of them.  "" is the empty      *)
(* string of the code and 0 the child_pid of -1.                           *)
(***************************************************************************)
EXTENDS Integers, Sequences, FiniteSets

CONSTANTS Devices,    \* names is_sd_device() accepts
          Programs,   \* names of programs that start with the prefix
          Pids,       \* process ids
          MaxChanges  \* bound: how often a stick is plugged or pulled

ASSUME DevicesAssumption == Devices \subseteq STRING /\ "" \notin Devices
ASSUME ProgramsAssumption ==
  Programs \subseteq STRING /\ Programs \cap {"", "directory", "empty"} = {}
ASSUME PidsAssumption == Pids \subseteq Nat \ {0}
ASSUME MaxChangesAssumption == MaxChanges \in Nat

VARIABLES
  \* the process: globals, the parameter of detect_and_run_program, control
  child_pid, target_device, mount_point, copy_path, dev, pc, after, due,
  \* the machine
  stick,     \* what is plugged in as a device: a kind of content, "" for none
  mounted,   \* what is mounted at /mnt/[device], "" for nothing
  tmp,       \* the files of that prefix in /tmp
  proc,      \* the state of every process id
  events,    \* the block events not yet received, oldest first
  listening, \* whether the udev monitor is enabled
  changes,   \* how often a stick was plugged or pulled
  \* history
  failed     \* a step of a detection failed although its stick was good

globals == <<child_pid, target_device, mount_point, copy_path>>
control == <<dev, pc, after, due>>
usb == <<stick, events, listening, changes>>
history == <<failed>>
vars == <<globals, control, usb, mounted, tmp, proc, history>>

\* A stick holds a program of the prefix, only a directory of the prefix, or
\* neither.
Content == Programs \cup {"directory", "empty"}
Event == [action : {"add", "remove"}, device : Devices]

\* A child that still exists: forked and not yet in execl, running the
\* program, in its exit handlers after a failed execl, exited and not reaped.
Alive == {"starting", "running"}
Own == Alive \cup {"exiting", "zombie"}
ProcState == Own \cup {"free", "other"}

Init ==
  /\ child_pid = 0 /\ target_device = "" /\ mount_point = "" /\ copy_path = ""
  /\ dev = "" /\ pc = "scan" /\ after = ""
  /\ stick \in [Devices -> Content \cup {""}]
  /\ due = {d \in Devices : stick[d] # ""}
  /\ mounted = [d \in Devices |-> ""] /\ tmp = {}
  /\ proc = [p \in Pids |-> "free"]
  /\ events = <<>> /\ listening = FALSE /\ changes = 0
  /\ failed = FALSE
-----------------------------------------------------------------------------
\* cleanup_resources() as three steps; it goes on at next.
CallCleanup(next) == pc' = "kill" /\ after' = next

\* detect_and_run_program() returns to the scan or to the event loop.
Caller == IF listening THEN "reap" ELSE "scan"
ReturnFromDetect == pc' = Caller /\ dev' = ""
Detect(d) ==
  IF child_pid # 0 THEN ReturnFromDetect ELSE pc' = "mount" /\ dev' = d

Failure == failed' = (failed \/ stick[dev] \in Programs)

\* readdir() over /dev: names seen at opendir, and those that came in time.
ScanDevice(d) ==
  /\ pc = "scan" /\ child_pid = 0 /\ d \in due
  /\ due' = due \ {d}
  /\ Detect(d)
  /\ UNCHANGED <<globals, after, usb, mounted, tmp, proc, history>>

ScanEnds ==
  /\ pc = "scan" /\ (child_pid # 0 \/ due = {})
  /\ pc' = "monitor" /\ due' = {}
  /\ UNCHANGED <<globals, dev, after, usb, mounted, tmp, proc, history>>

\* Events udevd has broadcast before the monitor is enabled are lost.
MonitorReady ==
  /\ pc = "monitor"
  /\ listening' = TRUE /\ pc' = "select"
  /\ \E n \in 0..Len(events) : events' = SubSeq(events, n + 1, Len(events))
  /\ UNCHANGED <<globals, dev, after, due, stick, changes, mounted, tmp, proc, history>>

\* Returning from main() runs the handler registered with atexit().
MonitorFails ==
  /\ pc = "monitor"
  /\ CallCleanup("exited")
  /\ UNCHANGED <<globals, dev, due, usb, mounted, tmp, proc, history>>

\* get_mount_point() reads the fourth field of /proc/mounts, the options, with
\* %u: sscanf never returns 4 and the stick always counts as not mounted.
Mount ==
  /\ pc = "mount"
  /\ IF mount_point # ""
     THEN /\ CallCleanup("mount")
          /\ UNCHANGED <<globals, dev, mounted, failed>>
     ELSE \/ /\ stick[dev] # ""
             /\ mounted' = [mounted EXCEPT ![dev] = stick[dev]]
             /\ mount_point' = dev
             /\ pc' = "search"
             /\ UNCHANGED <<child_pid, target_device, copy_path, dev, after, failed>>
          \/ /\ mounted' = [mounted EXCEPT ![dev] = ""]
             /\ Failure /\ ReturnFromDetect
             /\ UNCHANGED <<globals, after>>
  /\ UNCHANGED <<due, usb, tmp, proc>>

\* The prefix match: found_program_path is left set by a directory too.
Search ==
  /\ pc = "search"
  /\ \/ /\ mounted[dev] # "empty"
        /\ copy_path' = mounted[dev]
        /\ pc' = "copy"
        /\ UNCHANGED <<after, failed>>
     \/ /\ CallCleanup(Caller)
        /\ Failure
        /\ UNCHANGED copy_path
  /\ UNCHANGED <<child_pid, target_device, mount_point, dev, due, usb, mounted,
                 tmp, proc>>

\* What cp copies: with -r it would copy a directory too.
CopiesAll == TRUE
Copies == mounted[dev] \in Programs

\* A failed copy may leave a part of the file.
Copy ==
  /\ pc = "copy"
  /\ \/ /\ Copies
        /\ tmp' = tmp \cup {copy_path}
        /\ pc' = "launch"
        /\ UNCHANGED <<after, failed>>
     \/ /\ tmp' \in {tmp, tmp \cup ({copy_path} \cap Programs)}
        /\ CallCleanup(Caller)
        /\ Failure
  /\ UNCHANGED <<globals, dev, due, usb, mounted, proc>>

\* chmod and fork; a parent that did not record the device would not know whose
\* removal ends the program.
LaunchWithoutTarget ==
  /\ pc = "launch"
  /\ \E p \in Pids :
       /\ proc[p] = "free"
       /\ proc' = [proc EXCEPT ![p] = "starting"]
       /\ child_pid' = p /\ UNCHANGED target_device
  /\ ReturnFromDetect
  /\ UNCHANGED <<mount_point, copy_path, after, due, usb, mounted, tmp, history>>

Launch ==
  /\ pc = "launch"
  /\ \E p \in Pids :
       /\ proc[p] = "free"
       /\ proc' = [proc EXCEPT ![p] = "starting"]
       /\ child_pid' = p /\ target_device' = dev
  /\ ReturnFromDetect
  /\ UNCHANGED <<mount_point, copy_path, after, due, usb, mounted, tmp, history>>

\* A return in place of the goto would leave the stick mounted.
LaunchFailsReturns ==
  /\ pc = "launch"
  /\ tmp' = tmp \ {copy_path}
  /\ ReturnFromDetect
  /\ Failure
  /\ UNCHANGED <<globals, after, due, usb, mounted, proc>>

LaunchFails ==
  /\ pc = "launch"
  /\ tmp' = tmp \ {copy_path}
  /\ CallCleanup(Caller)
  /\ Failure
  /\ UNCHANGED <<globals, dev, due, usb, mounted, proc>>
-----------------------------------------------------------------------------
Timeout ==
  /\ pc = "select"
  /\ pc' = "reap"
  /\ UNCHANGED <<globals, dev, after, due, usb, mounted, tmp, proc, history>>

\* One event is received in each turn of the loop.
DropAllEvents == <<>>
LaterEvents == Tail(events)

\* The removed device is the one whose program runs; comparing with the
\* parameter of the last detection would not do.
IsDetected(d) == dev = d
IsTarget(d) == target_device = d

\* handle_device(); kill(getpid(), SIGUSR1) has run its handler on return.
ReceiveEvent ==
  /\ pc = "select" /\ events # <<>>
  /\ events' = LaterEvents
  /\ LET e == Head(events)
     IN  \/ /\ e.action = "add" /\ child_pid = 0
            /\ Detect(e.device)
            /\ UNCHANGED after
         \/ /\ e.action = "remove" /\ IsTarget(e.device)
            /\ CallCleanup("reap")
            /\ UNCHANGED dev
         \/ /\ IF e.action = "add" THEN child_pid # 0
               ELSE ~IsTarget(e.device)
            /\ pc' = "reap"
            /\ UNCHANGED <<dev, after>>
  /\ UNCHANGED <<globals, due, stick, listening, changes, mounted, tmp, proc, history>>

\* waitpid(WNOHANG) reaps the child and frees its pid; cleanup_resources()
\* runs after it with child_pid still set.
Reap ==
  /\ pc = "reap"
  /\ \/ /\ child_pid # 0 /\ proc[child_pid] = "zombie"
        /\ proc' = [proc EXCEPT ![child_pid] = "free"]
        /\ CallCleanup("check")
     \/ /\ child_pid # 0 => proc[child_pid] # "zombie"
        /\ pc' = "check"
        /\ UNCHANGED <<proc, after>>
  /\ UNCHANGED <<globals, dev, due, usb, mounted, tmp, history>>

\* mountpoint -q, only with a mount point and no child.
CheckMount ==
  /\ pc = "check"
  /\ IF mount_point # "" /\ child_pid = 0 /\ mounted[mount_point] = ""
     THEN CallCleanup("select")
     ELSE pc' = "select" /\ UNCHANGED after
  /\ UNCHANGED <<globals, dev, due, usb, mounted, tmp, proc, history>>
-----------------------------------------------------------------------------
\* kill and waitpid: a child of ours is gone after them, whatever it was doing;
\* a pid that now belongs to another process is killed all the same.
KillChild ==
  /\ pc = "kill"
  /\ IF child_pid # 0 THEN proc' = [proc EXCEPT ![child_pid] = "free"]
     ELSE UNCHANGED proc
  /\ child_pid' = 0
  /\ pc' = "remove"
  /\ UNCHANGED <<target_device, mount_point, copy_path, dev, after, due, usb,
                 mounted, tmp, failed>>

RemoveCopy ==
  /\ pc = "remove"
  /\ tmp' = tmp \ {copy_path} /\ copy_path' = ""
  /\ pc' = "umount"
  /\ UNCHANGED <<child_pid, target_device, mount_point, dev, after, due, usb,
                 mounted, proc, history>>

\* The mounts that cleanup_resources leaves: umount of a dead device succeeds.
Unmounted == [d \in Devices |-> IF d = mount_point THEN "" ELSE mounted[d]]

Unmount ==
  /\ pc = "umount"
  /\ mounted' = Unmounted
  /\ mount_point' = "" /\ target_device' = ""
  /\ pc' = after /\ after' = ""
  /\ dev' = IF after = "mount" THEN dev ELSE ""
  /\ UNCHANGED <<child_pid, copy_path, due, usb, tmp, proc, history>>

\* SIGINT or SIGTERM: the default action ends the process without atexit().
Interrupt ==
  /\ pc # "exited"
  /\ pc' = "exited"
  /\ UNCHANGED <<globals, dev, after, due, usb, mounted, tmp, proc, history>>
-----------------------------------------------------------------------------
\* The forked child: execl, or its failure, after which exit() runs the same
\* cleanup_resources in the child, on the child's copy of the globals, where
\* child_pid is still -1.
Exec(p) ==
  /\ proc[p] = "starting" /\ copy_path \in tmp
  /\ proc' = [proc EXCEPT ![p] = "running"]
  /\ UNCHANGED <<globals, control, usb, mounted, tmp, history>>

ExecFails(p) ==
  /\ proc[p] = "starting"
  /\ proc' = [proc EXCEPT ![p] = "exiting"]
  /\ tmp' = tmp \ {copy_path}
  /\ UNCHANGED <<globals, control, usb, mounted, history>>

ChildExitHandler(p) ==
  /\ proc[p] = "exiting"
  /\ proc' = [proc EXCEPT ![p] = "zombie"]
  /\ mounted' = Unmounted
  /\ UNCHANGED <<globals, control, usb, tmp, history>>

ProgramExits(p) ==
  /\ proc[p] = "running"
  /\ proc' = [proc EXCEPT ![p] = "zombie"]
  /\ UNCHANGED <<globals, control, usb, mounted, tmp, history>>

\* Unrelated processes come and go and reuse pids.
OtherProcess(p) ==
  /\ \/ proc[p] = "free"  /\ proc' = [proc EXCEPT ![p] = "other"]
     \/ proc[p] = "other" /\ proc' = [proc EXCEPT ![p] = "free"]
  /\ UNCHANGED <<globals, control, usb, mounted, tmp, history>>

Announce(action, d) ==
  events' = Append(events, [action |-> action, device |-> d])

\* A stick plugged in while /dev is being read may or may not be listed.
Plug(d, c) ==
  /\ changes < MaxChanges /\ stick[d] = ""
  /\ stick' = [stick EXCEPT ![d] = c]
  /\ Announce("add", d)
  /\ \/ UNCHANGED due
     \/ pc = "scan" /\ d \notin due /\ due' = due \cup {d}
  /\ changes' = changes + 1
  /\ UNCHANGED <<globals, dev, pc, after, listening, mounted, tmp, proc, history>>

Pull(d) ==
  /\ changes < MaxChanges /\ stick[d] # ""
  /\ stick' = [stick EXCEPT ![d] = ""]
  /\ Announce("remove", d)
  /\ changes' = changes + 1
  /\ UNCHANGED <<globals, control, listening, mounted, tmp, proc, history>>
-----------------------------------------------------------------------------
Cleanup == KillChild \/ RemoveCopy \/ Unmount

\* The steps of the process itself.
Process ==
  \/ \E d \in Devices : ScanDevice(d)
  \/ ScanEnds \/ MonitorReady \/ MonitorFails
  \/ Mount \/ Search \/ Copy \/ Launch \/ LaunchFails
  \/ Timeout \/ ReceiveEvent \/ Reap \/ CheckMount
  \/ Cleanup

Child(p) == Exec(p) \/ ExecFails(p) \/ ChildExitHandler(p) \/ ProgramExits(p)

Environment ==
  \/ \E p \in Pids : Child(p) \/ OtherProcess(p)
  \/ \E d \in Devices : Pull(d) \/ \E c \in Content : Plug(d, c)
  \/ Interrupt

Exited == pc = "exited" /\ UNCHANGED vars

Next == Process \/ Environment \/ Exited

\* The process is scheduled, udevd delivers what it has, and select() then
\* reports the socket readable.  Nothing is assumed of sticks and programs.
Spec == Init /\ [][Next]_vars /\ WF_vars(Process) /\ SF_vars(ReceiveEvent)
-----------------------------------------------------------------------------
PC == {"scan", "monitor", "mount", "search", "copy", "launch", "select",
       "reap", "check", "kill", "remove", "umount", "exited"}

TypeOK ==
  /\ child_pid \in Pids \cup {0}
  /\ target_device \in Devices \cup {""} /\ mount_point \in Devices \cup {""}
  /\ copy_path \in Programs \cup {"directory", ""}
  /\ dev \in Devices \cup {""} /\ pc \in PC /\ due \subseteq Devices
  /\ after \in {"", "scan", "reap", "check", "select", "mount", "exited"}
  /\ stick \in [Devices -> Content \cup {""}]
  /\ mounted \in [Devices -> Content \cup {""}]
  /\ tmp \subseteq Programs /\ proc \in [Pids -> ProcState]
  /\ events \in Seq(Event) /\ listening \in BOOLEAN /\ changes \in 0..MaxChanges
  /\ failed \in BOOLEAN

OwnPids == {p \in Pids : proc[p] \in Own}

(***************************************************************************)
(* Whatever fails or is pulled at whatever moment, the globals account for *)
(* everything the process has made: its one child, its one mount, its one  *)
(* copy in /tmp.  cleanup_resources can only undo what they name.          *)
(***************************************************************************)
NothingForgotten ==
  /\ OwnPids \subseteq {child_pid}
  /\ \A d \in Devices : mounted[d] # "" => mount_point = d
  /\ tmp \subseteq {copy_path}

(***************************************************************************)
(* While a program runs, target_device and mount_point name one device, so *)
(* that the remove event of that stick, and of no other, ends the program; *)
(* the program was started from the copy that is still in /tmp.            *)
(***************************************************************************)
RunsFromTarget ==
  \A p \in Pids :
    proc[p] \in Alive =>
      /\ child_pid = p
      /\ target_device # "" /\ mount_point = target_device
      /\ copy_path \in tmp

(***************************************************************************)
(* There is one program at most, and the globals tell all about it: what   *)
(* it needs to be ended by its own stick and to leave nothing behind.      *)
(***************************************************************************)
ProgramAccounted == NothingForgotten /\ RunsFromTarget

(***************************************************************************)
(* Between two events without a child nothing is left of earlier programs: *)
(* no mount, no copy, no process, no target.  The next stick meets the     *)
(* same state as the first.  The branch of main() that unmounts an invalid *)
(* mount point, and the one of mount_device that cleans up an old one, are *)
(* never taken.                                                            *)
(***************************************************************************)
Made == OwnPids # {} \/ tmp # {} \/ \E d \in Devices : mounted[d] # ""

IdleIsClean ==
  /\ pc \in {"scan", "monitor", "mount", "select", "check"} /\ child_pid = 0 =>
       ~Made /\ globals = <<0, "", "", "">>
  /\ pc \in {"scan", "monitor", "select"} /\ child_pid # 0 =>
       target_device # "" /\ mount_point # ""

(***************************************************************************)
(* Once the monitor is on, a queued remove event of the running program's  *)
(* stick ends the program and every trace of it.                           *)
(***************************************************************************)
Pending(action, d) ==
  [action |-> action, device |-> d] \in {events[i] : i \in DOMAIN events}

RemovalEndsProgram ==
  \A d \in Devices :
    (listening /\ target_device = d /\ Pending("remove", d))
      ~> (~Made \/ pc = "exited")

(***************************************************************************)
(* A stick with a program whose add event is queued while nothing runs,    *)
(* and which stays the only stick, gets its program started and not ended  *)
(* by an older remove event, unless a mount, copy or fork fails.           *)
(***************************************************************************)
OnlyStick(d) ==
  stick[d] \in Programs /\ \A e \in Devices \ {d} : stick[e] = ""

InsertionStartsProgram ==
  \A d \in Devices :
    (pc = "select" /\ child_pid = 0 /\ OnlyStick(d) /\ Pending("add", d))
      ~> \/ target_device = d /\ ~Pending("remove", d)
         \/ failed \/ ~OnlyStick(d) \/ pc = "exited"
=============================================================================
