----------------------------- MODULE UsbDevices -----------------------------
(***************************************************************************)
(* The USB bus and what the board object keeps about it (Storage.cpp): the *)
(* list that lsusbGetVidPidInfo() refreshes, which the command thread and  *)
(* the type-C tests use at the same time without a lock, and the sizes of  *)
(* the disks that scan_usb_with_libusb() finds.  A vendor and product      *)
(* number is one id.  The lists of WCH devices that the scan also fills    *)
(* are read by nobody and left out.                                        *)
(***************************************************************************)
EXTENDS Integers, FiniteSets

CONSTANTS Thread,       \* the threads that run tests
          Device, Disk, \* USB devices; those with a mass storage interface
          IdOf,         \* the id of a device
          SizesOf,      \* the size files below a disk: its own, its partitions'
          NoId,         \* an entry that has been zeroed
          ListSize,     \* entries of lsusbFacilityUsbInfoList (30)
          DiskListSize  \* entries of usbDiskSizeList (10)

ASSUME DeviceAssumption ==
  /\ IsFiniteSet(Device) /\ Disk \subseteq Device
  /\ \A d \in Device : IdOf[d] # NoId
  /\ \A d \in Disk : SizesOf[d] \subseteq Nat \ {0}
\* The lists have room for all of them; the code does not look.  A storage test
\* also reads the size after the last.
ASSUME SizeAssumption ==
  /\ ListSize \in Nat \ {0} /\ Cardinality(Device) < ListSize
  /\ DiskListSize \in Nat \ {0} /\ Cardinality(Disk) + 1 < DiskListSize

VARIABLES
  bus,                 \* the devices that are plugged in
  list, count,         \* lsusbFacilityUsbInfoList, lsusbFacilityUsbCount
  reading,             \* where a thread is in lsusbGetVidPidInfo()
  lines, loaded,       \* lines of lsusb it has not read yet, count as it loaded it
  diskCount, diskSize, \* usbDiskCount, usbDiskSizeList
  unscanned,           \* devices libusb listed that the scan has not reached
  printed, attached, most \* history: what lsusb printed to a thread last, the
                          \* disks at the last scan, most disks of a scan before

lsusbVars == <<list, count, reading, lines, loaded, printed>>
diskVars == <<diskCount, diskSize, unscanned, attached, most>>

Id == {IdOf[d] : d \in Device}
Size == {0} \cup UNION {SizesOf[d] : d \in Disk}
ReadingStates == {"no", "clear", "popen", "lines", "store", "write", "read"}

\* Refreshes that race may count beyond the list: the code does not look.
DevicesTypeOK ==
  /\ bus \subseteq Device
  /\ list \in [0 .. ListSize - 1 -> Id \cup {NoId}] /\ count \in Nat
  /\ reading \in [Thread -> ReadingStates]
  /\ lines \in [Thread -> SUBSET Device] /\ printed \in [Thread -> SUBSET Device]
  /\ loaded \in [Thread -> Nat]
  /\ diskCount \in 0 .. DiskListSize - 1 /\ most \in 0 .. DiskListSize - 1
  /\ diskSize \in [0 .. DiskListSize - 1 -> Size]
  /\ unscanned \subseteq Disk /\ attached \subseteq Disk

\* The bus is whatever is plugged in when TestApp starts.
InitDevices ==
  /\ list = [i \in 0 .. ListSize - 1 |-> NoId] /\ count = 0
  /\ reading = [t \in Thread |-> "no"]
  /\ lines = [t \in Thread |-> {}] /\ printed = [t \in Thread |-> {}]
  /\ loaded = [t \in Thread |-> 0]
  /\ diskCount = 0 /\ diskSize = [i \in 0 .. DiskListSize - 1 |-> 0]
  /\ unscanned = {} /\ attached = {} /\ most = 0
-----------------------------------------------------------------------------
\* lsusbGetVidPidInfo(), one access to the shared list at a time.
At(t, from, to) == reading[t] = from /\ reading' = [reading EXCEPT ![t] = to]

\* Mutant: the count of the last refresh stays.
KeepCount(t) == At(t, "no", "clear") /\ UNCHANGED <<list, count, lines, loaded, printed>>
ClearCount(t) ==
  /\ At(t, "no", "clear")
  /\ count' = 0
  /\ UNCHANGED <<list, lines, loaded, printed>>

\* Mutant: its entries stay.
KeepEntries(t) ==
  At(t, "clear", "popen") /\ UNCHANGED <<list, count, lines, loaded, printed>>
ClearEntries(t) ==
  /\ At(t, "clear", "popen")
  /\ list' = [i \in DOMAIN list |-> NoId]
  /\ UNCHANGED <<count, lines, loaded, printed>>

\* lsusb prints the bus; popen() may fail.
Popen(t) ==
  /\ \/ At(t, "popen", "lines") /\ lines' = [lines EXCEPT ![t] = bus]
     \/ At(t, "popen", "read") /\ UNCHANGED lines
  /\ printed' = [printed EXCEPT ![t] = lines'[t]]
  /\ UNCHANGED <<list, count, loaded>>

\* list[++count] = info: load, store, and the write at the count read again.
LoadCount(t) ==
  /\ lines[t] # {}
  /\ At(t, "lines", "store")
  /\ loaded' = [loaded EXCEPT ![t] = count]
  /\ UNCHANGED <<list, count, lines, printed>>
StoreCount(t) ==
  /\ At(t, "store", "write")
  /\ count' = loaded[t] + 1 /\ loaded' = [loaded EXCEPT ![t] = 0]
  /\ UNCHANGED <<list, lines, printed>>
WriteEntry(t) ==
  /\ At(t, "write", "lines")
  /\ \E d \in lines[t] :
       /\ list' = [list EXCEPT ![count] = IdOf[d]]
       /\ lines' = [lines EXCEPT ![t] = @ \ {d}]
  /\ UNCHANGED <<count, loaded, printed>>

EndOfLines(t) ==
  /\ lines[t] = {}
  /\ At(t, "lines", "read")
  /\ UNCHANGED <<list, count, lines, loaded, printed>>

RefreshStep(t) ==
  \/ ClearCount(t) \/ ClearEntries(t) \/ Popen(t)
  \/ LoadCount(t) \/ StoreCount(t) \/ WriteEntry(t) \/ EndOfLines(t)

\* Whether a loop over the list meets an id.  While another thread refreshes
\* the list the loop may or may not meet it: a data race.
Racing(t) == \E u \in Thread \ {t} : reading[u] \notin {"no", "read"}
Meets(t, id) ==
  IF Racing(t) THEN BOOLEAN ELSE { \E i \in DOMAIN list : list[i] = id }
-----------------------------------------------------------------------------
\* The devices with a mass storage interface.
MassStorage == bus \cap Disk

\* scan_usb_with_libusb(), by the command thread only.  libusb may fail, or
\* fail to describe a device.
BeginScan ==
  /\ diskCount' = 0
  /\ unscanned' \in SUBSET MassStorage
  /\ attached' = MassStorage
  /\ most' = IF most < diskCount THEN diskCount ELSE most
  /\ UNCHANGED diskSize

\* search_directory(): the first size file below e, in any order.
AddDisk(e) ==
  /\ \E size \in SizesOf[e] : diskSize' = [diskSize EXCEPT ![diskCount + 1] = size]
  /\ diskCount' = diskCount + 1

\* The first device in sysfs with the id of d, which may be gone by now.
SameId(d) == {e \in bus \cap Disk : IdOf[e] = IdOf[d]}
ScanDisk ==
  \E d \in unscanned :
    /\ unscanned' = unscanned \ {d}
    /\ \/ \E e \in SameId(d) : AddDisk(e)
       \/ /\ SameId(d) = {} \/ \E e \in SameId(d) : SizesOf[e] = {}
          /\ UNCHANGED <<diskCount, diskSize>>
    /\ UNCHANGED <<attached, most>>
=============================================================================
