----------------------------- MODULE MCUsbTests -----------------------------
(***************************************************************************)
(* Small instances of UsbTests: a device to be found on each side of the   *)
(* type-C plug and a disk, two tests at the same time at most.             *)
(***************************************************************************)
EXTENDS UsbTests

MCThread == 0 .. 3
MCIdOf == [d \in Device |-> d]
MCSizesOf == [d \in Disk |-> {2}]
MCItems == << [side |-> "positive", usb |-> "3.0", id |-> "hub"],
              [side |-> "positive", usb |-> "other", id |-> "stick"],
              [side |-> "negative", usb |-> "2.0", id |-> "hub"] >>
Item(name, enable, min, max) == [name |-> name, enable |-> enable, min |-> min, max |-> max]
MCStore == << Item({"usb", "usb_tf"}, TRUE, 1, 3), Item({"usb"}, TRUE, 1, 3),
              Item({"usb"}, TRUE, 1, 3), Item({"usb"}, FALSE, 1, 3),
              [name |-> {"facility", "usb", "2.0"}, enable |-> TRUE, id |-> "hub"],
              Item({"ddr"}, TRUE, 4, 8) >>
MCMeasure == {4}

Unplugged == {[port |-> -1, bus |-> {}], [port |-> -1, bus |-> {"stick"}]}
OnHub == [port : {0, 1}, bus : {{"hub"}}]
NoHub == [port : {0, 1}, bus : {{}}]
NewScenario(commands, start, others, n) ==
  [commands |-> commands, start |-> start, layouts |-> start \cup others, moves |-> n]

TypeCScenario == { NewScenario(<<"typec">>, Unplugged, OnHub \cup NoHub, 3) }
StorageScenario ==
  { NewScenario(<<"storage", "storage">>, Unplugged,
                {[port |-> -1, bus |-> {"hub", "stick"}]}, 2) }
RetestScenario ==
  { NewScenario(<<"typec", "stop", "typec">>, {[port |-> 1, bus |-> {}]}, {}, 0) }
BothScenario ==
  { NewScenario(<<"typec", "storage">>, {[port |-> 1, bus |-> {"hub"}]}, OnHub, 1) }
MCScenario == TypeCScenario \cup StorageScenario \cup RetestScenario \cup BothScenario
=============================================================================
