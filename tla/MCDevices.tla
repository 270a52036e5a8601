------------------------------- MODULE MCDevices -------------------------------
EXTENDS Devices

MCLists == {"poll", "save", "gone"}
MCFrames ==
  [poll |-> {[port |-> 0, to |-> {5}, recv |-> 1], [port |-> 1, to |-> {5}, recv |-> 2]},
   save |-> {[port |-> 0, to |-> {0}, recv |-> 2], [port |-> 0, to |-> {5}, recv |-> 0]},
   gone |-> {[port |-> 0, to |-> {1, 3}, recv |-> 1]}]
MCWireTime == [poll |-> 2, save |-> 5, gone |-> 1]
MCAttached == {<<0, 5>>, <<0, 0>>, <<0, 3>>}
===============================================================================
