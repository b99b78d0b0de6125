---------------------------- MODULE MCSequencer ----------------------------
(* Instances of Sequencer for TLC.                                          *)
EXTENDS Sequencer

(* The notify (0) and the request task (1) at the top priority, the network *)
(* task (2) below them.                                                     *)
NestedPosts == {<<0, 0>>, <<1, 0>>, <<2, 1>>}

(* The network task waits the way the Zigbee commands and ZbStartupWait do, *)
(* the notify task issues a command, and the request task waits under a     *)
(* narrowed mask, as the interface allows.                                  *)
NestedWaits == {<<2, AckEvt>>, <<2, BypassEvt>>, <<2, "startup">>,
                <<0, AckEvt>>, <<1, "startup">>}

(* Only the network task, and only before it sends a command.               *)
BypassWaits == {<<2, BypassEvt>>}
=============================================================================
