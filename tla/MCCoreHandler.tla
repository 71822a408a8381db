---------------------------- MODULE MCCoreHandler ---------------------------
(* A small instance of CoreHandler for TLC: the events of a behaviour are one of *)
(* a few mixes.                                                                   *)
EXTENDS CoreHandler, TLC

MCBase == [enable_dev_mode |-> FALSE, enable_data_collection |-> TRUE]
MCAssigned ==
  <<[debugging |-> "off", logging |-> "low", monitoring |-> "normal"],
    [debugging |-> "high", logging |-> "low", monitoring |-> "off"]>>
MCHeadroom == [bytes |-> 2, inodes |-> 1]
MCSpaces == {[bytes |-> 5, inodes |-> 2], [bytes |-> 5, inodes |-> 0]}

Nothing == [ctl |-> 0, kill |-> 0, fail |-> 0, assign |-> 0, power |-> 0, crash |-> 0,
            time |-> 0, clock |-> 0, net |-> 0]
Mixes ==
  {[Nothing EXCEPT !.ctl = 3, !.kill = 1],
   [Nothing EXCEPT !.ctl = 2, !.power = 1, !.crash = 1],
   [Nothing EXCEPT !.net = 1, !.assign = 1, !.kill = 1, !.fail = 1, !.ctl = 1],
   [Nothing EXCEPT !.net = 1, !.assign = 1, !.power = 2, !.fail = 2],
   [Nothing EXCEPT !.crash = 3, !.time = 3],
   [Nothing EXCEPT !.crash = 3, !.time = 2, !.clock = 1],
   [Nothing EXCEPT !.crash = 2, !.time = 1, !.kill = 1, !.fail = 1],
   [Nothing EXCEPT !.crash = 2, !.time = 2, !.power = 1],
   [Nothing EXCEPT !.crash = 2, !.ctl = 1, !.time = 1]}
=============================================================================
