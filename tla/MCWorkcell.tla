------------------------------ MODULE MCWorkcell ------------------------------
(***************************************************************************)
(* TLC instance of Workcell: two channels, up to two endpoints, pages and  *)
(* robots, and the scenarios that are checked together.                    *)
(***************************************************************************)
EXTENDS Workcell

CONSTANTS e1, e2, s1, s2, s3, p1, p2, r1, r2

TwoChannels == 1..2
ThreeRuns == 1..3
ThreeGraphs == 1..3

(* One activation and nothing else.                                        *)
Calm == [fault |-> 0, notification |-> 0, stop |-> 0, activation |-> 1, socket |-> 0,
         refresh |-> 0, page |-> 0, run |-> 0, cancel |-> 0, dispose |-> 0, loss |-> 0]

Base == [endpoints |-> {e1}, browsers |-> {p1}, revisions |-> {1}, stamps |-> {1},
         late |-> FALSE, time |-> 0, jobPage |-> Null, robots |-> {}, programs |-> {}, budget |-> Calm]

(* The server cannot be reached or cleaned up, and nobody looks.           *)
Cleanup == [Base EXCEPT !.browsers = {}, !.budget.fault = 2, !.budget.stop = 2,
                        !.budget.notification = 1]

(* A page watches a server that fails once, and is stopped once.           *)
Outage == [Base EXCEPT !.budget.fault = 1, !.budget.notification = 2]
Restart == [Base EXCEPT !.budget.fault = 1, !.budget.stop = 1, !.late = TRUE]

(* The page's connection breaks, and the page starts over.                 *)
Broken == [Base EXCEPT !.budget.socket = 1, !.budget.refresh = 1, !.budget.notification = 1]

(* A second activation, of the same revision or of another.                *)
Renewal == [Base EXCEPT !.budget.activation = 2, !.budget.stop = 1,
                        !.budget.notification = 2, !.late = TRUE]
Replacement == [Base EXCEPT !.budget.activation = 2, !.budget.stop = 1,
                            !.revisions = {1, 2}, !.late = TRUE]

(* A server whose clock goes back, or is ahead of the Gateway's: to a      *)
(* socket that keeps up and one that does not, over a loss, and over a     *)
(* second activation.                                                      *)
Clocks == [Base EXCEPT !.budget.notification = 3, !.stamps = 1..3, !.late = TRUE]
ClockOutage == [Outage EXCEPT !.stamps = 1..3, !.late = TRUE]
ClockRenewal == [Renewal EXCEPT !.stamps = 1..3, !.browsers = {}]

(* Two pages, one of them slower; two endpoints on one connection.         *)
TwoPages == [Base EXCEPT !.browsers = {p1, p2}, !.budget.notification = 1, !.late = TRUE]
TwoEndpoints == [Base EXCEPT !.endpoints = {e1, e2}, !.budget.notification = 1,
                             !.budget.socket = 1, !.late = TRUE]

(* A page goes over to another graph, or to none, and perhaps back;        *)
(* transitions overlap, and the page may be left at any time.              *)
Switch == [Base EXCEPT !.revisions = {1, 2}, !.late = TRUE, !.budget.page = 1]
Return == [Base EXCEPT !.late = TRUE, !.budget.page = 1, !.budget.notification = 1]
Overlap == [Base EXCEPT !.endpoints = {}, !.budget.activation = 0, !.budget.page = 3,
                        !.budget.dispose = 1]

Do(kind, ticks) == [kind |-> kind, ticks |-> ticks]

(* A job writes and waits for the answer, while a session is lost or the   *)
(* adapter is replaced.                                                    *)
Jobs == [Base EXCEPT !.late = TRUE, !.jobPage = p1, !.robots = {r1}, !.budget.run = 1]

Handshake == [Jobs EXCEPT !.programs = {<<Do("set", 0), Do("wait", 1)>>}, !.time = 1,
                          !.budget.notification = 1]
Lost == [Jobs EXCEPT !.programs = {<<Do("set", 0), Do("set", 0)>>}, !.browsers = {},
                     !.budget.fault = 1, !.budget.loss = 1]
Handover == [Jobs EXCEPT !.programs = {<<Do("set", 0), Do("set", 0)>>}, !.browsers = {},
                         !.budget.stop = 1, !.budget.activation = 2, !.budget.loss = 1,
                         !.budget.cancel = 1]

(* No endpoint: everything a page can do to its jobs.  Two robots, one of  *)
(* which is cancelled; transitions under two robots, and under one.        *)
Playback == [Jobs EXCEPT !.endpoints = {}, !.browsers = {}, !.robots = {r1, r2}, !.time = 2,
                         !.programs = {<<Do("move", 0), Do("attach", 0), Do("move", 1)>>,
                                       <<Do("delay", 1), Do("wait", 1)>>},
                         !.budget.run = 2, !.budget.cancel = 1, !.budget.activation = 0]
Interval == [Playback EXCEPT !.budget.cancel = 0, !.budget.page = 1]
Replay == [Interval EXCEPT !.robots = {r1}, !.budget.dispose = 1]
Interlude == [Replay EXCEPT !.budget.run = 1, !.budget.page = 2]

(* A run with a write on its way is replaced by one that writes too, or    *)
(* its graph is.                                                           *)
Rerun == [Jobs EXCEPT !.programs = {<<Do("set", 0)>>}, !.browsers = {}, !.budget.run = 2,
                      !.budget.loss = 1, !.budget.cancel = 1, !.budget.dispose = 1]
Regraph == [Rerun EXCEPT !.budget.dispose = 0, !.budget.page = 1]

AllScenarios ==
    {Cleanup, Outage, Restart, Broken, Renewal, Replacement,
     Clocks, ClockOutage, ClockRenewal, TwoPages, TwoEndpoints,
     Switch, Return, Overlap, Handshake, Lost, Handover, Playback, Interval, Replay,
     Interlude, Rerun, Regraph}
=============================================================================
