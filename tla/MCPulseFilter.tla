---------------------------- MODULE MCPulseFilter ----------------------------
(* PulseFilter on small instances. *)
EXTENDS PulseFilter

CONSTANTS t1, t2, t3, t4

\* The default microphone, a device by name, and a source picked by the
\* stream's own properties.
Plainly == [bad |-> FALSE, direct |-> FALSE, index |-> FALSE, name |-> "none",
            routes |-> FALSE]
MCRequests == {Plainly, [Plainly EXCEPT !.name = "device"], [Plainly EXCEPT !.routes = TRUE]}

\* The tags of streams, of AUTH, of other commands that may look like a
\* stream's reply, and of the rest.
Tags(record, playback, auth, plain, rest) ==
  [cmd \in Commands |->
     CASE cmd = "record" -> record [] cmd = "playback" -> playback
       [] cmd = "auth" -> auth [] cmd = "plain" -> plain [] OTHER -> rest]

\* One recording of any kind with the end of an earlier one, and properties
\* that route; two recordings and playback; and every command with either of
\* two tags.
MCPlan ==
  {[tags |-> [Tags({t1}, {}, {t2}, {}, {}) EXCEPT !["delete"] = {t3}, !["routes"] = {t3}],
    requests |-> MCRequests \ {Plainly}, packets |-> 4],
   [tags |-> Tags({t1, t3}, {t3}, {t2}, {t1, t4}, {t4}), requests |-> {Plainly}, packets |-> 3],
   [tags |-> [cmd \in Commands |-> {t1, t2}], requests |-> {Plainly}, packets |-> 3]}

\* Playback, and another command with its tag.
MCOneTag ==
  {[tags |-> [Tags({}, {t1}, {}, {t1}, {}) EXCEPT !["own"] = {t1}],
    requests |-> {}, packets |-> 3]}
=============================================================================
