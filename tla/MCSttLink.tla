---- MODULE MCSttLink ----
(* Channels of one command and one event, two links, and a second session that *)
(* may change the rate.                                                        *)
EXTENDS SttLink
====
