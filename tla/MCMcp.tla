---- MODULE MCMcp ----
(* Server a has OAuth and sessions; b is another entry of the token store.     *)
(* Any two of: two turns that call a, and a login to b.                        *)
EXTENDS Mcp
CONSTANTS a, b, c1, c2, l1
MCConfigured == <<a>>
MCBothConfigured == <<a, b>>
MCTarget(c) == {a}
MCLoginTarget(l) == b
====
