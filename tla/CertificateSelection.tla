------------------------- MODULE CertificateSelection -------------------------
(***************************************************************************)
(* What the certificate service promises to the rest of the system: the    *)
(* preview site has no certificate at first and exactly one ever after,    *)
(* and the selected one is a certificate the load balancer can be given.   *)
(*                                                                         *)
(*   selected  the certificate of the site, None before the first          *)
(*   live      certificates that exist as Compute resources                *)
(***************************************************************************)
CONSTANTS Cert, None

VARIABLES selected, live

selectionVars == <<selected, live>>

Init == selected = None /\ live \in SUBSET Cert

Upload(c) == live' = live \cup {c} /\ UNCHANGED selected

Select(c) == c \in live /\ selected' = c /\ UNCHANGED live

Next == \E c \in Cert : Upload(c) \/ Select(c)

Spec == Init /\ [][Next]_selectionVars
=============================================================================
