-------------------------------- MODULE Web ---------------------------------
(***************************************************************************)
(* What the HTTP task does besides OMI: uploads of pages and of firmware.  *)
(* One task serves all requests, so pages do not change during an update;  *)
(* a restart empties the store.                                            *)
(***************************************************************************)
EXTENDS Pages, Ota

vars == <<pagesVars, otaVars>>

Init == PagesInit /\ OtaInit

Serve == pc = "idle" /\ PagesNext /\ UNCHANGED otaVars

Update == UNCHANGED pagesVars /\ ((\E u \in Upload : Post(u)) \/ OtaStep \/ MarkValid)

Restart == Reboot /\ pages' = <<>> /\ total' = 0

Next == Serve \/ Update \/ Restart

Spec == Init /\ [][Next]_vars
=============================================================================
