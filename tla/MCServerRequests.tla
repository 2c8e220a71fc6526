--------------------------- MODULE MCServerRequests ---------------------------
(* One session, one client.                                                *)
EXTENDS ServerRequests

CONSTANTS u1

OneUser == {u1}
BothModes == {"stdio", "handoff"}
AllFaults == {"exit", "drop", "leave"}
===============================================================================
