---------------------------- MODULE WifiService ----------------------------
(***************************************************************************)
(* What the WiFi manager gives the application: a connection that comes    *)
(* and goes, a flag that says it was there once, and a point after which   *)
(* it will not be tried again.                                             *)
(***************************************************************************)
VARIABLES
    up,         \* the station has an IP address
    hadIp,      \* it had one at some time
    connected,  \* the application has been told so
    gaveUp      \* the manager has stopped trying

serviceVars == <<up, hadIp, connected, gaveUp>>

Init == up = FALSE /\ hadIp = FALSE /\ connected = FALSE /\ gaveUp = FALSE

ComeUp ==
    /\ ~ up /\ ~ gaveUp
    /\ up' = TRUE /\ hadIp' = TRUE
    /\ UNCHANGED <<connected, gaveUp>>

GoDown ==
    /\ up
    /\ up' = FALSE
    /\ UNCHANGED <<hadIp, connected, gaveUp>>

(* The application is told some time later, perhaps when it is over. *)
Tell ==
    /\ hadIp
    /\ connected' = TRUE
    /\ UNCHANGED <<up, hadIp, gaveUp>>

GiveUp ==
    /\ ~ up
    /\ gaveUp' = TRUE
    /\ UNCHANGED <<up, hadIp, connected>>

Next == ComeUp \/ GoDown \/ Tell \/ GiveUp

Spec == Init /\ [][Next]_serviceVars
=============================================================================
