------------------------------ MODULE MCClients ------------------------------
(* Small instances of Sessions, DesktopSession, Devices and Uploads, which  *)
(* share no state: subject says which of them a behaviour is about          *)
EXTENDS Sessions, DesktopSession, Devices, Uploads, TLC

CONSTANTS t1, t2, h1, h2

VARIABLE subject

(* Two pages with one useAuth each *)
BrowserPage == (h1 :> t1) @@ (h2 :> t2)
LoginForm == (t1 :> h1) @@ (t2 :> h2)

(* A batch of two files and one of one *)
Drops == ("b1" :> <<"f1", "f2">>) @@ ("b2" :> <<"f3">>)

ClientsInit ==
    /\ SessionsInit /\ DesktopInit /\ DevicesInit /\ UploadsInit
    /\ subject \in {"browser", "desktop", "devices", "uploads"}
ClientsNext ==
    /\ UNCHANGED subject
    /\ \/ /\ subject = "browser" /\ SessionsNext
          /\ UNCHANGED <<desktopVars, devicesVars, uploadsVars>>
       \/ /\ subject = "desktop" /\ DesktopNext
          /\ UNCHANGED <<sessionsVars, devicesVars, uploadsVars>>
       \/ /\ subject = "devices" /\ DevicesNext
          /\ UNCHANGED <<sessionsVars, desktopVars, uploadsVars>>
       \/ /\ subject = "uploads" /\ UploadsNext
          /\ UNCHANGED <<sessionsVars, desktopVars, devicesVars>>
ClientsSpec ==
    ClientsInit /\ [][ClientsNext]_<<sessionsVars, desktopVars, devicesVars, uploadsVars, subject>>
=============================================================================
