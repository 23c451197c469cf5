--------------------------- MODULE DesktopSession ---------------------------
(***************************************************************************)
(* The desktop application signing in and out: the login page in a webview  *)
(* (which runs anew each time it is opened), the commands it invokes in the *)
(* Rust side, the keychain and Core Kit's stored session that survive a     *)
(* restart, the tray menu, the drive, and the user's other device.          *)
(*                                                                         *)
(* A command goes on when the page that invoked it is reloaded.  The        *)
(* clean-up of logout after its request is one step.  An account was made   *)
(* by an identity endpoint, so /auth/login never calls the user new.        *)
(***************************************************************************)
EXTENDS Naturals, FiniteSets

CONSTANTS
    Runs, \* commands the page may have in flight
    NoKey, Here, There,  \* root folder keys: none, chosen by this desktop, by the other device
    MaxIssued,  \* bound: refresh tokens issued to this desktop
    MaxFailures \* bound: answers lost, failed unmounts, crashes

ASSUME DesktopAssumption ==
    /\ Runs # {}
    /\ NoKey # Here /\ Here # There /\ There # NoKey
    /\ {MaxIssued, MaxFailures} \subseteq Nat

VARIABLES
    issued, live,  \* refresh tokens: how many, which are unrevoked
    other,    \* the other device has a session
    vault,    \* root folder key of the vault row
    record,   \* what the root folder's record shows: nothing yet, no items, items
    keychain, \* refresh token in the keychain, 0 if none
    kit,      \* Core Kit has a stored session
    app,      \* AppState: access token, user, private key, root key, is_authenticated
    drive,    \* root folder key the mounted file system holds
    tray,     \* status the tray shows
    page,     \* what the login page does and which command it waits for
    cmd,      \* commands in flight
    leaving,  \* progress of a logout, and who asked for it
    failures,
    excuse,   \* history: what happened that explains a loss
    out       \* history: how the last logout ended, until the user signs in again

desktopVars == <<issued, live, other, vault, record, keychain, kit, app, drive, tray,
                 page, cmd, leaving, failures, excuse, out>>
server == <<issued, live, other, vault, record>>
client == <<keychain, kit, app, drive, tray>>
history == <<excuse, out>>

SignedOut == [token |-> "none", user |-> FALSE, pair |-> FALSE, root |-> NoKey, authed |-> FALSE]
Free == [at |-> "idle", tok |-> 0, key |-> NoKey, good |-> FALSE]
Page(at, ok) == [at |-> at, ok |-> ok, run |-> CHOOSE r \in Runs : TRUE]
Excuses == {"lost", "elsewhere", "crossed", "stuck"}

DesktopTypeOK ==
    /\ issued \in 0..MaxIssued /\ live \subseteq 1..issued /\ other \in BOOLEAN
    /\ vault \in {NoKey, Here, There} /\ record \in {"none", "empty", "full"}
    /\ keychain \in 0..issued /\ kit \in BOOLEAN
    /\ app \in [token : {"none", "fresh", "old"}, user : BOOLEAN, pair : BOOLEAN,
                root : {NoKey, Here, There}, authed : BOOLEAN]
    /\ drive \in {NoKey, Here, There} /\ tray \in {"off", "mounting", "on", "error"}
    /\ page \in [at : {"closed", "refreshing", "kit", "clearing", "form", "share", "waiting",
                       "recovering", "restoring", "done"},
                 ok : BOOLEAN, run : Runs]
    /\ cmd \in [Runs -> [at : {"idle", "refresh", "refreshed", "login", "vault", "init", "publish",
                               "again", "mount", "populate"},
                         tok : 0..issued, key : {NoKey, Here, There}, good : BOOLEAN]]
    /\ leaving \in [at : {"idle", "posting", "clearing"}, by : {"tray", "stale", "back"},
                    good : BOOLEAN]
    /\ failures \in 0..MaxFailures /\ excuse \subseteq Excuses /\ out \in {"no", "old", "fresh"}

DesktopInit ==
    /\ issued = 0 /\ live = {} /\ other = FALSE /\ vault = NoKey /\ record = "none"
    /\ keychain = 0 /\ kit = FALSE /\ app = SignedOut /\ drive = NoKey /\ tray = "off"
    /\ page = Page("closed", FALSE) /\ cmd = [r \in Runs |-> Free]
    /\ leaving = [at |-> "idle", by |-> "tray", good |-> FALSE]
    /\ failures = 0 /\ excuse = {} /\ out = "no"

Failure == failures < MaxFailures /\ failures' = failures + 1
Authorised == app.token = "fresh"

(* The next request of a command, with the access token of the moment       *)
Sends(r, at) == cmd' = [cmd EXCEPT ![r].at = at, ![r].tok = 0, ![r].good = Authorised]

-----------------------------------------------------------------------------
(* The page *)

(* "Login..." is enabled while nothing is connected.  It loads the page,    *)
(* which tries a silent refresh first                                       *)
Open(r) ==
    /\ tray = "off" /\ cmd[r].at = "idle" /\ page.at # "clearing"
    /\ page' = [at |-> IF keychain # 0 THEN "refreshing" ELSE "kit", ok |-> FALSE, run |-> r]
    /\ cmd' = IF keychain # 0 THEN [cmd EXCEPT ![r] = [Free EXCEPT !.at = "refresh", !.tok = keychain]]
                              ELSE cmd
    /\ out' = "no"
    /\ UNCHANGED <<server, client, leaving, failures, excuse>>

(* Core Kit found no session: the login form                                *)
NoSession ==
    /\ page.at = "kit" /\ ~kit
    /\ page' = [page EXCEPT !.at = "form"]
    /\ UNCHANGED <<server, client, cmd, leaving, failures, history>>

Waits(r, at) == page.run = r /\ page.at \in at

(* A command that fails: the page shows the form it was at, or gives up     *)
(* restoring                                                                *)
Errs(r) ==
    /\ cmd' = [cmd EXCEPT ![r] = Free]
    /\ page' = IF Waits(r, {"waiting"}) THEN [page EXCEPT !.at = "form"]
               ELSE IF Waits(r, {"recovering"}) THEN [page EXCEPT !.at = "share"]
               ELSE IF Waits(r, {"restoring"}) THEN [page EXCEPT !.at = "kit", !.ok = FALSE]
               ELSE page

-----------------------------------------------------------------------------
(* try_silent_refresh *)

Refresh(r) ==
    /\ cmd[r].at = "refresh"
    /\ IF cmd[r].tok \in live
       THEN /\ issued < MaxIssued
            /\ issued' = issued + 1 /\ live' = (live \ {cmd[r].tok}) \cup {issued'}
            /\ cmd' = [cmd EXCEPT ![r].at = "refreshed", ![r].tok = issued']
       ELSE /\ cmd' = [cmd EXCEPT ![r] = [Free EXCEPT !.at = "refreshed"]]
            /\ UNCHANGED <<issued, live>>
    /\ UNCHANGED <<other, vault, record, client, page, leaving, failures, history>>

RefreshEnds(r, ok) ==
    /\ cmd' = [cmd EXCEPT ![r] = Free]
    /\ page' = IF Waits(r, {"refreshing"}) THEN [page EXCEPT !.at = "kit", !.ok = ok] ELSE page

(* Mistake: the rotated token is not stored *)
OldKept(tok) == IF tok = 0 THEN 0 ELSE keychain

(* What the keychain holds after a refresh was answered: the new token, or  *)
(* none if the old one was refused                                          *)
Stored(tok) == tok

RefreshHeard(r) ==
    /\ cmd[r].at = "refreshed"
    /\ keychain' = Stored(cmd[r].tok)
    /\ app' = IF cmd[r].tok = 0 THEN app ELSE [app EXCEPT !.token = "fresh", !.user = TRUE]
    /\ RefreshEnds(r, cmd[r].tok # 0)
    /\ UNCHANGED <<server, kit, drive, tray, leaving, failures, history>>

RefreshLost(r) ==
    /\ cmd[r].at \in {"refresh", "refreshed"} /\ Failure
    /\ excuse' = excuse \cup {"lost"}
    /\ RefreshEnds(r, FALSE)
    /\ UNCHANGED <<server, client, leaving, out>>

-----------------------------------------------------------------------------
(* Signing in *)

(* Core Kit signs in and the page hands the key over to handle_auth_complete *)
HandOver(at) ==
    LET r == page.run IN
    /\ cmd[r].at = "idle" /\ issued < MaxIssued
    /\ kit' = TRUE /\ tray' = "mounting"
    /\ issued' = issued + 1 /\ live' = live \cup {issued'}
    /\ cmd' = [cmd EXCEPT ![r] = [Free EXCEPT !.at = "login", !.tok = issued']]
    /\ page' = [page EXCEPT !.at = at] /\ out' = "no"
    /\ UNCHANGED <<other, vault, record, keychain, app, drive, leaving, failures, excuse>>

Login == page.at = "form" /\ HandOver("waiting")

(* A factor is missing: a temporary session for the approval board only     *)
LoginShare ==
    /\ page.at = "form" /\ ~kit /\ issued < MaxIssued
    /\ issued' = issued + 1 /\ live' = live \cup {issued'}
    /\ page' = [page EXCEPT !.at = "share"] /\ out' = "no"
    /\ UNCHANGED <<other, vault, record, client, cmd, leaving, failures, excuse>>

(* The recovery phrase, or another device's approval.  Once Core Kit is     *)
(* signed in neither is taken again                                         *)
Recover == page.at = "share" /\ ~kit /\ HandOver("recovering")

LoginHeard(r) ==
    /\ cmd[r].at = "login"
    /\ app' = [app EXCEPT !.token = "fresh", !.user = TRUE, !.pair = TRUE]
    /\ keychain' = cmd[r].tok
    /\ cmd' = [cmd EXCEPT ![r].at = "vault", ![r].tok = 0, ![r].good = TRUE]
    /\ UNCHANGED <<server, kit, drive, tray, page, leaving, failures, history>>

(* handle_session_restore: the tokens are there already                     *)
Restore ==
    LET r == page.run IN
    /\ page.at = "kit" /\ kit /\ page.ok /\ cmd[r].at = "idle"
    /\ tray' = "mounting"
    /\ IF app.token # "none" /\ keychain # 0
       THEN /\ app' = [app EXCEPT !.user = TRUE, !.pair = TRUE]
            /\ Sends(r, "vault")
            /\ page' = [page EXCEPT !.at = "restoring"]
       ELSE UNCHANGED <<app, cmd>> /\ page' = [page EXCEPT !.ok = FALSE]
    /\ UNCHANGED <<server, keychain, kit, drive, leaving, failures, history>>

(* fetch_and_decrypt_vault: the keys are there and the user is              *)
(* authenticated                                                            *)
KeysUnlocked(r) ==
    /\ app' = [app EXCEPT !.root = vault, !.authed = TRUE]
    /\ cmd' = [cmd EXCEPT ![r] = [Free EXCEPT !.at = "mount", !.key = vault]]

VaultHeard(r) ==
    /\ cmd[r].at \in {"vault", "again"}
    /\ \/ /\ cmd[r].good /\ app.pair /\ vault # NoKey
          /\ KeysUnlocked(r) /\ UNCHANGED page
       \/ /\ cmd[r].good /\ app.pair /\ vault = NoKey /\ cmd[r].at = "vault"
          /\ Sends(r, "init") /\ UNCHANGED <<app, page>>
       \/ /\ ~cmd[r].good \/ ~app.pair \/ (vault = NoKey /\ cmd[r].at = "again")
          /\ Errs(r) /\ UNCHANGED app
    /\ UNCHANGED <<server, keychain, kit, drive, tray, leaving, failures, history>>

(* initialize_vault: the row, which the API refuses if there is one, and    *)
(* then the first record of the root folder                                 *)
Accepts(r) == cmd[r].good /\ vault = NoKey

(* Mistake: the empty record is published whatever the API says *)
InitPublishing(r) ==
    /\ cmd[r].at = "init"
    /\ record' = IF cmd[r].good THEN "empty" ELSE record
    /\ IF Accepts(r)
       THEN vault' = Here /\ Sends(r, "publish") /\ UNCHANGED page
       ELSE Errs(r) /\ UNCHANGED vault
    /\ UNCHANGED <<issued, live, other, client, leaving, failures, history>>

InitVault(r) ==
    /\ cmd[r].at = "init"
    /\ IF Accepts(r)
       THEN vault' = Here /\ Sends(r, "publish") /\ UNCHANGED page
       ELSE Errs(r) /\ UNCHANGED vault
    /\ UNCHANGED <<issued, live, other, record, client, leaving, failures, history>>

PublishEmpty(r) ==
    /\ cmd[r].at = "publish"
    /\ IF cmd[r].good
       THEN record' = "empty" /\ Sends(r, "again") /\ UNCHANGED page
       ELSE Errs(r) /\ UNCHANGED record
    /\ UNCHANGED <<issued, live, other, vault, client, leaving, failures, history>>

CommandFails(r) ==
    /\ cmd[r].at \in {"login", "vault", "init", "publish", "again"} /\ Failure
    /\ Errs(r)
    /\ excuse' = excuse \cup {"lost"}
    /\ UNCHANGED <<server, client, leaving, out>>

(* mount_filesystem empties the directory it will mount on.  A drive that   *)
(* is still mounted there has its items removed, as it shares the API       *)
(* client that is signed in again                                           *)
Clean(r) ==
    /\ cmd[r].at = "mount"
    /\ record' = IF drive # NoKey /\ Authorised THEN "empty" ELSE record
    /\ cmd' = [cmd EXCEPT ![r].at = "populate"]
    /\ UNCHANGED <<issued, live, other, vault, client, page, leaving, failures, history>>

Finished(r) ==
    /\ cmd' = [cmd EXCEPT ![r] = Free]
    /\ page' = IF Waits(r, {"waiting", "recovering", "restoring"}) THEN [page EXCEPT !.at = "done"] ELSE page

Mounted(r) ==
    /\ cmd[r].at = "populate"
    /\ drive' = cmd[r].key /\ tray' = "on"
    /\ Finished(r)
    /\ UNCHANGED <<server, keychain, kit, app, leaving, failures, history>>

(* The sign-in succeeds all the same                                        *)
MountFails(r) ==
    /\ cmd[r].at = "populate" /\ Failure
    /\ tray' = "error"
    /\ Finished(r)
    /\ UNCHANGED <<server, keychain, kit, app, drive, leaving, history>>

-----------------------------------------------------------------------------
(* Signing out *)

Busy == \E r \in Runs : cmd[r].at # "idle"
Crossing == IF Busy THEN {"crossed"} ELSE {}

(* The drive is unmounted, or is busy; then POST /auth/logout               *)
Unmount(by) ==
    /\ leaving.at = "idle" /\ leaving' = [at |-> "posting", by |-> by, good |-> Authorised]
    /\ \/ drive' = NoKey /\ UNCHANGED failures /\ excuse' = excuse \cup Crossing
       \/ drive # NoKey /\ UNCHANGED drive /\ Failure /\ excuse' = excuse \cup Crossing \cup {"stuck"}
    /\ UNCHANGED <<server, keychain, kit, app, tray, cmd, out>>

TrayLogout == tray = "on" /\ Unmount("tray") /\ UNCHANGED page

(* Core Kit has a session and the API tokens are missing, or restoring      *)
(* failed: "Clearing stale Core Kit session before login"                   *)
ClearStale ==
    /\ page.at = "kit" /\ kit /\ ~page.ok
    /\ page' = [page EXCEPT !.at = "clearing"] /\ Unmount("stale")

(* "Back to login", which stays enabled while a recovery is under way       *)
Back ==
    /\ page.at \in {"share", "recovering"}
    /\ page' = [page EXCEPT !.at = "clearing"] /\ Unmount("back")

(* An access token that is missing or old is refused, which is ignored      *)
LogoutPosted ==
    /\ leaving.at = "posting"
    /\ leaving' = [leaving EXCEPT !.at = "clearing"]
    /\ live' = IF leaving.good THEN {} ELSE live
    /\ other' = (other /\ ~leaving.good)
    /\ UNCHANGED <<issued, vault, record, client, page, cmd, failures, history>>

LogoutLost ==
    /\ leaving.at = "posting" /\ Failure
    /\ leaving' = [leaving EXCEPT !.at = "clearing"] /\ excuse' = excuse \cup {"lost"}
    /\ UNCHANGED <<server, client, page, cmd, out>>

(* Mistake: the keychain is not cleared *)
ForgetsNobody == UNCHANGED keychain

(* The keychain's entry is found by the user who is signed in, whom         *)
(* clear_keys then forgets                                                  *)
Forgets == keychain' = IF app.user THEN 0 ELSE keychain

ClearKeys == SignedOut

Cleared ==
    /\ leaving.at = "clearing"
    /\ leaving' = [leaving EXCEPT !.at = "idle"]
    /\ Forgets /\ app' = ClearKeys /\ tray' = "off"
    /\ kit' = (kit /\ leaving.by = "tray")
    /\ page' = IF page.at # "clearing" \/ leaving.by = "tray" THEN page
               ELSE [page EXCEPT !.at = IF leaving.by = "back" THEN "closed" ELSE "form"]
    /\ excuse' = excuse \cup Crossing
    /\ out' = IF ~app.user THEN "no" ELSE IF leaving.good THEN "fresh" ELSE "old"
    /\ UNCHANGED <<server, drive, cmd, failures>>

-----------------------------------------------------------------------------
(* The world *)

(* Fifteen minutes pass                                                     *)
Ages ==
    /\ Authorised /\ leaving.at = "idle" /\ \A r \in Runs : cmd[r].at = "idle"
    /\ app' = [app EXCEPT !.token = "old"]
    /\ UNCHANGED <<server, keychain, kit, drive, tray, page, cmd, leaving, failures,
                   history>>

(* The application quits or crashes                                         *)
Quit ==
    /\ Failure
    /\ app' = SignedOut /\ drive' = NoKey /\ tray' = "off"
    /\ page' = Page("closed", FALSE) /\ cmd' = [r \in Runs |-> Free]
    /\ leaving' = [leaving EXCEPT !.at = "idle"]
    /\ excuse' = excuse \cup (IF Busy \/ leaving.at # "idle" THEN {"lost"} ELSE {})
    /\ out' = "no"
    /\ UNCHANGED <<server, keychain, kit>>

OtherSignsIn ==
    /\ ~other /\ other' = TRUE
    /\ vault' = IF vault = NoKey THEN There ELSE vault
    /\ UNCHANGED <<issued, live, record, client, page, cmd, leaving, failures, history>>

OtherSaves ==
    /\ other /\ record # "full" /\ record' = "full"
    /\ UNCHANGED <<issued, live, other, vault, client, page, cmd, leaving, failures,
                   history>>

OtherSignsOut ==
    /\ other /\ other' = FALSE /\ live' = {}
    /\ excuse' = excuse \cup {"elsewhere"}
    /\ UNCHANGED <<issued, vault, record, client, page, cmd, leaving, failures, out>>

DesktopNext ==
    \/ \E r \in Runs :
         \/ Open(r) \/ Refresh(r) \/ RefreshHeard(r) \/ RefreshLost(r)
         \/ LoginHeard(r) \/ VaultHeard(r) \/ InitVault(r) \/ PublishEmpty(r) \/ CommandFails(r)
         \/ Clean(r) \/ Mounted(r) \/ MountFails(r)
    \/ NoSession \/ Login \/ LoginShare \/ Recover \/ Restore
    \/ TrayLogout \/ ClearStale \/ Back \/ LogoutPosted \/ LogoutLost \/ Cleared
    \/ Ages \/ Quit \/ OtherSignsIn \/ OtherSaves \/ OtherSignsOut

DesktopSpec == DesktopInit /\ [][DesktopNext]_desktopVars

-----------------------------------------------------------------------------
(* Properties *)

(* An authenticated desktop holds the user's key and the root folder key of *)
(* the one vault, and so does the drive, whichever device made the vault    *)
AuthedHoldsKeys ==
    /\ app.authed => app.pair /\ app.root = vault /\ vault # NoKey
    /\ drive \in {NoKey, vault}

(* The token in the keychain can be refreshed, unless an answer was lost,   *)
(* the user signed out on the other device, a logout crossed a sign-in, or  *)
(* its replacement is on its way                                            *)
KeychainWorks ==
    keychain # 0 /\ keychain \notin live =>
        \/ excuse \cap {"lost", "elsewhere", "crossed"} # {}
        \/ \E r \in Runs : cmd[r].at = "refreshed" /\ cmd[r].tok # 0
        \/ leaving.at = "clearing"

(* A logout leaves nothing behind: no key in memory, no drive, no token in  *)
(* the keychain and, if the access token was good, none on the server;      *)
(* unless it crossed a sign-in or the drive could not be unmounted          *)
NothingLeft ==
    /\ tray = "off" /\ excuse \cap {"crossed", "stuck"} = {}
       => ~app.pair /\ app.root = NoKey /\ ~app.authed /\ drive = NoKey
    /\ out # "no" /\ "crossed" \notin excuse => keychain = 0
    /\ out = "fresh" /\ excuse \cap {"crossed", "lost"} = {} => live = {}

(* The items of the vault do not go away, unless the other device saved     *)
(* them before the first record of a vault made here was published, or a    *)
(* drive outlived a logout: it was busy, or was mounted by a sign-in that   *)
(* the logout crossed                                                       *)
ContentStays ==
    [][record = "full" /\ record' # "full" =>
         excuse \cap {"stuck", "crossed"} # {} \/ (vault = Here /\ \E r \in Runs : cmd[r].at = "publish")]_desktopVars
=============================================================================
