------------------------------ MODULE Sessions ------------------------------
(***************************************************************************)
(* Sessions of one user in one browser: the refresh tokens the API keeps,   *)
(* the cookie all tabs of the browser share, and in each tab the access     *)
(* token, the vault's keys and the Core Kit session (kept in localStorage,  *)
(* so shared too).  Every useAuth of a page restores the session on its     *)
(* own; a refused request renews the access token once per tab.             *)
(*                                                                         *)
(* Tokens are numbered as they are issued.  An expired refresh token is     *)
(* skipped like a revoked one and is not told apart.                        *)
(***************************************************************************)
EXTENDS Naturals, Sequences, FiniteSets

CONSTANTS
    Tabs,      \* pages of the application open in the browser
    Hooks,     \* the instances of useAuth on those pages
    TabOf,     \* hook -> its page
    Main,      \* page -> the one hook its login form has too
    MaxTokens, \* bound: refresh tokens issued
    MaxMishaps \* bound: answers lost, failed clean-ups of Core Kit, reloads

ASSUME SessionAssumption ==
    /\ TabOf \in [Hooks -> Tabs] /\ Main \in [Tabs -> Hooks]
    /\ \A t \in Tabs : TabOf[Main[t]] = t
    /\ Hooks \cap Tabs = {} /\ 0 \notin Hooks
    /\ {MaxTokens, MaxMishaps} \subseteq Nat

VARIABLES
    tokens,     \* refresh_tokens: which token each replaced (0: a login), is it unrevoked
    vaultKey,   \* 0, or the hook that chose the root folder key of the vault row
    cookie,     \* refresh token in the browser's cookie, 0 if none
    stored,     \* Core Kit has a session in localStorage
    call,       \* POST /auth/refresh in flight, of a hook or of a tab's interceptor
    flow,       \* what a useAuth is doing
    tab,        \* per tab: access token, keys, Core Kit status, ...
    signingOut, \* per tab: progress of its logout
    mishaps,
    ended,      \* history: tokens up to this one were there at a logout
    rode,       \* history: tokens issued by a refresh that a logout overtook
    twins       \* history: tokens presented twice at once

sessionsVars == <<tokens, vaultKey, cookie, stored, call, flow, tab, signingOut, mishaps,
                  ended, rode, twins>>
excuses == <<ended, rode, twins>>

Callers == Hooks \cup Tabs
HooksOf(t) == {h \in Hooks : TabOf[h] = t}
PageOf(c) == IF c \in Tabs THEN c ELSE TabOf[c]
Tokens == 1..Len(tokens)
Live(i) == i \in Tokens /\ tokens[i].live

NoCall == [at |-> "idle", tok |-> 0, new |-> 0, seen |-> 0]
Sent(tok) == [at |-> "sent", tok |-> tok, new |-> 0, seen |-> 0]
Idle == [at |-> "idle", from |-> "login", tok |-> 0, zeroed |-> FALSE]
Empty == [token |-> FALSE, keys |-> 0, kit |-> FALSE, pair |-> 0, app |-> FALSE, out |-> FALSE]

SessionsTypeOK ==
    /\ tokens \in Seq([parent : 0..MaxTokens, live : BOOLEAN]) /\ Len(tokens) <= MaxTokens
    /\ vaultKey \in {0} \cup Hooks /\ cookie \in 0..MaxTokens /\ stored \in BOOLEAN
    /\ call \in [Callers -> [at : {"idle", "sent", "found", "answered"},
                             tok : 0..MaxTokens, new : 0..MaxTokens,
                             seen : 0..MaxTokens]]
    /\ flow \in [Hooks -> [at : {"idle", "login", "restore", "export", "vault", "init", "made"},
                           from : {"login", "restore"}, tok : 0..MaxTokens, zeroed : BOOLEAN]]
    /\ tab \in [Tabs -> [token : BOOLEAN, keys : {0} \cup Hooks, kit : BOOLEAN,
                         pair : {0} \cup Hooks, app : BOOLEAN, out : BOOLEAN]]
    /\ signingOut \in [Tabs -> BOOLEAN]
    /\ mishaps \in 0..MaxMishaps
    /\ ended \in 0..MaxTokens /\ {rode, twins} \subseteq SUBSET (1..MaxTokens)

SessionsInit ==
    /\ tokens = <<>> /\ vaultKey = 0 /\ cookie = 0 /\ stored = FALSE
    /\ call = [c \in Callers |-> NoCall]
    /\ flow = [h \in Hooks |-> Idle]
    /\ tab = [t \in Tabs |-> Empty]
    /\ signingOut = [t \in Tabs |-> FALSE]
    /\ mishaps = 0 /\ ended = 0 /\ rode = {} /\ twins = {}

Mishap == mishaps < MaxMishaps /\ mishaps' = mishaps + 1

-----------------------------------------------------------------------------
(* The API's tokens *)

CanIssue == Len(tokens) < MaxTokens
Issued(rs, parent) == Append(rs, [parent |-> parent, live |-> TRUE])
Revoked(rs, i) == [rs EXCEPT ![i].live = FALSE]
AllRevoked(rs) == [i \in DOMAIN rs |-> [rs[i] EXCEPT !.live = FALSE]]

(* Mistake: revoked rows are found too *)
FindAny(tok) == tok \in Tokens

(* The row a refresh goes on with: unrevoked and of the token presented     *)
Find(tok) == Live(tok)

(* refreshByToken looks the token up, which takes a while, ...              *)
RefreshFinds(c) ==
    /\ call[c].at = "sent"
    /\ LET tok == call[c].tok
           rivals == {d \in Callers : call[d].at = "found" /\ call[d].tok = tok}
       IN  IF Find(tok)
           THEN /\ call' = [call EXCEPT ![c].at = "found", ![c].seen = ended]
                /\ twins' = IF rivals # {} THEN twins \cup {tok} ELSE twins
           ELSE call' = [call EXCEPT ![c].at = "answered"] /\ UNCHANGED twins
    /\ UNCHANGED <<tokens, vaultKey, cookie, stored, flow, tab, signingOut, mishaps,
                   ended, rode>>

Rotated(rs, tok) == Issued(Revoked(rs, tok), tok)

(* ... and then revokes its row and issues another                          *)
RefreshRotates(c) ==
    /\ call[c].at = "found" /\ CanIssue
    /\ LET tok == call[c].tok
           new == Len(tokens) + 1
       IN  /\ tokens' = Rotated(tokens, tok)
           /\ call' = [call EXCEPT ![c] = [@ EXCEPT !.at = "answered", !.new = new, !.seen = 0]]
           /\ rode' = IF call[c].seen < tok /\ tok <= ended THEN rode \cup {new} ELSE rode
    /\ UNCHANGED <<vaultKey, cookie, stored, flow, tab, signingOut, mishaps, ended,
                   twins>>

-----------------------------------------------------------------------------
(* A tab's stores *)

Signed(w) == [w EXCEPT !.token = TRUE, !.app = TRUE]

PageBusy(t) ==
    \/ \E c \in HooksOf(t) \cup {t} : call[c].at # "idle"
    \/ \E h \in HooksOf(t) : flow[h].at # "idle"

StoresCleared(w) == [w EXCEPT !.token = FALSE, !.keys = 0, !.pair = 0]

(* The logout of the auth store overwrites the key pair it holds, which the *)
(* useAuth that put it there still uses                                     *)
Zeroed(t) == [h \in Hooks |-> IF h = tab[t].pair /\ flow[h].at # "idle"
                              THEN [flow[h] EXCEPT !.zeroed = TRUE] ELSE flow[h]]

(* A flow that throws; a restoration then ends the Core Kit session         *)
Throws(h) ==
    LET t == TabOf[h] IN
    /\ flow' = [flow EXCEPT ![h] = Idle]
    /\ IF flow[h].from = "restore"
       THEN tab' = [tab EXCEPT ![t].kit = FALSE] /\ stored' = FALSE
       ELSE UNCHANGED <<tab, stored>>

(* The answer of a refresh reaches the browser: the cookie is replaced.  An *)
(* interceptor sets the access token, or clears all stores                  *)
TakesCookie(c) == IF call[c].new = 0 THEN cookie ELSE call[c].new

RenewHeard(t) ==
    /\ call[t].at = "answered"
    /\ cookie' = TakesCookie(t)
    /\ call' = [call EXCEPT ![t] = NoCall]
    /\ IF call[t].new # 0
       THEN tab' = [tab EXCEPT ![t] = Signed(@)] /\ UNCHANGED flow
       ELSE tab' = [tab EXCEPT ![t] = StoresCleared(@)] /\ flow' = Zeroed(t)
    /\ UNCHANGED <<tokens, vaultKey, stored, signingOut, mishaps, excuses>>

(* After fifteen minutes a request is refused with 401, which starts the    *)
(* renewal, once per tab; all requests then wait for it                     *)
Renew(t) ==
    /\ tab[t].token /\ call[t].at = "idle" /\ ~signingOut[t]
    /\ call' = [call EXCEPT ![t] = IF cookie = 0 THEN [Sent(0) EXCEPT !.at = "answered"] ELSE Sent(cookie)]
    /\ UNCHANGED <<tokens, vaultKey, cookie, stored, flow, tab, signingOut, mishaps,
                   excuses>>

-----------------------------------------------------------------------------
(* Signing in *)

(* Core Kit is signed in first; then POST /auth/login                       *)
SignIn(h) ==
    LET t == TabOf[h] IN
    /\ h = Main[t] /\ flow[h].at = "idle" /\ ~tab[t].kit /\ ~tab[t].token /\ ~signingOut[t]
    /\ CanIssue
    /\ tokens' = Issued(tokens, 0)
    /\ tab' = [tab EXCEPT ![t].kit = TRUE, ![t].out = FALSE] /\ stored' = TRUE
    /\ flow' = [flow EXCEPT ![h] = [Idle EXCEPT !.at = "login", !.tok = Len(tokens) + 1]]
    /\ UNCHANGED <<vaultKey, cookie, call, signingOut, mishaps, excuses>>

SignInHeard(h) ==
    LET t == TabOf[h] IN
    /\ flow[h].at = "login"
    /\ cookie' = flow[h].tok
    /\ tab' = [tab EXCEPT ![t] = Signed(@)]
    /\ flow' = [flow EXCEPT ![h].at = "export"]
    /\ UNCHANGED <<tokens, vaultKey, stored, call, signingOut, mishaps, excuses>>

SignInLost(h) ==
    /\ flow[h].at = "login" /\ Mishap
    /\ Throws(h)
    /\ UNCHANGED <<tokens, vaultKey, cookie, call, signingOut, excuses>>

(* Core Kit lacks a factor: the user gets a token for the approval board    *)
(* only, and no keys                                                        *)
SignInShare(h) ==
    LET t == TabOf[h] IN
    /\ h = Main[t] /\ flow[h].at = "idle" /\ ~tab[t].kit /\ ~tab[t].token /\ ~signingOut[t]
    /\ CanIssue
    /\ tokens' = Issued(tokens, 0) /\ cookie' = Len(tokens) + 1
    /\ tab' = [tab EXCEPT ![t] = [Signed(@) EXCEPT !.out = FALSE]]
    /\ UNCHANGED <<vaultKey, stored, call, flow, signingOut, mishaps, excuses>>

(* Core Kit signed in and no access token: the effect of every useAuth on   *)
(* the page that is not signing in already asks for one                     *)
MountedHooks(t) == IF tab[t].app THEN HooksOf(t) ELSE {Main[t]}
Ready(t) == {h \in MountedHooks(t) : flow[h].at = "idle" /\ call[h].at = "idle"}
Asks(t) == IF tab[t].kit /\ ~tab[t].token THEN Ready(t) ELSE {}

RestoreSession(t) ==
    /\ Asks(t) # {}
    /\ call' = [c \in Callers |->
                  IF c \notin Asks(t) THEN call[c]
                  ELSE IF cookie = 0 THEN [Sent(0) EXCEPT !.at = "answered"] ELSE Sent(cookie)]
    /\ flow' = [h \in Hooks |-> IF h \in Asks(t) THEN [Idle EXCEPT !.at = "restore", !.from = "restore"]
                                                 ELSE flow[h]]
    /\ tab' = [tab EXCEPT ![t].app = FALSE, ![t].out = FALSE]
    /\ UNCHANGED <<tokens, vaultKey, cookie, stored, signingOut, mishaps, excuses>>

RestoreHeard(h) ==
    LET t == TabOf[h] IN
    /\ flow[h].at = "restore" /\ call[h].at = "answered"
    /\ cookie' = TakesCookie(h)
    /\ call' = [call EXCEPT ![h] = NoCall]
    /\ IF call[h].new # 0
       THEN /\ tab' = [tab EXCEPT ![t] = Signed(@)]
            /\ flow' = [flow EXCEPT ![h].at = "export"] /\ UNCHANGED stored
       ELSE Throws(h)
    /\ UNCHANGED <<tokens, vaultKey, signingOut, mishaps, excuses>>

AnswerDropped(c) ==
    /\ call[c].at \in {"sent", "answered"} /\ Mishap
    /\ call' = [call EXCEPT ![c] = NoCall]
    /\ IF c \in Tabs
       THEN /\ tab' = [tab EXCEPT ![c] = StoresCleared(@)] /\ flow' = Zeroed(c) /\ UNCHANGED stored
       ELSE Throws(c)
    /\ UNCHANGED <<tokens, vaultKey, cookie, signingOut, ended, rode, twins>>

-----------------------------------------------------------------------------
(* initializeOrLoadVault *)

Export(h) ==
    LET t == TabOf[h] IN
    /\ flow[h].at = "export"
    /\ IF tab[t].kit
       THEN /\ flow' = [flow EXCEPT ![h].at = "vault"]
            /\ tab' = [tab EXCEPT ![t].pair = h] /\ UNCHANGED stored
       ELSE Throws(h)
    /\ UNCHANGED <<tokens, vaultKey, cookie, call, signingOut, mishaps, excuses>>

Holds(t, key) == [tab EXCEPT ![t].keys = key]

(* GET /vault: the keys are decrypted with the pair, unless it was zeroed   *)
VaultAnswered(h) ==
    /\ flow[h].at = "vault" /\ vaultKey # 0
    /\ IF flow[h].zeroed
       THEN Throws(h)
       ELSE tab' = Holds(TabOf[h], vaultKey) /\ flow' = [flow EXCEPT ![h] = Idle] /\ UNCHANGED stored
    /\ UNCHANGED <<tokens, vaultKey, cookie, call, signingOut, mishaps, excuses>>

(* 404: a root folder key is chosen and POSTed.  The pair is used for that  *)
(* at once and no more                                                      *)
VaultMissing(h) ==
    /\ flow[h].at = "vault" /\ vaultKey = 0
    /\ IF flow[h].zeroed THEN Throws(h)
       ELSE flow' = [flow EXCEPT ![h].at = "init"] /\ UNCHANGED <<tab, stored>>
    /\ UNCHANGED <<tokens, vaultKey, cookie, call, signingOut, mishaps, excuses>>

VaultGone(h) ==
    /\ flow[h].at = "vault" /\ Mishap
    /\ Throws(h)
    /\ UNCHANGED <<tokens, vaultKey, cookie, call, signingOut, excuses>>

(* Mistake: a second vault is accepted *)
AcceptsAny == TRUE

(* initializeVault of the API: one vault to a user                          *)
AcceptsVault == vaultKey = 0

InitBrowserVault(h) ==
    /\ flow[h].at = "init"
    /\ IF AcceptsVault
       THEN vaultKey' = h /\ flow' = [flow EXCEPT ![h].at = "made"] /\ UNCHANGED <<tab,
                                                                                   stored>>
       ELSE Throws(h) /\ UNCHANGED vaultKey
    /\ UNCHANGED <<tokens, cookie, call, signingOut, mishaps, excuses>>

InitHeard(h) ==
    /\ flow[h].at = "made"
    /\ tab' = Holds(TabOf[h], h) /\ flow' = [flow EXCEPT ![h] = Idle]
    /\ UNCHANGED <<tokens, vaultKey, cookie, stored, call, signingOut, mishaps, excuses>>

(* The vault's row was saved and the root folder's was not                  *)
InitFails(h) ==
    /\ flow[h].at = "made" /\ Mishap
    /\ Throws(h)
    /\ UNCHANGED <<tokens, vaultKey, cookie, call, signingOut, excuses>>

-----------------------------------------------------------------------------
(* Signing out *)

(* POST /auth/logout; the interceptor renews an old token first             *)
Logout(t) ==
    /\ tab[t].token /\ call[t].at = "idle" /\ ~signingOut[t]
    /\ tokens' = AllRevoked(tokens) /\ ended' = Len(tokens)
    /\ signingOut' = [signingOut EXCEPT ![t] = TRUE]
    /\ UNCHANGED <<vaultKey, cookie, stored, call, flow, tab, mishaps, rode, twins>>

(* Core Kit is signed out, if it can be, and then the stores are cleared    *)
LeavesKit(t, kit) ==
    /\ tab' = [tab EXCEPT ![t] = [StoresCleared(@) EXCEPT !.kit = kit, !.app = FALSE, !.out = ~PageBusy(t) /\ ~kit]]
    /\ stored' = (stored /\ kit)

Leave(t, kit) ==
    /\ LeavesKit(t, kit)
    /\ flow' = Zeroed(t)
    /\ signingOut' = [signingOut EXCEPT ![t] = FALSE]
    /\ UNCHANGED <<tokens, vaultKey, call, excuses>>

LogoutHeard(t) ==
    /\ signingOut[t]
    /\ cookie' = 0
    /\ \/ Leave(t, FALSE) /\ UNCHANGED mishaps
       \/ Leave(t, tab[t].kit) /\ Mishap

(* No answer: the tab is cleared all the same                               *)
LogoutFails(t) ==
    /\ tab[t].token \/ signingOut[t]
    /\ Mishap
    /\ UNCHANGED cookie
    /\ Leave(t, FALSE)

(* The page is loaded again: Core Kit finds its session in localStorage     *)
Load(t) ==
    /\ Mishap
    /\ \A c \in HooksOf(t) \cup {t} : call[c].at # "found"
    /\ tab' = [tab EXCEPT ![t] = [Empty EXCEPT !.kit = stored, !.app = stored]]
    /\ call' = [c \in Callers |-> IF PageOf(c) = t THEN NoCall ELSE call[c]]
    /\ flow' = [h \in Hooks |-> IF TabOf[h] = t THEN Idle ELSE flow[h]]
    /\ signingOut' = [signingOut EXCEPT ![t] = FALSE]
    /\ UNCHANGED <<tokens, vaultKey, cookie, stored, ended, rode, twins>>

SessionsNext ==
    \/ \E c \in Callers : RefreshFinds(c) \/ RefreshRotates(c) \/ AnswerDropped(c)
    \/ \E h \in Hooks : \/ SignIn(h) \/ SignInHeard(h) \/ SignInLost(h) \/ SignInShare(h)
                        \/ RestoreHeard(h) \/ Export(h) \/ VaultAnswered(h) \/ VaultMissing(h)
                        \/ VaultGone(h) \/ InitBrowserVault(h) \/ InitHeard(h) \/ InitFails(h)
    \/ \E t \in Tabs : \/ Renew(t) \/ RenewHeard(t) \/ RestoreSession(t) \/ Load(t)
                       \/ Logout(t) \/ LogoutHeard(t) \/ LogoutFails(t)

SessionsSpec == SessionsInit /\ [][SessionsNext]_sessionsVars

-----------------------------------------------------------------------------
(* Properties *)

(* No unrevoked refresh token descends from one that a logout revoked,      *)
(* unless the logout overtook the refresh that issued it                    *)
LogoutEndsSessions ==
    \A i \in Tokens : tokens[i].live /\ tokens[i].parent \in 1..ended => i \in rode

(* A refresh token is exchanged for one other token, unless it was          *)
(* presented twice before the first exchange revoked it                     *)
OneSuccessor ==
    \A i, j \in Tokens : tokens[i].parent = tokens[j].parent /\ tokens[i].parent # 0 /\ i # j
                         => tokens[i].parent \in twins

(* The browser's cookie can be refreshed unless the user signed out, an     *)
(* answer was lost or its replacement is on its way: tabs and hooks that    *)
(* refresh at once do not leave the browser with a revoked cookie           *)
CookieWorks ==
    cookie # 0 /\ ~Live(cookie) =>
        \/ cookie <= ended \/ mishaps > 0
        \/ \E c \in Callers : call[c].at = "answered" /\ call[c].tok = cookie /\ call[c].new # 0

(* A tab that signed out with nothing in flight stays signed out            *)
SignedOutStays == \A t \in Tabs : tab[t].out => ~tab[t].token /\ tab[t].keys = 0

(* All tabs hold the root folder key the vault row holds, whichever of them *)
(* found no vault first                                                     *)
KeysAreTheVaults == \A t \in Tabs : tab[t].keys # 0 => tab[t].keys = vaultKey
=============================================================================
