------------------------------- MODULE Factors -------------------------------
(***************************************************************************)
(* The factors of one account's key: enabling MFA with the wizard, the     *)
(* recovery phrase, revoking a device, and recovering with the phrase.     *)
(* Core Kit keeps the factors; this is what useMfa and the pages do with   *)
(* it.  Each browser has Core Kit's metadata as it read them, with its own *)
(* changes, which only commitChanges writes (manualSync).  Each await of a *)
(* call is a step, and may throw.  A factor approved by another device is  *)
(* in DeviceApproval; what a login does after Core Kit's is in Sessions.   *)
(***************************************************************************)
EXTENDS Naturals, FiniteSets

CONSTANTS
    Browsers,
    Hashed,         \* the factor of an account without MFA
    MaxKeys,        \* bound: factor keys generated
    Places,         \* bound: calls under way at once
    MaxAsks         \* bound: calls

NoKey == 0
Keys == 1..MaxKeys      \* in the order they are generated
NoBrowser == "no browser"
Factor == {Hashed} \cup Keys

ASSUME FactorsAssumption ==
    /\ {MaxKeys, MaxAsks} \subseteq Nat /\ Hashed \notin Nat
    /\ NoBrowser \notin Browsers

VARIABLES
    committed,      \* factors in the metadata Core Kit has written
    version,        \* of the metadata
    kind,           \* what each key was generated for
    kit,            \* browser -> Core Kit there
    device,         \* browser -> the device factor in its storage
    mfa,            \* browser -> isMfaEnabled and factorCount of the store
    page,           \* browser -> the page it shows
    wizard,         \* browser -> the state of the wizard
    section,        \* browser -> the state of RecoveryPhraseSection
    list,           \* browser -> the state of AuthorizedDevices
    jobs,           \* slot -> a call of useMfa
    noted,          \* the phrase the user has written down last
    renewed,        \* history: phrases there were when a new one was asked for
    revoked,        \* history: factors the user has chosen to revoke
    asks            \* calls made

kitVars == <<committed, version, kind, kit, device>>
pageVars == <<mfa, page, wizard, section, list>>
userVars == <<noted, renewed, revoked, asks>>
factorsVars == <<kitVars, pageVars, jobs, userVars>>

Out == [status |-> "out", view |-> {}, base |-> 0, active |-> NoKey]
Disabled == [enabled |-> FALSE, count |-> 0]
NewWizard == [step |-> 1, loading |-> FALSE, error |-> FALSE, partial |-> FALSE, phrase |-> NoKey]
NewSection == [active |-> FALSE, busy |-> FALSE, phrase |-> NoKey]
NewList == [devices |-> {}, revoking |-> NoKey]
NoCall == [name |-> "none", at |-> "none", browser |-> NoBrowser, key |-> NoKey, heard |-> FALSE]

FactorsInit ==
    /\ committed = {Hashed} /\ version = 0
    /\ kind = [k \in Factor |-> IF k = Hashed THEN "hashed" ELSE "none"]
    /\ kit = [b \in Browsers |-> Out]
    /\ device = [b \in Browsers |-> NoKey]
    /\ mfa = [b \in Browsers |-> Disabled]
    /\ page = [b \in Browsers |-> "login"]
    /\ wizard = [b \in Browsers |-> NewWizard]
    /\ section = [b \in Browsers |-> NewSection]
    /\ list = [b \in Browsers |-> NewList]
    /\ jobs = [s \in Places |-> NoCall]
    /\ noted = NoKey /\ renewed = {} /\ revoked = {} /\ asks = 0

-----------------------------------------------------------------------------
(* Core Kit *)

(* With the account's one factor, or that of the device, or a factor is    *)
(* required                                                                *)
EnteredWith(f) == [status |-> "in", view |-> committed, base |-> version, active |-> f]
Entered(b) ==
    LET with == IF Hashed \in committed THEN Hashed ELSE device[b]
    IN  IF with \in committed THEN EnteredWith(with)
        ELSE [EnteredWith(NoKey) EXCEPT !.status = "required"]

NextKey(k, made) == k \in Keys /\ made[k] = "none" /\ \A j \in Keys : j < k => made[j] # "none"

(* createFactor *)
Creates(b, k, what) ==
    /\ NextKey(k, kind)
    /\ kind' = [kind EXCEPT ![k] = what]
    /\ kit' = [kit EXCEPT ![b].view = @ \cup {k}]
    /\ UNCHANGED <<committed, version, device>>

(* deleteFactor takes neither the factor that is in use nor the last one   *)
CanDelete(b, f) == f \in kit[b].view \ {kit[b].active} /\ Cardinality(kit[b].view) > 1
Deletes(b, f) ==
    /\ CanDelete(b, f)
    /\ kit' = [kit EXCEPT ![b].view = @ \ {f}]
    /\ UNCHANGED <<committed, version, kind, device>>

(* commitChanges, of changes to the metadata as they are                   *)
CanCommit(b) == kit[b].base = version
Commits(b) ==
    /\ CanCommit(b)
    /\ committed' = kit[b].view
    /\ version' = IF kit[b].view = committed THEN version ELSE version + 1
    /\ kit' = [kit EXCEPT ![b].base = version']
    /\ UNCHANGED <<kind, device>>

(* Its answer may be lost: the changes are written, the caller has an error *)
CommitFails(b) ==
    \/ UNCHANGED kitVars
    \/ /\ CanCommit(b) /\ kit[b].view # committed
       /\ committed' = kit[b].view /\ version' = version + 1
       /\ UNCHANGED <<kind, kit, device>>

(* enableMFA: a factor for the device, which is then in use, and one for   *)
(* the phrase, instead of the account's                                    *)
EnablesMFA(b, d, k) ==
    /\ kit[b].active = Hashed /\ Hashed \in kit[b].view
    /\ NextKey(d, kind) /\ NextKey(k, [kind EXCEPT ![d] = "device"])
    /\ kind' = [kind EXCEPT ![d] = "device", ![k] = "seed"]
    /\ kit' = [kit EXCEPT ![b] = [@ EXCEPT !.view = (kit[b].view \ {Hashed}) \cup {d, k},
                                            !.active = d]]
    /\ device' = [device EXCEPT ![b] = d]
    /\ UNCHANGED <<committed, version>>

-----------------------------------------------------------------------------
(* Coming and going *)

(* Another page, a logout or a closed browser ends what a page shows, and  *)
(* nobody hears what it asked                                              *)
Unmounted(b) ==
    /\ wizard' = [wizard EXCEPT ![b] = NewWizard]
    /\ section' = [section EXCEPT ![b] = NewSection]
    /\ list' = [list EXCEPT ![b] = NewList]
Dropped(b) == jobs' = [s \in Places |-> IF jobs[s].browser = b THEN NoCall ELSE jobs[s]]
Unheard(b) == [s \in Places |-> IF jobs[s].browser = b THEN [jobs[s] EXCEPT !.heard = FALSE]
                               ELSE jobs[s]]

(* checkMfaStatus *)
StatusOf(view) == [enabled |-> Cardinality(view) >= 2, count |-> Cardinality(view)]
Checked(b) == StatusOf(kit[b].view)

(* The prompt to enable MFA looks whether it is on                         *)
Prompted(b) == mfa' = [mfa EXCEPT ![b] = StatusOf(committed)]

Login(b) ==
    /\ kit[b].status = "out"
    /\ kit' = [kit EXCEPT ![b] = Entered(b)]
    /\ \/ /\ Entered(b).status = "in"
          /\ Prompted(b)
          /\ page' = [page EXCEPT ![b] = "files"]
       \/ /\ Entered(b).status = "required"
          /\ page' = [page EXCEPT ![b] = "recovery"]
          /\ UNCHANGED mfa
    /\ UNCHANGED <<committed, version, kind, device, wizard, section, list, jobs, userVars>>

(* A reload resumes the session with the factor it had                     *)
ReloadPage(b) ==
    /\ kit[b].status = "in" /\ kit[b].active \in committed
    /\ kit' = [kit EXCEPT ![b] = EnteredWith(kit[b].active)]
    /\ Prompted(b)
    /\ page' = [page EXCEPT ![b] = "files"]
    /\ Unmounted(b) /\ Dropped(b)
    /\ UNCHANGED <<committed, version, kind, device, userVars>>

(* The page is closed or the user logs out: changes not written are gone,  *)
(* and so is what was under way                                            *)
Leave(b) ==
    /\ kit[b].status # "out"
    /\ kit' = [kit EXCEPT ![b] = Out]
    /\ mfa' = [mfa EXCEPT ![b] = Disabled]
    /\ page' = [page EXCEPT ![b] = "login"]
    /\ Unmounted(b)
    /\ Dropped(b)
    /\ UNCHANGED <<committed, version, kind, device, userVars>>

(* Mistake: the phrases are listed with the devices *)
FactorsOfAny(b, what) == {k \in kit[b].view : kind[k] # "none" /\ k # kit[b].active}

FactorsOf(b, what) == {k \in kit[b].view : kind[k] = what}

DeviceFactors(b) == FactorsOf(b, "device")
HasRecoveryFactor(b) == FactorsOf(b, "seed") # {}

(* The lists are made once, when the sections are mounted                  *)
Sections(b) ==
    /\ list' = [list EXCEPT ![b] = [NewList EXCEPT !.devices = DeviceFactors(b)]]
    /\ section' = [section EXCEPT ![b] = [NewSection EXCEPT !.active = HasRecoveryFactor(b)]]

(* The tab mounts them when it learns that MFA is on                       *)
Mounts(b) ==
    IF page[b] = "security" /\ ~mfa[b].enabled /\ mfa'[b].enabled THEN Sections(b)
    ELSE UNCHANGED <<section, list>>

(* SecurityTab *)
OpenTab(b) ==
    /\ page[b] = "files"
    /\ page' = [page EXCEPT ![b] = "security"]
    /\ mfa' = [mfa EXCEPT ![b] = Checked(b)]
    /\ Sections(b)
    /\ UNCHANGED <<kitVars, wizard, jobs, userVars>>

LeaveTab(b) ==
    /\ page[b] \in {"security", "wizard"}
    /\ page' = [page EXCEPT ![b] = "files"]
    /\ Unmounted(b) /\ jobs' = Unheard(b)
    /\ UNCHANGED <<kitVars, mfa, userVars>>

-----------------------------------------------------------------------------
(* Calls *)

Asks(b, name, at, key) ==
    /\ asks < MaxAsks /\ asks' = asks + 1
    /\ \E s \in Places :
           /\ jobs[s] = NoCall /\ \A t \in Places : t < s => jobs[t] # NoCall
           /\ jobs' = [jobs EXCEPT ![s] = [name |-> name, at |-> at, browser |-> b, key |-> key,
                                             heard |-> TRUE]]

Is(s, name, at) == jobs[s].name = name /\ jobs[s].at = at
GoesOn(s, at, key) == jobs' = [jobs EXCEPT ![s] = [@ EXCEPT !.at = at, !.key = key]]
Ends(s) == jobs' = [jobs EXCEPT ![s] = NoCall]

(* A step that throws before it has done anything                          *)
Throws == UNCHANGED kitVars

-----------------------------------------------------------------------------
(* The wizard *)

OpenWizard(b) ==
    /\ page[b] = "security" /\ ~mfa[b].enabled
    /\ page' = [page EXCEPT ![b] = "wizard"]
    /\ UNCHANGED <<kitVars, mfa, wizard, section, list, jobs, userVars>>

(* The catch of handleEnableMfa: MFA may be on all the same                *)
EnableFailed(b, heard) ==
    /\ mfa' = [mfa EXCEPT ![b] = Checked(b)]
    /\ wizard' = IF heard THEN [wizard EXCEPT ![b] = [@ EXCEPT !.loading = FALSE, !.error = TRUE,
                                                             !.partial = wizard[b].partial
                                                                         \/ Checked(b).enabled]]
                 ELSE wizard

(* handleEnableMfa, and enableMfa up to its first await                    *)
Enable(b, step) ==
    \/ /\ ~mfa[b].enabled
       /\ wizard' = [wizard EXCEPT ![b] = [@ EXCEPT !.step = step, !.loading = TRUE, !.error = FALSE]]
       /\ Asks(b, "enable", "settle", NoKey)
       /\ UNCHANGED mfa
    \/ /\ mfa[b].enabled
       /\ mfa' = [mfa EXCEPT ![b] = Checked(b)]
       /\ wizard' = [wizard EXCEPT ![b] = [@ EXCEPT !.step = step, !.loading = FALSE, !.error = TRUE,
                                                    !.partial = wizard[b].partial
                                                                \/ Checked(b).enabled]]
       /\ UNCHANGED <<jobs, asks>>

(* handleGoToStep2: a phrase there is, is shown again                      *)
GoToStep2(b) ==
    /\ page[b] = "wizard" /\ wizard[b].step = 1
    /\ \/ wizard[b].phrase = NoKey /\ Enable(b, 2)
       \/ /\ wizard[b].phrase # NoKey
          /\ wizard' = [wizard EXCEPT ![b].step = 2]
          /\ UNCHANGED <<mfa, jobs, asks>>
    /\ UNCHANGED <<kitVars, page, section, list, noted, renewed, revoked>>

Retry(b) ==
    /\ page[b] = "wizard" /\ wizard[b].step = 2
    /\ wizard[b].error /\ ~wizard[b].partial
    /\ Enable(b, 2)
    /\ UNCHANGED <<kitVars, page, section, list, noted, renewed, revoked>>

GoBackToStep1(b) ==
    /\ page[b] = "wizard" /\ wizard[b].step = 2
    /\ wizard' = [wizard EXCEPT ![b].step = 1]
    /\ UNCHANGED <<kitVars, mfa, page, section, list, jobs, userVars>>

PhraseShown(b) == wizard[b].step = 2 /\ wizard[b].phrase # NoKey /\ ~wizard[b].loading /\ ~wizard[b].error

(* The user says it is written down, and goes on                           *)
GoToStep3(b) ==
    /\ page[b] = "wizard" /\ PhraseShown(b)
    /\ noted' = wizard[b].phrase
    /\ wizard' = [wizard EXCEPT ![b] = [@ EXCEPT !.step = 3, !.phrase = NoKey]]
    /\ UNCHANGED <<kitVars, mfa, page, section, list, jobs, renewed, revoked, asks>>

CloseWizard(b) ==
    /\ page[b] = "wizard"
    /\ page' = [page EXCEPT ![b] = "security"]
    /\ wizard' = [wizard EXCEPT ![b] = NewWizard]
    /\ Sections(b) /\ jobs' = Unheard(b)
    /\ UNCHANGED <<kitVars, userVars>>

(* [cancel] at the first step                                              *)
CancelWizard(b) == wizard[b].step = 1 /\ CloseWizard(b) /\ UNCHANGED mfa

(* [done] at the last: handleEnrollmentComplete                            *)
CompleteWizard(b) ==
    wizard[b].step = 3 /\ CloseWizard(b) /\ mfa' = [mfa EXCEPT ![b] = Checked(b)]

(* enableMfa writes what is left of earlier calls, enables and writes      *)
Settle(s) ==
    /\ Is(s, "enable", "settle")
    /\ LET b == jobs[s].browser
       IN  \/ Commits(b) /\ GoesOn(s, "enable", NoKey) /\ UNCHANGED <<mfa, wizard>>
           \/ CommitFails(b) /\ Ends(s) /\ EnableFailed(b, jobs[s].heard)
    /\ Mounts(jobs[s].browser)
    /\ UNCHANGED <<page, userVars>>

EnableMFA(s) ==
    /\ Is(s, "enable", "enable")
    /\ LET b == jobs[s].browser
       IN  \/ \E d, k \in Keys :
                 EnablesMFA(b, d, k) /\ GoesOn(s, "commit", k) /\ UNCHANGED <<mfa, wizard>>
           \/ Throws /\ Ends(s) /\ EnableFailed(b, jobs[s].heard)
    /\ Mounts(jobs[s].browser)
    /\ UNCHANGED <<page, userVars>>

CommitMFA(s) ==
    /\ Is(s, "enable", "commit")
    /\ LET b == jobs[s].browser
       IN  \/ /\ Commits(b)
              /\ mfa' = [mfa EXCEPT ![b] = [enabled |-> TRUE, count |-> Cardinality(kit[b].view)]]
              /\ wizard' = IF ~jobs[s].heard THEN wizard
                           ELSE [wizard EXCEPT ![b] = [@ EXCEPT !.phrase = jobs[s].key,
                                                                !.loading = FALSE]]
           \/ CommitFails(b) /\ EnableFailed(b, jobs[s].heard)
    /\ Ends(s) /\ Mounts(jobs[s].browser)
    /\ UNCHANGED <<page, userVars>>

-----------------------------------------------------------------------------
(* A new recovery phrase *)

SectionsShown(b) == page[b] = "security" /\ mfa[b].enabled

(* Mistake: any factor that is not in use is taken for the phrase's *)
RecoveryAnother(b) == kit[b].view \ {kit[b].active}

(* The factor regenerateRecoveryPhrase replaces                            *)
RecoveryFactor(b) == FactorsOf(b, "seed")

(* [regenerate], and yes to the question                                   *)
Regenerate(b) ==
    /\ SectionsShown(b) /\ section[b].active
    /\ section[b].phrase = NoKey /\ ~section[b].busy
    /\ section' = [section EXCEPT ![b].busy = TRUE]
    /\ renewed' = renewed \cup {k \in Keys : kind[k] = "seed"}
    /\ IF RecoveryFactor(b) = {} THEN Asks(b, "regenerate", "create", NoKey)
       ELSE \E k \in RecoveryFactor(b) : Asks(b, "regenerate", "delete", k)
    /\ UNCHANGED <<kitVars, mfa, page, wizard, list, noted, revoked>>

RegenerateFailed(b, heard) == section' = IF heard THEN [section EXCEPT ![b].busy = FALSE] ELSE section

DeleteRecovery(s) ==
    /\ Is(s, "regenerate", "delete")
    /\ LET b == jobs[s].browser
       IN  \/ Deletes(b, jobs[s].key) /\ GoesOn(s, "create", NoKey) /\ UNCHANGED section
           \/ Throws /\ Ends(s) /\ RegenerateFailed(b, jobs[s].heard)
    /\ UNCHANGED <<mfa, page, wizard, list, userVars>>

CreateRecovery(s) ==
    /\ Is(s, "regenerate", "create")
    /\ LET b == jobs[s].browser
       IN  \/ \E k \in Keys : Creates(b, k, "seed") /\ GoesOn(s, "commit", k) /\ UNCHANGED section
           \/ Throws /\ Ends(s) /\ RegenerateFailed(b, jobs[s].heard)
    /\ UNCHANGED <<mfa, page, wizard, list, userVars>>

CommitRecovery(s) ==
    /\ Is(s, "regenerate", "commit")
    /\ LET b == jobs[s].browser
       IN  \/ /\ Commits(b)
              /\ section' = IF ~jobs[s].heard THEN section
                            ELSE [section EXCEPT ![b] = [@ EXCEPT !.phrase = jobs[s].key,
                                                                  !.busy = FALSE]]
           \/ CommitFails(b) /\ RegenerateFailed(b, jobs[s].heard)
    /\ Ends(s)
    /\ UNCHANGED <<mfa, page, wizard, list, userVars>>

(* The new phrase is written down, [done]                                  *)
DismissPhrase(b) ==
    /\ SectionsShown(b) /\ section[b].phrase # NoKey
    /\ noted' = section[b].phrase
    /\ section' = [section EXCEPT ![b].phrase = NoKey]
    /\ UNCHANGED <<kitVars, mfa, page, wizard, list, jobs, renewed, revoked, asks>>

-----------------------------------------------------------------------------
(* Revoking a device *)

CanRevoke(b) == mfa[b].count > 2

(* [revoke] of an entry, and yes to the question; the browser's own is      *)
(* offered like the others when its factor has no device's name on it      *)
Revoke(b, f) ==
    /\ SectionsShown(b) /\ CanRevoke(b)
    /\ f \in list[b].devices /\ list[b].revoking = NoKey
    /\ list' = [list EXCEPT ![b].revoking = f]
    /\ revoked' = revoked \cup {f}
    /\ Asks(b, "revoke", "delete", f)
    /\ UNCHANGED <<kitVars, mfa, page, wizard, section, noted, renewed>>

DeleteDevice(s) ==
    /\ Is(s, "revoke", "delete")
    /\ LET b == jobs[s].browser
       IN  \/ Deletes(b, jobs[s].key) /\ GoesOn(s, "commit", jobs[s].key) /\ UNCHANGED list
           \/ /\ Throws /\ Ends(s)
              /\ list' = IF jobs[s].heard THEN [list EXCEPT ![b].revoking = NoKey] ELSE list
    /\ UNCHANGED <<mfa, page, wizard, section, userVars>>

CommitRevoked(s) ==
    /\ Is(s, "revoke", "commit")
    /\ LET b == jobs[s].browser
       IN  /\ Commits(b) \/ CommitFails(b)
           /\ list' = IF jobs[s].heard THEN [list EXCEPT ![b].revoking = NoKey] ELSE list
    /\ Ends(s)
    /\ UNCHANGED <<mfa, page, wizard, section, userVars>>

-----------------------------------------------------------------------------
(* Recovering with the phrase *)

(* The login page of a browser without a factor                            *)
RecoveryShown(b) == page[b] = "recovery"

(* handleRecover; a phrase that is not one of 24 words goes nowhere        *)
Recover(b) ==
    /\ RecoveryShown(b) /\ noted # NoKey
    /\ \A s \in Places : jobs[s].browser # b
    /\ Asks(b, "recover", "input", noted)
    /\ UNCHANGED <<kitVars, pageVars, noted, renewed, revoked>>

(* inputFactorKey; the login page then shows the form no more              *)
InputPhrase(s) ==
    /\ Is(s, "recover", "input")
    /\ LET b == jobs[s].browser
       IN  \/ /\ jobs[s].key \in kit[b].view
              /\ kit' = [kit EXCEPT ![b] = [@ EXCEPT !.status = "in", !.active = jobs[s].key]]
              /\ page' = [page EXCEPT ![b] = "login"]
              /\ GoesOn(s, "create", NoKey)
           \/ Ends(s) /\ UNCHANGED <<kit, page>>
    /\ UNCHANGED <<committed, version, kind, device, mfa, wizard, section, list, userVars>>

CreateDevice(s) ==
    /\ Is(s, "recover", "create")
    /\ \/ \E k \in Keys : Creates(jobs[s].browser, k, "device") /\ GoesOn(s, "keep", k)
       \/ Throws /\ Ends(s)
    /\ UNCHANGED <<pageVars, userVars>>

(* setDeviceFactor *)
KeepDevice(s) ==
    /\ Is(s, "recover", "keep")
    /\ \/ /\ device' = [device EXCEPT ![jobs[s].browser] = jobs[s].key]
          /\ GoesOn(s, "commit", jobs[s].key)
       \/ UNCHANGED device /\ Ends(s)
    /\ UNCHANGED <<committed, version, kind, kit, pageVars, userVars>>

(* With the new factor written the login goes on                           *)
CommitDevice(s) ==
    /\ Is(s, "recover", "commit")
    /\ LET b == jobs[s].browser
       IN  \/ Commits(b) /\ page' = [page EXCEPT ![b] = "files"]
              /\ mfa' = [mfa EXCEPT ![b] = Checked(b)]
           \/ CommitFails(b) /\ UNCHANGED <<mfa, page>>
    /\ Ends(s)
    /\ UNCHANGED <<wizard, section, list, userVars>>

-----------------------------------------------------------------------------

Step(s) ==
    \/ Settle(s) \/ EnableMFA(s) \/ CommitMFA(s)
    \/ DeleteRecovery(s) \/ CreateRecovery(s) \/ CommitRecovery(s)
    \/ DeleteDevice(s) \/ CommitRevoked(s)
    \/ InputPhrase(s) \/ CreateDevice(s) \/ KeepDevice(s) \/ CommitDevice(s)

FactorsNext ==
    \/ \E b \in Browsers :
           \/ Login(b) \/ ReloadPage(b) \/ Leave(b) \/ OpenTab(b) \/ LeaveTab(b)
           \/ OpenWizard(b) \/ GoToStep2(b) \/ Retry(b) \/ GoBackToStep1(b) \/ GoToStep3(b)
           \/ CancelWizard(b) \/ CompleteWizard(b)
           \/ Regenerate(b) \/ DismissPhrase(b) \/ (\E f \in Keys : Revoke(b, f))
           \/ Recover(b)
    \/ \E s \in Places : Step(s)

FactorsSpec == FactorsInit /\ [][FactorsNext]_factorsVars

-----------------------------------------------------------------------------
(* Properties *)

FactorsTypeOK ==
    /\ committed \subseteq Factor /\ version \in Nat
    /\ kind \in [Factor -> {"none", "hashed", "device", "seed"}]
    /\ kit \in [Browsers -> [status : {"out", "in", "required"}, view : SUBSET Factor, base : Nat,
                             active : Factor \cup {NoKey}]]
    /\ device \in [Browsers -> Factor \cup {NoKey}]
    /\ mfa \in [Browsers -> [enabled : BOOLEAN, count : Nat]]
    /\ page \in [Browsers -> {"login", "recovery", "files", "security", "wizard"}]
    /\ wizard \in [Browsers -> [step : 1..3, loading : BOOLEAN, error : BOOLEAN, partial : BOOLEAN,
                                phrase : Factor \cup {NoKey}]]
    /\ section \in [Browsers -> [active : BOOLEAN, busy : BOOLEAN, phrase : Factor \cup {NoKey}]]
    /\ list \in [Browsers -> [devices : SUBSET Factor, revoking : Factor \cup {NoKey}]]
    /\ jobs \in [Places -> [name : {"none", "enable", "regenerate", "revoke", "recover"},
                            at : {"none", "settle", "enable", "commit", "delete", "create", "input",
                                  "keep"},
                            browser : Browsers \cup {NoBrowser}, key : Factor \cup {NoKey},
                            heard : BOOLEAN]]
    /\ noted \in Factor \cup {NoKey} /\ renewed \subseteq Factor /\ revoked \subseteq Factor
    /\ asks \in Nat

(* The phrase the user has written down opens the account, whatever        *)
(* devices enable, revoke and recover, and whichever call fails, unless a  *)
(* new one was asked for since it was made.                                *)
PhraseWorks == noted # NoKey => noted \in committed \cup renewed

(* So does a phrase that a page shows to be written down.                  *)
ShownWritten ==
    \A b \in Browsers :
        {wizard[b].phrase, section[b].phrase} \subseteq {NoKey} \cup committed \cup renewed

(* A browser keeps its factor until the user chooses to revoke it.         *)
DeviceStays ==
    [][\A b \in Browsers :
          device[b] \in committed \ revoked /\ device'[b] = device[b]
          => device[b] \in committed']_factorsVars

(* What these rest on *)

Made(what) == {k \in Keys : kind[k] = what}

(* Nobody can write metadata that lack a factor, but for the account's own *)
(* and those the user has given up                                         *)
Excused == {Hashed} \cup renewed \cup revoked
KitsFit ==
    \A b \in Browsers :
        /\ kit[b].base <= version
        /\ page[b] # "login" => kit[b].status # "out"
        /\ kit[b].status # "out" /\ kit[b].base = version => committed \ Excused \subseteq kit[b].view

CallsFit ==
    \A s \in Places :
        LET job == jobs[s]
            b == job.browser
        IN  job # NoCall =>
                /\ b \in Browsers /\ kit[b].status # "out"
                /\ job.name = "regenerate" /\ job.at = "delete" => job.key \in renewed
                /\ job.name = "revoke" /\ job.at = "delete" => job.key \in revoked
                /\ job.name \in {"enable", "regenerate"} /\ job.at = "commit" =>
                       job.key \in Made("seed") /\ job.key \in kit[b].view \cup renewed
                /\ job.name = "recover" /\ job.at = "keep" => job.key \in Made("device")

ChosenFit ==
    /\ renewed \subseteq Made("seed") /\ revoked \subseteq Made("device")
    /\ \A b \in Browsers : /\ device[b] \in Made("device") \cup {NoKey}
                           /\ list[b].devices \subseteq Made("device")
                           /\ {wizard[b].phrase, section[b].phrase} \subseteq Made("seed") \cup {NoKey}
    /\ noted \in Made("seed") \cup {NoKey} /\ kind[Hashed] = "hashed"

FactorsInv ==
    FactorsTypeOK /\ KitsFit /\ CallsFit /\ ChosenFit /\ ShownWritten /\ PhraseWorks
=============================================================================
