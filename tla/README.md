# CipherBox: models, model checking and proofs

TLA+ modules for the protocols of CipherBox, the configurations that model-check
them with TLC, and theorems about them checked by TLAPS.  Paths below are
relative to the repository; `API`, `WEB` and `DESK` stand for `apps/api/src`,
`apps/web/src` and `apps/desktop/src-tauri/src`.

CipherBox stores encrypted files on IPFS.  Every folder, every file's metadata
and every user's device registry has an IPNS name of its own, whose record
points at the current encrypted metadata.  Browsers and desktops sign these
records; an API keeps a copy of what each name resolves to, forwards records to
delegated routing, and has a TEE worker re-sign them so that they do not expire
while their owner is away.  Nobody but the owner's devices can read a tree, so
nobody but they can repair one: what the clients publish, in which order and
under which numbers, is the state of the system.

## 1. The parts and how they interact

| Part | State it keeps | Operations | Modelled in |
|---|---|---|---|
| Publish pipeline, republish job (API/ipns, API/republish) | `folder_ipns`, `ipns_republish_schedule`, one running job | publish (single and batch), upsert, background enrolment, resolve with fallback, six-hourly re-signing, failure counting | IpnsRegistry, MetadataRegister |
| TEE key state and worker (API/tee, tee-worker) | `tee_key_state`: current and previous epoch | initialise at start, rotate, deprecate, decrypt with fallback, sign one above the stored number | IpnsRegistry (partly) |
| Device approval board (API/device-approval) | `device_approvals` | create, poll, list, respond (one transaction), cancel, five-minute TTL | ApprovalBoard |
| Device approval clients (WEB hook, waiting screen, modal) | refs and state of `useDeviceApproval`, its two intervals | request, poll, retry, cancel, unmount, approve or deny, turn a factor into a login | DeviceApproval |
| Accounts and sign-in methods (API/auth) | `users`, `auth_methods` | verify an identity, create an account, log in (placeholder resolution, safety net), link, unlink | Accounts |
| Folder tree in the browser (WEB useFolder, folder.service, useFolderNavigation, useSyncPolling, FileBrowser) | folder store per tab; the records | create, rename, move, delete (items and selections), add files, open a folder, poll the root, close the tab | WebFolders |
| Sessions (API token service and vault, WEB useAuth, client, auth store) | `refresh_tokens`, the vault row, the cookie, tokens and keys in each page's memory | sign in, restore a session, refresh once for many 401s, find or make the vault, sign out | Sessions |
| Desktop session (DESK/commands, state, tray, main.ts) | keychain, `AppState`, the drive, the tray | silent refresh, sign in, recovery, vault found or made, mount, logout | DesktopSession |
| Upload and quota (API/ipfs, API/vault, WEB upload) | pins, `pinned_cids`, the upload store and its modal's timers | check quota, pin, record, repeat, cancel, clean up, register with a folder | Uploads |
| A file's content and versions (WEB file-metadata.service, DetailsDialog) | the file's own record, its pinned contents | save, restore a version, delete a version | FileVersions |
| Shares and key rotation (API/shares, WEB share.service, ShareDialog) | `shares`, `share_keys`, the client's 30 s cache | create, add keys, revoke, hide, re-wrap after uploads, rotate a folder key | Shares |
| A recipient's view (WEB useSharedNavigation, SharedFileBrowser) | folder keys in memory, breadcrumbs | open a share, go down, up and back, download, leave | SharedView |
| Streaming worker and players (WEB decrypt-sw, useStreamingPreview, crypto CTR) | the worker's registry and cache | register, answer byte ranges, unregister, lose everything | Streaming |
| FUSE mount: folders (DESK/fuse) | inodes, index, publish queue, coordinator, `mutated_folders` | mount, lookup, readdir, create, mkdir, rename, unlink, rmdir, publish, refresh, unmount | MountFolders |
| FUSE mount: files (DESK/fuse) | one inode, handles, temp files, pending content, content cache, upload results | open, read, write, truncate, release, upload, drain, publish the file's record | MountFiles |
| Vault page (WEB FileBrowser, FileList, ContextMenu, dialogs, useFolderNavigation) | the folder store as shown, the URL's folder, selection, menu, dialog, drag, finger, operations asked | select, open the menu, choose, confirm, drag, press, navigate, load, poll | FileBrowser |
| E-mail codes (API email-otp.service, WEB EmailLoginForm, LinkedMethods) | three Redis keys of an address, the forms | send, verify, resend, go back, link | EmailCodes |
| Factors of the account's key (WEB useMfa, mfa/, RecoveryInput; Core Kit external) | Core Kit's metadata, a copy per browser, the device factor, the pages | enable MFA, regenerate the phrase, revoke a device, recover, log in, reload | Factors |
| Device registry (WEB, DESK/registry, crypto/registry) | one record per user, read and rewritten by every device | register, show, republish | Devices |

Not modelled: the pages other than the vault's and those of signing in, the
generated API client, cryptographic functions (a model treats a ciphertext as a
value that only its key opens; the counter arithmetic of AES-CTR ranges is the
exception, in Streaming), SIWE and Google tokens, the inside of the Core Kit SDK
(Factors models it from its use), health and metrics endpoints, test tooling,
the vendored FUSE library, the desktop's own copy of the device approval client,
and the preliminary proof of concept.  The desktop's sync daemon and write queue are
dead code: nothing starts the one or fills the other.  `PROJECT.json` lists
every component with its reason.

How they meet:

* A web or desktop client changes a folder by uploading metadata to IPFS,
  signing a record one above the number *it* knows, and calling `POST
  /ipns/publish`.  WebFolders is about which records the clients send;
  IpnsRegistry is about what becomes of one name's records at the API, in the
  schedule and on routing.  WebFolders takes a publish as one step; the
  difference is what IpnsRegistry's theorems bridge: an acknowledged name always
  resolves, and a finished publish is never undone.
* The republish job and the publish requests share two tables and no lock.
  `save(entity)` of TypeORM writes the whole copy read earlier.
* A device without the account's device factor signs in with a temporary login
  (Accounts), asks for approval (DeviceApproval over ApprovalBoard) and logs in
  again with the real key.
* The tabs and desktops of one user meet only in the records; the tabs of one
  browser also in its cookie, its local storage and its service worker.
* A desktop's mount is one thread for requests of the operating system and a
  thread for every upload, publish and refresh; results come back through
  channels that the request thread drains at its next call.
* Owner and recipient of a share meet in the API's rows; what a recipient can
  open is decided by which wrapped keys the owner's client remembered to add.

What is hard in this code: awaits between a read and a write everywhere, with
whole-row saves; two-publish operations whose halves fail separately; numbers
compared instead of contents; timers that go on after their screen is gone;
background promises nobody awaits; a job that runs for minutes over a snapshot;
tabs that close between two publishes; answers that arrive after the screen they
were meant for; threads whose results are applied after the state they were
computed from has gone; grace periods (30 s, 400 ms, 15 min) that hide races
until something is slow.

What makes each part correct:

* **Pipeline**: a publish takes effect once or never and is not undone by an
  older one that had finished before it began; what was acknowledged resolves;
  the outside world never shows what the database has not held; a row of the
  schedule is retried until it is active or declared stale.
* **Approval**: at most one decision on a request; a factor reaches a new device
  only from an approval; no ephemeral key outlives its screen; waiting ends.
* **Accounts**: a login with the derived key is answered with that account's
  tokens; an identity keeps its account; a user keeps a way to sign in; a key is
  never lost.
* **Folders**: an item nobody deleted stays reachable from the root whatever
  fails; an idle tab shows only what is published; no store is numbered ahead of
  the records.
* **Mount**: what was made here is published and stays, what was deleted here
  does not come back with a refresh, a read sees the last release, every content
  the inode or the record names opens with the key named beside it.
* **Contents**: what a record lists can be fetched; a version is neither lost
  nor left out; what was cancelled is not listed.
* **Shares**: a recipient can open every item of the folder; whoever may hold
  the folder's key stays known until it is changed.
* **Viewing**: key, children and breadcrumbs belong together; a range is
  answered with the right bytes; a key goes when its player goes.
* **Sessions**: a logout ends what it should; every page and device holds the
  keys of the one vault; a stored token works or has been replaced.
* **Devices**: a registered device stays listed, unless a publish that had not
  seen it takes it away.
* **Vault page**: what is selected is on the screen, and what a dialog asks is
  asked once.
* **E-mail codes**: a code that is accepted was neither used nor replaced when
  the attempt began; a code meets few attempts, an address gets few codes.
* **Factors**: the phrase on the user's paper opens the account; a device keeps
  its factor until it is revoked.

## 2. The modules

Constants and bounds are commented at their declarations; every definition that
stands for code is mapped to its lines in `PROJECT.json`.  A definition whose
comment begins with "Mistake" is not part of a specification: it is the form an
operator would have with a plausible bug, and is used to see that the properties
notice.

### IpnsRegistry, MetadataRegister

State: the two tables (`folder`, `sched`), `tee_key_state` (`tee`), the publish
requests in flight with the copies they read (`reqs`), the job with its snapshot
(`job`), what routing holds, whether the worker and routing answer, what the
client knows, and histories (`saved`, `before`, `acked`) for the properties. A
CID is the ordinal of the publish that uploaded it.

| Actions | Code |
|---|---|
| `Publish`, `SaveRow`, `SaveConflict`, `RoutePut`, `RequestDbError` | `publishRecord` / `publishBatch`: findOne and the decision; save; the unique constraint of two first publishes; the PUT; a refused statement |
| `EnrollFind`, `EnrollSave` | `enrollFolder`, started and not awaited by `upsertFolderIpns` |
| `JobStart`, `JobTeeState`, `JobSign`, `JobEntry`, `JobPut`, `JobSave`, `JobSaveError`, `JobSync`, `JobFail`, `JobFailError`, `JobEnd` | `processRepublishBatch` from await to await, with `handleEntryFailure` and `syncFolderIpnsSequence` |
| `CreateRootRow`, `Resolve`, `Restart`, `RotateEpoch`, `DeprecatePreviousEpoch` | `initializeVault`, the client's resolve, the API's restart (which kills requests and job and initialises the key state), the key state service |
| `Due`, `Outage`, `Recovery`, `RecordExpires` | time, the worker's and routing's availability, a record's validity |

`MetadataRegister` is the abstract promise: a register whose writes begin and
later take effect once or never.  `ImplementsRegister` maps its value to
`folder_ipns.latest_cid` (`INSTANCE ... WITH`).

`KeyPolicy` says when clients send the TEE key: "first" is what the clients do,
"any" is what the API accepts.  The races are checked under "any".

### ApprovalBoard, DeviceApproval

ApprovalBoard is the API with arbitrary callers: each handler is a call with one
step per await (`StatusFind`/`StatusExpire`, `CancelFind`/`CancelRemove`,
`CreateCount`/`CreateInsert`), `respond` holds its row's lock from `RespondFind`
to `RespondCommit`, `List` is one read, `CallFails` a lost call.  `BoardSpec` is
what the board promises whoever calls it.

DeviceApproval EXTENDS it with both clients: `Request`, `Created`, `PollTick`,
`Polled`, `Finish`, `Unmount`, `Cancelled` for the waiting screen and its hook,
`PollPending`, `Listed`, `Respond`, `Responded` for the modal of the other
devices.  A call slot is the promise together with the code that awaits it:
clearing an interval does not take back a poll under way.

### Accounts

State: `rows` (`users`), `methods` (`auth_methods`), requests in flight, the
identity JWTs clients hold, accounts with MFA, and histories of sessions and
unlinked methods.  A row's key is temporary, the placeholder
`pending-core-kit-{id}`, or the key Core Kit derives for the row.  Actions
follow the handlers: `Identify` → `CreateUser` → `RenamePlaceholder` →
`CreateMethod` or `Touch`; `LoginFind` → `LoginPlaceholder` → `LoginResolve` or
`LoginInsert` → `LoginAuthMethod` → `LoginAnyMethod` → `LoginSafetyNet` →
`LoginTokens`; `Link` → `LinkInsert`; `Unlink` → `UnlinkCommit` (the locked
transaction); `EnableMfa`; `CallFails`.  A statement that would break a UNIQUE
index fails with its request.

JWTs do not expire in the model (five minutes in the code), which only adds
behaviours.  Nonces, mailed codes and the test login are left out.

### WebFolders

State: `record`, what each folder's name resolves to; `filed`, the files whose
own record exists; per tab the folder `store`, the operations (`flows`), the
root `poll` and the `loads` under way, and whether the first sync is done.

An operation is one action that reads the store as the handler does and fixes
everything it will do: the records it publishes, in order, under the numbers it
read plus one (`plan`), and what it will write back (`after`, with the folders
whose children, number or whole node are written, and the nodes removed).
`Create`, `Rename`, `Move`, `MoveItems`, `Delete`, `DeleteItems` and `AddFiles`
differ in these.  Then `Publish` sends a record, `Answered` goes on to the next
or finishes, `PublishFails` and `AnswerLost` end the operation with the store as
it was.  Opening a folder is `NavigateLoad` (the placeholder), `LoadResolve`,
`LoadRetry`, `LoadDone`, `LoadDropped`, `LoadFails`, with `wanted` for
`latestNavTarget`; the poll is `PollStart`, `PollUpToDate` or `PollNews`,
`PollApply`, `PollFails`; `Close` forgets the tab's memory.

Abstractions: signing and acceptance are one step; a lower number than the
record's is acknowledged and ignored, an equal one replaces the record (the
later expiry wins); keys and encryption are left out except that a placeholder
without keys cannot publish; names matter only for collisions; a file is its
entry and the existence of its record.

`Careful` is an assumption about users, not about code: one operation, load or
poll of a tab at a time, edits only after the first sync and in folders the tab
finds listed.  The interface does not enforce it; section 6 says what happens
without it.

### MountFolders

The folders of one mounted vault.  State: `inode` and `index` as in
`fuse/inode.rs`, the publish queue, the publishing threads with the stage of
each (waiting for the name's lock, locked with its number, sent), the
coordinator's number cache, refreshes asked for and fetched, `mutated` for the
30-second cooldown, and `record`, what each name resolves to.  `Session` mounts
and unmounts; `Reading` is lookup and readdir with the refreshes they start and
drain; `Changing` is create, mkdir, write, rename, unlink and rmdir, each with
its trailing queueing or publishing; `PublishingSteps` are the threads;
`Elsewhere` is another device.  `rushed` is set when something is not given the
time the code counts on, and the properties are about behaviours without it: a
cooldown ends before the folder's publish and refreshes do; a folder is published
while a publish of it is under way, or before it was ever fetched; a queued folder
is gone when its turn comes; a publish goes out with a number that is no longer
the latest, fails or loses its answer; the process ends with changes unpublished;
a refresh brings a name under which the table has another entry.

The vault that is mounted has every entry in one folder and no name twice in a
folder (`VaultAssumption`): every operation here and in the browser that runs to
its end keeps this.  A move that another device left half-way would break it: the
entry is in two folders, and an unlink of one leaves the other.

### MountFiles

One file: its inode, two handles, the text they hold, uploads, the record.
`Calls` are open, read, write, truncate and release; `Background` are the upload
threads, the drain of their results, prefetches and the publish of the file's
record; `Mounting` creates, unmounts and mounts again.  A text is the handle
that wrote it and how often; a CID is an ordinal, `text` says what was encrypted
under it and with which key.

### Uploads, FileVersions

Uploads follows a batch from `handleFileDrop` through the quota check, the
requests one file after the other (`Check`, `Pin`, `Record` on the server; an
attempt may be repeated while the first one still runs; the encryption and the
last reading of the quota, `EncryptFails` and `Settles`, may fail too), the
registration with the folder and the clean-up of what could not be registered,
with the store's cancel token and the modal's two timers.  `uploadHistory` names
what excuses a loss.

FileVersions is one file's own record with two dialogs: `Show`, `Save`,
`Confirm` (a restore or a delete by the index of the list shown), then
`Read...`, `Resolve` and `Publish` with the pruning and the unpinning that
follow it.

### Shares, SharedView, Streaming

Shares has the rows and their keys, the owner's tabs with the cache of sent
shares, dialogs that create a share, jobs that re-wrap an item's key for the
recipients, and rotations.  `revokeShare`, `hideShare` and
`updateShareEncryptedKey` are two steps, `Finds` and `Written`, because they
save the row found earlier; `createShare` is three (`CreateCheck`, `CreateClean`,
`CreateSave`). A rotation whose update of one row fails goes on with the other
rows and is then given up (`failed`). `Rotates` says whether clients rotate at all: the
code for it is there and complete, and nothing calls it.

SharedView is the recipient's browser: `key`, `children`, `crumbs`, `stack` and
the one navigation in flight, with keys as buffers that are overwritten when the
hook zeroes them.

Streaming has players in any number of tabs and the one worker they share.  The
byte ranges are operators (`Start`, `End`, `DecryptRange`, `Answer`), compared
for every range in `RangesRight` with `Named`, the bytes a range means.

### Sessions, DesktopSession, Devices

Sessions: the browser's cookie and stored Core Kit session, pages with one or
more instances of `useAuth` (`Hooks`), the requests for new tokens each has in
flight (`RefreshFinds`, `RefreshRotates` are the API's two accesses), the
interceptor's shared promise, and the load of the vault after a sign-in.

DesktopSession: `AppState`, keychain, drive, tray and login window; `cmd` holds
the commands in flight, with one action per await of `handle_auth_complete`, the
silent refresh, the mount and the logout; `other` is a second device of the same
user that may make or fill the vault.

Devices: the registry's record on routing, the API's saved copy, the copy the
republishing job signs, and one registration per device (`Begin`, `Read` or
`ReadSaved` or `ReadFails`, `Publish`, `Answered`), plus `Sync` and `SignOut` of
browsers.  Two history variables follow what nothing in the code prevents:
`missed`, whose publish a device about to publish has not seen (all of them after
a read that failed), and `atRisk`, the devices whose entry a publish of such a
device, the job's list or a lower number of their own may have taken away.

### FileBrowser, EmailCodes, Factors

FileBrowser is the page over the folder store.  `Selecting` is the clicks, the
keys and the touches with the context menu; `Commanding` what a menu, a toolbar
or a dialog does up to its question; `Operating` an operation that is confirmed,
answered or failed, editing the store from the list it read when it was asked;
`Dragging` the drags; `Navigating` breadcrumbs, Back, opening a folder and what
its load does; `News` an item that a poll or an upload adds or takes.  `Prune` is
the effect that drops from the selection what is not listed any more.  What an
operation publishes is WebFolders'; here it succeeds or fails.

EmailCodes is the service's three keys for one address (`code`, `tries`, `rate`)
with one action for each command to Redis: `CheckRate` ... `Mail` for a code that
is asked for, `CheckTries` ... `Accepted` for one that is entered, and the keys'
expiries.  `BreaksOff` is a process or connection lost between two commands,
`AnswerLost` an answer nobody gets.  The forms of the login page and of linking
say which calls can be made.  `crossed` is set when a call to send meets one to
verify, or a call breaks off: the limits are then off by what the one had still
to do, and the bounds are about the rest.

Factors has the metadata that are written (`committed`, `version`), and each
browser's copy of it in `kit`, with that browser's changes that no
`commitChanges` has written; a commit of changes to other metadata than those
written last is refused.  `jobs` are the calls of `useMfa` and of the recovery
under way, one action per await, each of which may throw, and `CommitFails` may
have written all the same.  A call goes on when its page has gone; `heard` says
whether anybody takes its answer.  `Mounts` is the list of devices read once, when
its section appears because MFA came on under an open security tab.  `renewed` and `revoked` are what the user has
given up: the phrases there were when a new one was asked for, and the factors
chosen to be revoked.

## 3. What is checked

Times are for two workers.  "Violation" runs state what a comment of the code
says and TLC finds a behaviour in which it is not so.

| Run | Instance | Shows |
|---|---|---|
| registry_races | one name, a root, two requests, any key policy, 2 publishes, with a restart, an outage and a refused statement, or a key rotation, or the root's row made first (1.4 M states) | `DatabaseNotOvertaken`, `AckedResolvable`, `ImplementsRegister` |
| live | two names, two rows falling due, up to two of an outage, a restart and a refused statement, fair; one name, three epochs, the same mishaps, fair; one approval request, two devices, a lost call, fair (0.30 M) | `DueRowsServed`, `EpochNeverDowngraded`; `WaitingEnds` |
| registry_stale_cid | violation | `ScheduleNotOvertaken`: the schedule's CID is not "the most recent" |
| approval_safe | a waiting device and two that respond to its request, or one and a second request (so one retry); two handlers at a time, a lost call (3.0 M) | `OneDecision`, `RowMatchesDecision`, `FactorNeedsApproval` |
| accounts_safe | an address and a wallet, three rows, two requests at a time (1.0 M) | `KeyedSessionIsAccount`, `LastMethodKept`, `OneAccountPerIdentity` |
| folders_safe | one careful tab, a root, two folders, a file, two names, numbers up to 2, a failure, a closing (1.5 M) | `NumbersNotAhead`, `NothingLost`, `ShownIsSaved`, `OnlyDeletesUnlist` |
| mount_safe | a root and a folder, two files and two names, one refresh at a time, one mishap or change elsewhere; a file with two handles, four uploads, two versions, one mishap (1.2 M) | `DeletedStays`, `LocalReachesVault`; `ReadsLatest`, `KeptReadable` |
| mount_new_file | violation | `ReleasedIsPublished`: a new file's record is never published |
| sharing | one tab, two recipients, one item, two shares, a rotation, a loss; a recipient's two shared folders; two dialogs on a file with two versions; two players of two files with a cache of one, two mishaps (1.6 M) | `Covered`, `HoldersListed`; `PathMatches`; `VersionsReadable`, `VersionsKept`; `RangesRight` |
| clients | two pages of one browser, three tokens; a desktop, two commands at a time, beside another device; a browser and two desktops; two batches of three files (2.6 M) | `LogoutEndsSessions`, `KeysAreTheVaults`; `KeychainWorks`, `NothingLeft`, `ContentStays`; `DevicesKept`; `ListedReadable`, `CancelHeeded` |
| pages | three folders and a file, two operations, a news item, two navigations, four of these five in one behaviour; two calls at a time about an address, four about one code or three about several, limits of one; two browsers, four keys, three calls, two at a time (0.65 M) | `SelectionShown`, `ConfirmedOnce`; `AttemptsBounded`, `AcceptedIsLive`; `PhraseWorks`, `DeviceStays` |
| devices_unlisted | violation | `SignedInListed`: the second browser of a user is never listed |

In live, mount_safe, sharing, clients, pages and devices_unlisted several modules that share
no state are checked side by side: a variable `subject`, chosen in the initial
state, says which of them a behaviour is about, and the others keep their
initial state.  That is the same as a run for each (the state graphs are
disjoint), and keeps one run for each area. The `Unhurried` and `Undisturbed`
constraints do not explore past a step after which every property of that module
is excused; the properties themselves also name the excuse.

Why the bounds are enough for the cases meant:

* *registry*: two requests overlap at each of their awaits, one may fail, and
  the job overlaps both; `MaxFailures` 2 instead of 10 reaches "stale"; a
  tick lets a row fall due, and a failure lets it fall due again; two epochs let
  a row be a rotation behind.  A second name adds only another copy
  of the same tables, except to the batch and the job's loop: in live two names
  without a root's row both enrol and fall due in one batch, which an outage, a
  restart or a refused save may cut at any step, two of them in one behaviour.
  Its other look at the registry takes one name through three epochs, so that a
  row can be two rotations behind, before, during and after a job.  A rotation,
  and a root's row made first, are explored apart from outages and restarts (`Eventful`).  Also explored once: a root's row made
  first with those besides (2.9 M states).
* *approval*: two requests make one retry, the shortest history in which an
  answer can be late for its request; two handlers are the fewest that race; the
  board's limit is 1, so that a retry while the first request is still pending
  is refused.  The modals of two devices contend for the lock of one request's
  row; with a retry only one of them is active (`RetryOrRivals`).  More
  devices and calls are the theorems'.
* *accounts*: three rows suffice for an account, a phantom and a second account;
  an address and a wallet differ in how login finds them.  `MCAccounts` also has
  the constants for a Google account with its address.
* *folders*: two folders below the root are the fewest that can be nested, moved
  into each other and left in two places; `MaxSeq` 2 lets each folder be
  published twice, so that a stale number meets a newer one.  `MaxDepth` 4 is
  above what three folders reach: a limit that refused anything here would
  refuse every nesting, and no property rests on the limit.  One failure and one
  closing hit every publish of every operation, the halves of moves and batches
  among them.

* *mount*: a root and a folder are the fewest with which an entry moves between
  records; a second name makes a replacement and a collision, `Cut` (names of
  which one is the other's suffix) the lookup of a truncated name.  Four uploads
  let both handles release twice; two versions make the third save prune one.
* *sharing*: two recipients are needed for a revoked and an active share at a
  time, `Deep` puts the item below a subfolder.  Also explored once, with the
  same result: three shares (1.8 M states).  Two players and a cache of one meet
  at every step of a fetch; sizes of one and a half blocks, and of more than a
  chunk, hit every boundary that `DecryptRange` cuts at (16 bytes and 1 MiB in
  the code, 2 and 4 here).
* *clients*: three tokens allow a sign-in and two exchanges, so one token
  exchanged twice.  Also explored once: four tokens (7.6 M), the desktop with
  four tokens and two failures (3.6 M), two browsers and two desktops (0.9 M),
  uploads with two mishaps (9.9 M).  All properties held.

* *pages*: two operations are the fewest of which the first one's end could hide
  the second; a folder below the one on the screen lets a load find a parent
  that has moved.  Limits of one are reached by the first call and passed by the
  second; four calls let three compare one code.  Four calls about any codes were
  explored once (1.1 M states), and so were four of the page's five steps (0.27 M),
  with the same result.  Two browsers and four keys let one enable MFA and the other recover,
  or one regenerate the phrase while the other holds metadata from before; a
  third call beside a waiting one makes the refused commits.

The type invariants are theorems (section 4), and so are `NothingAheadOfDatabase`,
`NoKeyAfterUnmount`, `KeyNeverLost`, `MadeStays`, `KeysForgotten`,
`SettledIsPublished`, `NoOrphans`, `QuotaWithin`, `AuthedHoldsKeys` and
`KeysCleared`.  These, and `RetryingIsSettled`, `TreeConsistent`, `NumbersFresh`,
`MediaTypeOK`, `CookieWorks` and `SignedOutStays`, hold on the same instances
when they are added to the runs, which leave them out to stay short.  The
invariants the proofs use were also checked by TLC first, on the instances of
the runs.

Deadlock is not checked: publishes, requests and edits are bounded, and a user
may simply stop.

Fairness. The run *live* has the registry and the approval side by side, and
schedules fairly the one its `subject` names. The registry (`Progress`): the job's steps, the
timer that makes a row due, a request's next await and the recovery of the
worker and routing are each weakly fair: the code awaits nothing else, BullMQ
repeats the job, and the property is about an outage that ends. Publishing,
restarts and rotations are not fair. The approval: the handlers and the code after an await are weakly fair, time passes, and the polling
interval is strongly fair, because a timer fires every three seconds however
busy the slots are; `CallFails` is not fair and is bounded. No user action is
fair: `WaitingEnds` holds if nobody ever answers.

## 4. What is proved

The theorems hold for all values of the constants that satisfy the named
assumptions, which TLC evaluates in the runs.

**IpnsRegistry_proofs**: `TypeCorrect`, `StatusCorrect`, `DatabaseRegular`,
`FallbackAlwaysThere`, `DatabaseFirst` prove `TypeOK`, `StatusMatchesFailures`,
`DatabaseNotOvertaken`, `AckedResolvable`, `NothingAheadOfDatabase`;
`RegisterImplemented` proves `Spec => ImplementsRegister`.  The invariant adds
to the properties what the requests and the job carry: the copies a request
holds are copies of rows (`CopiesConsistent`), a request publishes what its
client began (`RequestsOwnPublishes`), the job's snapshot was in the schedule
and names saved metadata (`SnapshotsSaved`), histories are ordered
(`HistoryOrdered`) and a saved name has a row (`SavedHasRow`).
`DatabaseNotOvertaken` alone is not inductive: nothing in it says that a request
still to save has begun after what it would overwrite.

**DeviceApproval_proofs**: `OnlyOneDecision` and
`RowsMatchDecisions` for any callers of the board; `ClientsImplementBoard`
(`Spec => BoardSpec`) carries them over to the composition as
`ApprovalDecidedOnce` and `ApprovalRowsMatch`; `FactorsApproved`, `KeysGone` and
`ApprovalTypeCorrect` are about the clients.  The invariant: a `respond` past
its checks holds the lock of a row that is still pending (`RespondHoldsLock`);
the copies of the handlers without a lock are of the row as it was before its
decision, so what they save is known (`StaleCopies`); a creation is the only one
of its request.

**Accounts_proofs**: `AccountKeyed`, `KeysKept`, `WaysToSignIn`,
`IdentitiesKept`, `AccountsTypeCorrect`.  A row only ever advances, from its
temporary key to its placeholder to its real key, so what a request learnt of a
row stays true while it waits; `AccountsInv` states for every await what its
request knows, that JWTs name the owner of their method, and that an unlink
holds the lock under which it counted.

**WebFolders_proofs**: `NumbersNeverAhead` and `FoldersTypeCorrect`, for any
number of tabs and users careful or not, with failures and lost answers.  The
invariant says of an operation that what it has published is not above the
records, that a number it will give the store is one it publishes, and that a
node it will give the store is not above the records (`FlowOK`), and the same of
what polls and loads have fetched.

`WhatIsShownIsSaved`, `OnlyDeletionsUnlist` and `KeptStaysListed` are proved
under `OneCarefulTab` - one tab, whose user waits, and no publish whose answer
is lost - which is the setting of `folders_safe`: section 6 has what happens
outside it.  Failures, closes and the shape and size of the tree are free.  The
invariant `CarefulInv`: an operation is alone, and a poll or load under way has
what is published by then (`TurnsFit`); a folder the tab may edit is at most one
publication behind (`NumbersFit`); what a folder shows is published, unless an
operation has just published the folder it takes something off (`SavedFits`);
each record of a plan is a legal successor of what is published now
(`PubFits`), and the nodes the operation will give the store agree with it
(`EditedFits`, `PlacedFits`); and every item that is kept is in some record
that, if the tab may edit that folder, the store lists it for too (`KeptFits`).
This last part is why nothing is lost when a move stops half-way: the tab, whose
number is then one behind, lists the item where the network has it no longer or
also, and whoever edits either folder puts it back.  `KeptIsListed` is
`NothingLost` without the way from the root to the listing folder: interrupted
moves can leave two parents and later moves a cycle, so a proof that the way
exists needs an argument on paths of the tree, which is not made.

**Mount_proofs**: about MountFolders, `FoldersTypeCorrect` and `MadeFilesStay`
(`MadeStays`).  The invariant `MountInv`: every inode is of the kind of the IPNS
name it stands for; numbers not given out are free, and no name leads to one or
from a folder to itself; the table is empty until it is mounted; what a refresh
has fetched and a publish will send names known ids.  The lemma the steps share
is that merging a fetched listing into a table keeps all this and takes no name
away (`PopulateFits`).

`DeletedDoesNotReturn` and `TableReachesVault` are `DeletedStays` and
`LocalReachesVault`, for any number of folders, inodes, refreshes and publishes.
While nothing was rushed `TimelyFits` holds.  The table and the index say the
same and no id has two inodes (`TableFits`).  An id is *claimed* by a folder when
the table shows it there or a refresh may still put it there: from the record,
while no snapshot of the folder is under way, or from an answer not yet merged,
while the folder is not in its cooldown.  Nothing claimed was deleted here, and
no id is claimed in two places or under two names (`ClaimsFit`): so whatever
listing a merge takes, it finds what it lists where the table has it.  For the
other property `SavedFits` says of every entry shown that it is in the record or
in a snapshot under way, and in every snapshot of its folder under way, unless
its file is open or its folder queued; `LoadedFits`, that a folder that was
fetched shows all a refresh may bring.  The lemmas the steps share are that a
merge only adds (`PopulateGrows`, `GrowsTimely`), that a flush publishes what
the table shows (`PublishesKeeps`), and that a move, a replacement and a
deletion take every claim on the entry with them (`MovesTimely`).

About MountFiles, `LatestIsRead` and `KeptStaysReadable`
(`ReadsLatest`, `KeptReadable`), with `FilesTypeCorrect` and
`SettledFilesArePublished`.  Until a release has overtaken the one before
(`hurried`), the invariant `FilesInv` is: at most one upload is under way, and
it is of the newest content (`UploadFits`); until its result is drained the inode
has no CID and its text is pending (`TextFits`); and the record is at most that
one release behind the inode (`RecordFits`).

**Sharing_proofs**.  Shares: `SharesTypeCorrect`, `ItemsCovered` (`Covered`),
`KeyHoldersListed` (`HoldersListed`) and `ActiveSharesHaveTheKey`.  `Covered`
speaks of items no call is under way for; `CoveredInv` says of every active
share and every published item that the key is there, the gap is recorded, or
the item's job has still to look for shares or to serve this one.  For the
holders, `CallsFit` and `RotationFits` say which rows a share call or a rotation
under way has still to reach.

SharedView: `TrailsMatch` (`PathMatches`), `KeysAreCleared` and
`ViewTypeCorrect`: unless an answer has overtaken a step up or back, every key
that is live is the folder's on screen or on the stack.

Streaming: `KeysDoNotStay` (`KeysForgotten`), `StreamsHaveKeys`, and
`RangesAreRight` (`RangesRight`), for files and blocks of every size: by lemmas
on quotients and remainders the counter the worker starts from is the one the
block was encrypted with (`CountersAgree`), what it decrypts is the part of the
file (`RangeDecrypted`), and the range it cuts out is the one asked for
(`AnswerRight`).  The cache has the bytes of one version only while no player
was crossed (`CacheFits`), and `PairsNoted` says that two dialogs on one file
have been noted in `crossed`.

FileVersions: `ListedVersionsReadable` (`VersionsReadable`), `OldContentsKept`
(`VersionsKept`) and `VersionsTypeCorrect`.  Until two operations have raced, at
most one is under way, all contents the record names are kept, and what an
operation unpins is named neither by the record it read nor by the one it
publishes.

**Clients_proofs**.  Sessions: `SessionsTypeCorrect`, `LogoutEnds`,
`TokenHasOneSuccessor` and `KeysAgree` prove `SessionsTypeOK`,
`LogoutEndsSessions`, `OneSuccessor` and `KeysAreTheVaults`, for any number of
pages, hooks and tokens.  For tokens (`TokensInv`): a token is newer than its
parent, one that has a successor is revoked, and live tokens are newer than the
last logout's (`Lineage`); a refresh that has found its token and not yet
exchanged it found one newer than the last logout it saw, which no other refresh
has found or exchanged unless the token is in `twins` (`FoundIsTold`).  For
keys: while an instance of `useAuth` waits for the answer to a vault it made,
the row holds its key (`MadeIsVault`).

Desktop session: `KeychainTokenWorks` (`KeychainWorks`), `LogoutLeavesNothing`
(`NothingLeft`), `VaultContentStays` (`ContentStays`), `AuthedDesktopHoldsKeys`
and `DesktopTypeCorrect`.  The three invariants hold until a second window or a
logout has crossed a command under way; then `UncrossedFits` says nothing, and
`TokensFit`, `UserFits`, `WorkFits` and `RootFits` are what remains true.

Devices: `DevicesTypeCorrect`, `AuthorizedAlone` and `ListKeepsDevices`
(`DevicesKept`), with any number of registrations under way, failing and reading
what the API saved, and with the job signing in between.  A device is to be
listed from its publish on until it is put at risk (`Assured`): both lists have
it, and so has what any device is about to publish that has not missed it
(`Carried`).  Nothing is routed, saved or signed before there is a list with a
first device (`Founding`).

Uploads: `ListedFilesPinned` (`ListedReadable`), `CancelsAreHeeded`
(`CancelHeeded`), `NoOrphansStay`, `QuotaIsKept` and `UploadsTypeCorrect`.  The
invariant follows a file from its encryption to its pin, its listing and its
clean-up (`TriesFit`, `SavedFits`, `ListFits`); that quota holds between a check
and the row it allows is true of one request at a time (`QuotaFits`).

**Pages_proofs**.  EmailCodes: `AcceptedCodesLive` (`AcceptedIsLive`),
`AttemptsAreBounded` (`AttemptsBounded`), `CountersDoExpire` and
`CodesTypeCorrect`, for any limits, handlers and forms.  Codes are numbered: the
stored one is newer than all that are over, and a call that has read it began
before it was (`LiveFits`).  The bounds follow from counting calls by their
stage: until calls of both kinds have met, the counter of tries is at least the
guesses made and those that calls past the check will make (`TriesFit`), and the
counter of sends at least the codes stored but for those about to be counted
(`SendsFit`); the lemmas say how such a count changes when one call goes from a
stage to another.

FileBrowser: `SelectionStaysShown` (`SelectionShown`) and `AskedOnce`
(`ConfirmedOnce`), with `BrowserInvariant`, for any tree and any number of slots.
`SelectionShown` alone is not inductive: a row may go while a finger rests on it,
and `PressFits` says that all else that had gone has then left the selection.

Factors: `PhraseStillWorks` (`PhraseWorks`), `DevicesStay` (`DeviceStays`) and
`FactorsInvariant`, for any number of browsers, calls and keys.  The core is
`KitsFit`: a browser whose metadata are of the version written last, the only
one that may write, has every factor that is written and that nobody has given
up.  Every step is shown to be `Sound`: no factor leaves the metadata but the
account's first one, a phrase that was to be renewed and a device that was to be
revoked.  That a phrase works when it is shown needs in addition that the call
that made it keeps it in its browser's metadata until they are written
(`CallsFit`, `Relied`), and that keys never change what they were made for.

Left to TLC: the liveness properties (TLAPS has no ENABLED);
`EpochNeverDowngraded` (true only while clients send the key once);
`NothingLost`, for the way from the root.

## 5. Where code and words disagree

Each is a violation run and an entry of `findings`.

* *The schedule's CID is the first, not the latest* (registry_stale_cid).  Only
  a publish that carries the TEE key reaches `enrollFolder`; clients send it
  once.
* *A file created in the mount is not published* (mount_new_file).  Its record's
  number is resolved first, a new name resolves to nothing, and
  `resolve_sequence` has no answer for that but an error, which `release` logs.
* *A second browser is never listed* (devices_unlisted).  Every entry the
  program writes fails the validation that every browser's read applies to the
  list.

## 6. Known behaviours no property forbids

The models have these; they are described so that nobody takes a passing run for
their absence.

* Pipeline: the job writes its own number over `folder_ipns.sequence_number`,
  which can go down (API/republish/republish.service.ts:425).  Its whole-row
  save undoes an enrolment made meanwhile (:163).  `reactivateStaleEntries` has
  no caller, so a stale row is only revived by a new enrolment.  The TEE key
  state is initialised when the API starts and at no other time: a worker that
  was down then is not used before the next restart (API/tee/tee.service.ts:140,
  whose comment expects a retry). `rotateEpoch`, `deprecatePreviousEpoch` and
  `isGracePeriodActive` have no caller in production code either; the model lets
  them happen at any time.
* Approval: creations that run together exceed the limit of pending requests
  (API/device-approval/device-approval.service.ts:26); `respond` to an expired
  request saves "expired" in a transaction that its own exception rolls back, so
  the row stays pending until polled (:137); `getStatus` may turn an approval
  into "expired" (:75); a screen left while its request is being created leaves
  the interval running (WEB/hooks/useDeviceApproval.ts:239); two polls answered
  together can make two factors from one approval; a poll that was sent before a
  retry and answered after it stops the new request's interval and clears its
  key (:178), so that the retry waits without asking.
* Accounts: a Google account that signs in to one account can be linked to
  another, because the identity service hashes its `sub` and linking hashes its
  address (API/auth/auth.service.ts:315); an unlinked method is inserted again
  by a login that was saving `lastUsedAt`; failed first sign-ins leave rows
  behind; the temporary login of a new device with MFA inserts a second row
  (:72), and the session it answers with, and the requests made under it, belong
  to that row and not to the account; by e-mail it fails when the safety net
  meets the unique index, and where it does not, the phantom row gets the
  address and a later login by e-mail names the phantom.
* Folders: when the answer of a move's second publish is lost, the store keeps
  the number before the move, and the next edit of the destination replaces the
  record that lists the item (WEB/services/folder.service.ts:735; folders_safe
  has no lost answers: `MaxLostAnswers` 0).  Equal numbers are taken for equal
  contents (WEB/components/file-browser/FileBrowser.tsx:276), which two tabs
  that publish the same number contradict.  A batch of files may be listed with
  some of their own records unpublished (folder.service.ts:631). Without care:
  an edit published while the root is polled is taken back by the poll (the
  tab's own publish counts as news, because create, rename, move and delete
  leave the number in the store as it was); an edit made before the first sync
  publishes a root that holds only it; a second load of a folder overwrites what
  was edited since.  With care too: after an interrupted move an item is in two
  folders, and since the ancestor check follows one parent only, a later move
  can then make a cycle, on which `calculateSubtreeDepth` and the collecting
  walks do not return (`Unending` keeps the model from taking such a step);
  folders other than the root are never refreshed; the depth check counts loaded
  folders only (:693); nodes below a deleted folder stay in the store.
* Mount, folders: a root that cannot be fetched at mount is shown empty, and the
  first publish replaces its record; a file created in a folder that is still
  being fetched publishes the folder without its entries, since the caller's
  retry that DESK/fuse/operations.rs:591 counts on does not come before a
  create; `mkdir` does not note its parent as changed, so that a refresh under
  way takes the new folder off again; `rmdir` of a folder not loaded yet takes
  it for empty; a file and a folder that swap names keep each other's inode; the
  publish queue is flushed only by lookup, getattr and release; a logout leaves
  the old mount's threads running.
* Mount, files: what is overwritten within 15 minutes of the last version is
  neither kept as a version nor unpinned (DESK/fuse/mod.rs, near 586); the first
  of two overlapping releases stores its CID beside the second's key; a read
  handle's own copy can be older than what another handle has shown; a pointer
  once resolved is not resolved again; one that is not resolved yet reads as an
  empty file and, opened for writing, starts empty (operations.rs:1052, :1084);
  pruned versions are unpinned before the record without them is published; an
  unmount removes the temporary files before it unmounts.
* Sessions: each instance of `useAuth` on a page restores the session by itself,
  so a reload sends up to six refreshes with one cookie; whichever loses logs
  Core Kit out while the winner's token stays (WEB/hooks/useAuth.ts:473).  A
  refresh that fails for the interceptor clears the stores and not Core Kit, and
  the restore begins again.  A login that needs a share sets the access token,
  which makes the login page navigate away from its recovery form; what the
  approval hook needs to complete it is in another instance of `useAuth`.  A
  login that fails after its token is stored leaves the tab signed in without
  keys.  A vault answer that arrives after a logout sets the root folder key
  again.  Access tokens outlive a logout by up to 15 minutes.  The generated
  client and `ipfs.ts` do not refresh on 401.
* Desktop session: a login window opened while another one still initialises
  sends a second refresh with the same token; the loser deletes the winner's
  token from the keychain (DESK/commands.rs:374) and, as "stale", logs out with
  the winner's access token, which ends the user's sessions on all devices; so
  does a restore that fails after a refresh that did not.  There is no refresh
  on 401: a logout after 15 minutes leaves its refresh tokens live.  A setup or
  a mount that fails leaves the tray with both Login and Logout disabled.  The
  tray's logout does not log Core Kit out.  A logout that crosses a sign-in
  leaves keys in memory and the drive mounted, though state.rs:27 says they are
  zeroed.  After a failed recovery the share form answers "Not in REQUIRED_SHARE
  state" for good.  A new vault's empty record can overwrite what another device
  saved in between.  Mounting clears the mount point (DESK/fuse/mod.rs:822),
  through a drive that outlived a logout if there is one.
* Devices: a browser registers only the first device of a user, and nothing
  updates the list it shows; a desktop takes any error for "No registry exists
  yet (first device)" (DESK/registry/mod.rs:48) and replaces the list with one
  of itself; the republishing job signs the list of the browser's first publish
  with growing numbers, so that later entries of desktops are replaced after
  some hours; keychain errors make new device ids; nothing authorizes or revokes
  a device.
* Uploads: a batch that fails or is cancelled part-way leaves its earlier files
  pinned and counted; `recordUnpin` has no caller, so quota is never freed; the
  stored size may exceed the checked one, and checks that overlap may exceed the
  quota together (`QuotaWithin`); a registration whose answer is lost is cleaned
  up although its files are listed; an attempt given up by the client may pin
  after the clean-up, or undo what its repetition registered; the modal's 400 ms
  timer can reset the store under a new upload, after which Cancel does nothing;
  Cancel stops the newest of two batches only; a modal that two stopped batches
  have left at "encrypting" offers a Cancel that a third drop, still asking for
  the quota, does not notice.
* Versions: `updateFileMetadata` leaves the encryption mode as it was; what is
  overwritten during the cooldown is neither kept as a version nor unpinned; two
  operations that overlap can lose a version
  (WEB/services/file-metadata.service.ts:313), and an equal number is accepted;
  a restore or delete is by index, so that a list shown before another operation
  names another version (WEB/components/file-browser/DetailsDialog.tsx:161).
* Shares: only three operations re-wrap keys for recipients
  (WEB/hooks/useFolder.ts:202, :692, :813); an edit or a restored version of a
  shared file, a move into a shared folder and every change by a desktop do not,
  so recipients cannot open what was changed.  An item added while its share is
  being created, or by a tab whose cache is up to 30 s old, is wrapped for
  nobody.  A share saved without its keys cannot be repeated.  A new share
  deletes the recipient's rows that wait for a rotation; hiding or updating a
  row saves the row found earlier and can undo a revocation.  Rotation has no
  caller, and if it had, an aborted one would leave some rows with the new key,
  and rows are deleted before the folder is encrypted again.  "Invalidate the
  sent shares cache" (WEB/services/share.service.ts:443) marks it as fresh and
  empty.
* A recipient's view: an answer that arrives after going up or back puts a
  zeroed key on the stack and a wrong path on the trail; a key that arrives
  after leaving is not zeroed.
* Streaming: the worker's cache is by name although it says "per CID"
  (WEB/workers/decrypt-sw.ts:67), so that a fetch that outlasts its dialog
  leaves a file that the next version's key turns into garbage; one tab's close
  ends another's stream; a worker the browser stopped has lost its keys, its
  token and its address; nobody listens for its "token-expired"; a tab that is
  closed leaves its key; recipients cannot play files in counter mode.

* Vault page: after going to the root or to a loaded folder while another one
  loads, the page keeps its spinner (WEB/hooks/useFolderNavigation.ts:162,
  :283); an operation is asked of the folder the page is in when it is
  confirmed; Shift+click with an anchor that is not listed any more selects
  nothing; two drops that overlap end `isLoading` with the first; a long press
  fires for a row that has gone; an operation writes back the list it read when
  it was asked, a move the node of the moved folder, and the end of a load the
  parent found at its start; the depth check counts the loaded subfolders; a
  folder made while the page's own folder fails to load is made in its parent.
* E-mail codes: the form's wait holds for Resend only, so Back and Send go
  around it; a call that breaks off between INCR and EXPIRE leaves a counter
  that never expires (API/auth/services/email-otp.service.ts), which may shut an
  address out; verifications that overlap go over the limit by the calls already
  past the check; the success of an older linking form closes a newer one.
* Factors: Back in the wizard while MFA is being enabled, then Continue, asks a
  second time, though MfaEnrollmentWizard.tsx:66 says it does not, and the
  second call's error hides the phrase of the first; cancelling meanwhile loses
  the phrase, as nobody shows it again; a regeneration that failed leaves the
  deletion in the browser's metadata, and a later commit writes it; a phrase
  that one browser shows may have been replaced by another before it is noted;
  `canRevoke` goes by a count that may be old, so that one factor may be left
  where AuthorizedDevices.tsx:86 speaks of two; a browser that recovered uses the
  phrase's factor and cannot regenerate it until it is reloaded; a commit whose
  answer was lost makes that browser's later commits fail until it is reloaded.

## 7. Plan

Done: IpnsRegistry, MetadataRegister, ApprovalBoard, DeviceApproval, Accounts
and WebFolders; then MountFolders, MountFiles, Shares, SharedView, Streaming,
Uploads, FileVersions, Sessions, DesktopSession and Devices; then FileBrowser,
EmailCodes and Factors.

What would be added next, in this order:

1. A theorem: in WebFolders the way from the root (`NothingLost`).
2. The desktop's own device approval client as a second client of ApprovalBoard,
   beside DeviceApproval; its polls, unlike the browser's, may overlap
   (apps/desktop/src/main.ts:466).
3. A composition of MountFolders with IpnsRegistry in the place of its one-step
   records, and of Uploads with WebFolders in the place of `Registered`.
4. The nonce of SIWE as a second proof of identity beside EmailCodes, and both in
   front of Accounts; Factors in the place of Core Kit in DeviceApproval, whose
   approvals make factors too.

Runs stay few: one passing run for each area, one for liveness,
and violation runs only for disagreements worth a reader's time.
