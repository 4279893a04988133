# Verification of the WireGuard panel

TLA+ models of `wg-panel`: the Flask panel in `src/src/wg_panel`, its root helpers
in `src/scripts` and its systemd units, with TLC runs and TLAPS proofs. Paths below
are relative to the repository; a bare `x.py` is `src/wg_panel/x.py`.

1. The system · 2. Modules · 3. Runs · 4. Bounds, deadlock, fairness · 5. Proofs ·
6. Disagreements between code and text · 7. Not modelled · 8. Plan

## 1. The system

The panel is one multi-threaded process. It keeps its state in JSON files that it
replaces whole (`core.write_json_private`), asks root helper scripts to change
WireGuard peers, and asks `safe-dns.sh` to replace the nftables set of addresses
whose DNS is redirected. Everything that touches a profile runs under one
process-wide lock (`core._wireguard_lock`); what only touches a user record does
not. Nothing is transactional across files: each operation is a sequence of calls
that leave the process, any of which may fail, and the process or the host may die
between any two.

| Component (source) | State it keeps | Operations | Hard behaviour | What makes it correct |
|---|---|---|---|---|
| Root helpers (`scripts/add-client.sh`, `remove-client.sh`, `set-client-state.sh`) | `wg0.conf` blocks and paused envelopes, client files, routes of the running wg0 | add, add `--prepare`, remove, pause, resume | a failing command starts an EXIT trap whose own commands may fail; SIGKILL on timeout; reboot | a result the panel can act on; no route the caller did not ask for; a clean undo |
| Profile lifecycle (`wireguard.py`) | `device_meta.json`, helpers' state | create, delete, confirmed delete, delete account, deletion protection | rollbacks that fail halfway; names, addresses and tombstones used again | unique addresses, device limit, revoked stays off, protected profiles kept |
| Permanent Safe internet (`account_policy.py`, `wireguard.py:237-426`, `dns_enforcement.py`) | `account_policy.json`, flags in the metadata, the nftables set | lock an account, lock a profile, reconcile | firewall and file must change in an order that is safe for every failure | a locked profile never has a route nftables does not match; protection is permanent |
| Pause and resume (`access.py`) | `paused`, `pause_pending` in `users.json` | pause, resume, startup reconciliation | several profiles, one failing; rollback of a resume; crash before the peers are off | a confirmed pause is complete; no profile is left off without record |
| Startup and boot (`runner.py:125-189`, `dns_bootstrap.py`, `systemd/`) | order of units | migrate, re-pause, reconcile DNS; bootstrap before wg-quick | refusal on unresolved state, reboots in the middle | protection precedes routes; the panel serves only what it has reconciled |
| Metadata migration (`wireguard.py:73-157`) | `device_meta.json` | adopt or drop entries at start and before operations | stale or blocked records | tombstones and locks survive |
| Accounts and approval (`routes/auth.py`, `routes/admin.py`, `routes/telegram.py`, `auth.py`) | `users.json`, session cookies, approval messages, reset links | register, approve, reject, log in, reset a password, limits | not under the lifecycle lock: interleaves with everything; every request reads the file once and writes it later | no profile without an accountable owner; a session, a link or a button acts only on the account it was made for |
| Infrastructure adoption (`infrastructure.py`) | registry, its directory, a checkpoint | adopt, resume an adoption | five files moved one by one beside a running wg0 | protection and keys never lost; the panel sees only complete moves; retry finishes |
| Idle cleanup (`device_cleanup.py`) | `device_activity.json` | observe, look again, delete | counters that move or reset, gaps, reboots, recreated names | only a profile watched idle for the whole period goes |
| Traffic accounting (`traffic.py`) | `traffic.json` | collect (loop, admin page, pause) | counters read before the lock is taken | monthly totals never lose traffic, and repeat none while collections do not overlap |
| Payment reminders (`payments.py`, `telegram.py`) | `payment_delivery` in `users.json` | due check, two-part delivery with checkpoints | failed sends, crash between send and checkpoint, edits in between | a month is marked only after both parts, no recorded part goes twice, nobody stays due |
| Deletion challenges (`deletion.py`) | nonces in memory | issue, consume | expiry, bound of 512, identity changes | one use, by its actor, for the identity it was shown |
| Admission (`security.py`, `middleware.py`) | windows, failures, slots | consume, check, record, reset | check-then-record, full tables | limits hold, tables bounded |
| Family DNS (`family_dns.py`, `safe_dns_settings.py`) | preference and target files | render a config | malformed files | fails closed |
| Pages and texts (`ui.py`, `i18n.py`, `client_context.py`, ...) | none | rendering, parsing | none | out of scope |

How they interact:

- Routes take the lifecycle lock, call `wireguard` or `access`; those call helpers
  through `_run_script` (timeout, then SIGKILL), write JSON files, and call
  `reconcile_safe_dns`, which recomputes the whole nftables set from files.
- Approval, rejection and registration write `users.json` without that lock.
- The cleanup loop takes the lock and calls `delete_device` like a request.
- At boot `wg-panel-safe-dns.service` runs before `wg-quick@wg0`, and the panel
  after both; each refuses to go on when what it reads is unresolved.
- Login, registration and reset requests run in threads; `security.py` limits them
  per process, `mutate_users` serialises their writes, and the approval message
  goes through a bounded executor to Telegram, whose button calls back by webhook.
- Two background loops collect traffic and send payment reminders; the
  administrator's traffic page and every pause collect as well.
- The adoption command runs with the panel stopped and leaves a checkpoint that
  makes the panel, the helpers and the boot unit refuse to start until it is done.

## 2. Modules

| Module | Models | Composed with |
|---|---|---|
| `PeerStore` | what a helper call may leave: `conf`, `active`, `paused`, `live`; one set of results per helper, torn ones included | used by the three below |
| `HelperScripts` | the scripts command by command: programs, flags, EXIT traps, kills, reboots | refines `HelperCalls` |
| `HelperCalls` | abstract specification: a call is one step to a result of `PeerStore` | |
| `DeviceLifecycle` | the panel's operations under the lock, one action per call that leaves the process, with the web requests, crashes, boot and startup around them | EXTENDS `PeerStore` |
| `InfrastructureAdoption` | the adoption command, file by file, its checkpoint, interruptions and the boot beside it | stands alone; its result is the constant `InfraAddrs` of `DeviceLifecycle` |
| `DeviceCleanup` | the hourly observation, its file, candidates and deletions against the kernel's counters | stands alone; a deletion is one step of it, detailed in `DeviceLifecycle` |
| `AccountSessions` | `users.json` as registration, approval, login, reset, deletion and cookies see it; any number of requests between read and write | stands alone; `DeviceLifecycle` has the same records beside their profiles |
| `LoginFailures`, `WindowLimits` | the failure limiter with the request slots; the sliding windows | together in `MCPanelServices` |
| `TimeLogs` | the deques of times of both limiters, pruned from the left, and what a late call reads of the clock | extended by the two above |
| `DeletionChallenges` | the confirmation page, its nonce and its submission | the same; the deletion itself is `DeviceLifecycle`'s `DeleteBegin` |
| `PaymentReminders` | the payment loop, its checkpoints and the edits beside it | the same |
| `TrafficAccounting` | collectors, kernel counters, the pause's reset | the same |
| `MC*` | instances for TLC: identifiers, limits, symmetry | |
| `*Proofs` | theorems, see section 5 | |

### PeerStore and HelperScripts

A peer is a key pair with its name and address, fixed when the key is generated.
`conf[d]` is the client file, `active` and `paused` the plain blocks and the
base64 envelopes of `wg0.conf`, `live` the peers with a route on the running
interface. `PeerStore` gives the stores a call may leave, with its exit status:
success, failure undone, and the torn states of a trap that fails or a SIGKILL.
`HelperScripts` runs the same scripts as lists of commands (`wg set`, the two
`mv`, `rm`, a verification); the first that fails hands over to the trap, whose
program depends on the flags set so far. Refinement: `store <- before`, the store
at the end of the last script.

### DeviceLifecycle

| Variable | Code |
|---|---|
| `users`, `meta`, `policy` | `users.json`, `device_meta.json`, `account_policy.json` reduced to their flags |
| `store` | what the helpers keep |
| `nft` | the addresses of the managed nftables set |
| `host`, `panel` | boot order: `booting`, `dnsReady`, `up`; `down`, `starting`, `serving` |
| `pc`, `txn` | the step the holder of the lock is at, and its local variables |

| Operation | Actions |
|---|---|
| `create_device` | `CreateBegin`, `AddClientStep`, `CreateMeta`, `CreateSync`, `CreateResume`, `CreatePublish`; `RollbackRemove`, `RollbackMeta`, `RollbackSync` |
| `delete_device`, `delete_device_confirmed` | `DeleteBegin`, `DeleteRemove`, `MarkRevoked`, `DeleteSync`, `DropMeta`, `DeleteUndo` |
| `delete_user` | `DeleteUserBegin`, `DeleteUserNext`, `DeleteUserEnd` around the same |
| `set_user_paused` | `Pause`, `Resume`, `PausePeer`, `PauseConfirm`, `ResumeSync`, `ResumePeer`, `ResumeConfirm`, `RepauseEnd` |
| `set_account_safe_internet`, `set_device_safe_internet` | `AccountBegin`, `SavePolicy`, `UndoPolicy`; `ProtectBegin`, `SaveSafe`, `UndoSafe` |
| `set_device_deletion_protected` | `SetDeletionProtected` |
| `main` | `PanelStart`, `Migrate`, `StartPause`, `StartPausesEnd`, `StartDns` |
| boot | `Bootstrap`, `WgQuickUp`, `HostReboot`; `PanelCrash` |
| requests without the lock | `Register`, `Approve`, `Reject` |

A write returns, is lost, or is committed and then raises: `write_json_private`
replaces the file before a last chmod. A firewall change returns, or fails before
or after the kernel took it. A helper ends in one of `PeerStore`'s results.

### InfrastructureAdoption

Each step of `adopt_infrastructure_peer` is an action in the order of the code:
`Select`, `WriteCheckpoint`, `Verify`, `Replace` (copy and rename), `Claim` (the
registry), `Release` (the metadata entry), `UnlinkSource`, `Check`, `Finish`.
`Resume` re-enters at `Verify`. Any step may raise, be killed, or lose the host;
between two attempts an operator may protect another owner or profile.

### DeviceCleanup

`counter` is the kernel's, `saved` the activity file, `current` and `queue` the
running observation. `Observe` reads counters once and chooses the candidates,
`Save` must succeed before any is deleted, `Recheck` looks at each again,
`Delete` calls the helper, `SaveOne` saves after each. `restarted` is a history
variable: when the period of a profile had to begin again according to the README
of the panel; no action reads it.

### AccountSessions

`users[n]` keeps of a record what decides who may do what: id, password, whether
its hash is salted, session version, flags, approval token and reset link.
`request[t]` is what thread `t` has read and not yet acted on:

| Route | Actions |
|---|---|
| `login` | `LoginRead`, `LoginIdentify` (a record without an id), `LoginVerify` (`authenticate` under the users lock) |
| `register` | `Register`, `Notify` (`submit_background`), `Rollback` |
| Telegram | `Deliver`, `Press` (`tg_webhook`; late, twice, redelivered) |
| `admin_approve`, `delete_user` | `AdminApprove`, `DeleteBegin`, `DeleteEnd` |
| `forgot`, `reset_password` | `Forgot`, `Expire`, `ResetFind`, `ResetApply` |
| failures | `Dies`, `Crash` |

Every write passes through `Saved`, the normalisation `mutate_users` applies to
all records. Ids, tokens and links come from one counter, which only says that
they are never drawn twice. `issued`, `spent` and a cookie's `proved` are ghosts.

### The services of the process

Both limiters read the clock before they take their lock (`security.py:23`, `72`,
`89`), so calls hold the lock with readings out of order. `Readings` of `TimeLogs`
is what a call may work with: any reading of the last `MaxLate` ticks. Deques are
not sorted then, and an expiry or a cooldown may be set earlier than one already
there.

`LoginFailures`: `Ask` takes a request slot and asks the limiter, with its pruning;
`Fail` and `Succeed` come after the slow verification. `guesses` (ghost) holds when
each attempt of the last `Window - MaxLate` was admitted, since the last success.
`dropped` (ghost) holds keys whose failure a full table did not take; for them the
limiter promises nothing.

`WindowLimits`: `Consume` with the eviction of expired buckets, which happens only
when a new bucket needs room. `admitted` (ghost) holds the moments of a bucket's
admissions in the last `Span - MaxLate`, by the true clock and not by the readings.

`DeletionChallenges`: `Confirm` renders a page, `Submit` brings it back;
meanwhile `RemovedElsewhere`, `MadeAgain`, `Protect`, `Rotate`, `Lapse`,
`ChallengesLost`. `intact` (ghost) follows which pages still show what is there.

`PaymentReminders`: `StartRun` reads who is due, `Prepare`, `Acknowledged` or
`Unacknowledged` and `Checkpoint` serve one account, `Break` and `BreakCommitted`
are failed writes and crashes. `acked`, `repeated` and `excused` (ghosts) say what
Telegram received and whose record was lost or taken back by an administrator.

`TrafficAccounting`: `Read` takes the counters, `Apply` adds them under the
traffic lock in whatever order the lock is won. `EpochEnds` is a counter that
starts again (`PauseMeter`, `MetersRestart`, `MakeMetered`). `before` and `seen`
(ghosts) are the bytes some applied sample reported while its epoch lasted;
`missed` are counters that restarted unnoticed and passed their last sample, which
no reader of counters could tell.

These five share no variable, so `MCPanelServices` explores them side by side:
`focus` is chosen at the start and the other four keep their initial state.

## 3. Runs

| Run | Question | Distinct states |
|---|---|---|
| `life_faults` | one account, two names, an infrastructure address, every fault at once | 334 000 |
| `life_optin` | profiles locked one by one by maintenance, every fault but late commits | 880 000 |
| `life_optin_committed` | the same with writes that commit and raise: violation | - |
| `life_accounts` | an account at its limit beside an administrator; registration, approval, rejection, account deletion between provisioning steps | 938 000 |
| `life_locks` | does whoever holds the lock release it, whatever fails on the way | 41 000 |
| `scripts` | do the scripts end in the results `DeviceLifecycle` assumes | 579 000 |
| `adoption` | an adoption beside a second peer, up to three interruptions | 65 000 |
| `adoption_retry` | does retrying finish every adoption: violation | - |
| `cleanup` | two profiles, hourly runs, every event but an exclusion that ends unseen | 3 500 000 |
| `cleanup_resume` | the excluded event: violation | - |
| `accounts` | two names, two requests at a time: logins, registrations, approvals, resets and deletions interleaved at every read | 1 240 000 |
| `services` | login failures, windows, deletion challenges, payments, traffic | 306 000 |

What they show:

- `AccountEnforced`, `OptInEnforced`: a protected profile that has a route, or
  would get one from `wg-quick`, is matched in every state past the DNS bootstrap.
  This is what the order "firewall first, then the file" is for, and what the
  rollback orders must not break.
- `InfrastructureKept`: infrastructure addresses stay matched and are given to
  nobody. `AddressesUnique`: no two profiles, and no profile and leftover block,
  share an address, after torn removals and paused peers too.
- `PauseConfirmed`, `ServingResolvesPauses`, `UnpausedNotEnveloped`: a pause
  reported complete is complete, an unresolved one is applied before serving, and
  an active account has no profile left in its envelope. A pause goes through the
  client files; a peer that a torn removal left live without its file is outside
  the first two.
- `RevokedStaysOff`, `ProtectionIsPermanent`, `ProtectedRemovalConfirmed`,
  `OrdinaryNotMatched`: tombstones, locks and deletion protection through
  deletion, re-creation, account deletion and restarts; no fail-closed address
  goes to an ordinary client.
- `OwnersAccountable`, `WithinLimit`: checks made once at the start of
  `create_device` still hold at its end, against requests that do not take the lock.
  A limit of -1 is no limit (`Limited`).
- `LockReleased`: every transaction ends.
- `CallsImplemented`: `HelperScripts` implements `HelperCalls`. `NoRouteAppears`:
  not even during a script is there a route it was not asked for.
  `RollbackRestores`: a trap whose commands work undoes the script.
- `ProtectionNeverDropped`, `ConfigKept`, `ClaimsMatched`, `ReadyIsClean`,
  `ResumeCompletes`: no moment of an adoption leaves a peer unprotected or its key
  without a file, the panel never works beside a half move, repeating finishes it.
- `CondemnedWasIdle`, `ExcludedNeverDeleted`: only a profile idle, included and
  watched for the whole period is condemned.

- `SessionsGenuine`: a cookie the panel accepts was opened for this account with
  its present password. What could go wrong is a login that verified an old
  password, or a namesake's, and is recorded after a reset, a legacy upgrade, a
  deletion or a new registration. `ResetsAreOwn`: a password changes only through
  an unspent link of the same account. `RemovalsAreOwn`: a late button or a
  rollback never removes an approved account or a later owner of the name.
- `GuessesBounded`: attempts pass the check together before any of them fails,
  but no more than `Threshold - 1 + Slots` per key within `Window - MaxLate` and
  without a success or a restart between them; keys in `dropped` are left out.
  `AdmissionsBounded`: evicting buckets never reopens the last `Span - MaxLate`,
  and the table keeps its bound. Within the full `Span` or `Window` neither holds:
  a late reading may shorten a window by the time it waited (section 6).
- `ConfirmedAsShown`: a confirmed deletion is of the profile and protection its
  page showed, for the session that saw it, once.
- `NotifiedMeansSent`, `SentOnce`, `EventuallyNotified`: an account is marked only
  when both parts were acknowledged that month; a recorded part is not sent again;
  one account's failures starve nobody.
- `NeverUndercounted`, `ExactWhenSerial`: samples applied in any order may count
  traffic twice but lose none that was sampled and applied while its epoch lasted
  (bytes between the last sample and the counter's restart are in no sample; a
  sample applied after the restart does not count as accounted); and while
  collections do not overlap the totals
  are exact, across pauses, restarts and profiles made again.

Each module also has its type invariant, and every property has a mutated
definition in its module ("Mutant" in the comments): a plausible bug the property
catches under the run's own configuration.

## 4. Bounds, deadlock, fairness

- `life_*`: two key pairs and three addresses for two names (three names in
  `life_accounts`). A name can be torn, deleted and created again beside another
  one, which is what address and name reuse needs; in `life_faults` one address is
  infrastructure's, so the pool is exactly full. Nothing counts faults: every
  fault listed in a configuration may happen at every step, any number of times.
  Only key pairs in use at once are bounded; a released one is used again, which
  is sound because a fresh key occurs in no file.
- `life_optin` leaves out late commits because they violate `OptInEnforced`
  (section 6) and, as a double fault, `UnpausedNotEnveloped`; no text of the
  repository promises the latter for a resume whose rollback is lost as well.
- `life_locks` takes the faults that make transactions turn back; crashes would
  release the lock by themselves, and symmetry is off, as liveness requires.
- `scripts`: two names and two addresses, three keys for a removal, a re-creation
  and a neighbour.
- `adoption`: three faults allow an interrupted move, an edit or reboot, and an
  interrupted retry. One of the two peers is moved, the other is personal or was
  claimed before; every reachable mixture of metadata, policy and blocks is an
  initial state.
- `cleanup`: a tick is an hour or more. Period and gap of one and a clock up to
  three give a first observation, a qualifying second one, a missed one and a
  restart. Counters go to one byte: activity is an increase, whatever its size.
- `accounts`: one record from before ids and salted hashes, one free name, two
  threads, two passwords. Three ids or links suffice for a deletion and a new
  registration of the name with a link in between; a queue of one message and one
  pending account make both limits bite. Logins stop at two sessions (two at work
  may still add theirs); the properties speak of one session at a time. Threads and passwords are symmetric.
- `services`: a table of one tracked key for two, three slots against a threshold
  of two; three buckets for a table of two; three pages for a table of two, two
  configurations of one profile; two accounts over two months with one break, one
  of them edited; two collectors, counters to three and two epochs of one meter.
  `MaxLate` is one tick of a window of three: readings of two calls may then be
  out of order and a call may be late by a part of the window, while the part of
  the window that is left still spans two ticks. What matters is the order of
  readings and lock, and that the wait is shorter than the window.
  The clocks are long enough for a window, a cooldown and what follows.
- `CHECK_DEADLOCK FALSE` where the system may really stop: a boot or a start
  refuses for ever while state is unresolved and waits for an operator
  (`life_*`, `adoption`); the bounded clock runs out (`cleanup`); no key pair is
  left (`scripts`); nothing is left to adopt (`adoption`); ids or clocks run out
  (`accounts`, `services`).
- Fairness. `life_locks`: `WF(LockedStep)`, the holder's next step. Helpers have a
  timeout, file writes and the nft transaction are bounded, and nothing inside a
  transaction waits for another lock holder. No request is fair. `adoption`:
  `WF(AttemptStep)`, the command runs to its end, and `WF(Resume)`, the operator
  repeats it as the error message asks; kills and failures are not fair but
  bounded in number. `services`: the payment loop runs again after each sleep
  and a run goes on (`WF(StartRun \/ RunOf)`; every send has a timeout), and a
  message that is tried in run after run is acknowledged in the end (`SF` of
  `Acknowledged` per account, which is
  about Telegram and the network, not the code). Breaks are bounded in number;
  edits, deletions and the turn of the month are not fair.

## 5. Proofs

| Module | Theorem | For every |
|---|---|---|
| `PeerStoreProofs` | `PrepareClientChanges`, `RemoveClientChanges`; the lemmas `AddClientChanges`, `PauseClientChanges`, `ResumeClientChanges` and those on addresses and envelopes | store and reserved set |
| `HelperScriptsProofs` | `NoStrayRoute`, `TrapUndoes`, `ScriptsImplementCalls` | names, addresses, keys, reserved set |
| `DeviceLifecycleProofs` | `TypeCorrect`, `AlwaysEnforced` | users, names, addresses, limits, faults |
| `LifecycleSafetyProofs` | `AddressesStayUnique`, `InfrastructureStaysKept`, `OrdinaryStaysUnmatched`, `RevokedNeverReturns`, `ProtectionStays`, `ProtectedLeavesConfirmed`, `PauseStaysConfirmed`, `OwnersStayAccountable`, `ServesResolvedPauses`, `LimitNeverExceeded` | the same |
| | `EnvelopesStayRecorded` | the same, without writes that commit and raise |
| | `OptInStaysEnforced` | the same, and without maintenance that takes a lock back |
| `AdoptionProofs` | `AdoptionTypes`, `ConfigAlwaysKept`, `ClaimsAlwaysMatched`, `ReadyAlwaysClean`, `ProtectionKept` | peers, any number of failures |
| `CleanupProofs` | `CleanupTypes`, `ExcludedAreKept` | period, gap, profiles, faults |
| | `OnlyIdleCondemned` | the same but `quickResume` |
| `AccountSessionsProofs` | `AccountTypes`, `GenuineSessions`, `ResetsOwn`, `RemovalsOwn` | names, passwords, threads, number of ids, queue sizes |
| `ServiceProofs` | `NeverLost`, `ExactlyAccounted` | profiles, collectors, bounds |
| | `NotifiedAreSent`, `PartsAreSentOnce` | accounts, months, number of failures |
| | `DeletionsAreAsShown` | sessions, profiles, sizes of the table, number of pages and rotations |
| | `AdmissionsStayBounded`, `GuessesStayBounded` | keys, rates, spans, thresholds, slots, table sizes |
| | `PartsImplemented`, `ServiceTypes` | all of these at once |

Every safety property the passing runs check, and the refinement of `HelperCalls`,
is a theorem. The three properties that stay with TLC are the liveness ones:
`LockReleased`, `ResumeCompletes` and `EventuallyNotified`. Fairness is stated with
ENABLED, which the prover does not reason about. The violation runs are
counterexamples and need no proof.

Assumptions are the named ones of the modules (`OwnerAssumption`,
`AddrsAssumption`, `NoPeerAssumption`, `TimesAssumption`, ...): types of the
constants, and that no peer is `NoPeer`. Two are more than a type.
`WindowAssumption` of `LoginFailures`: the cooldown outlasts the failure window and
a wait for the lock together (900 and 300 seconds in `security.py`); with a shorter
one a key would be let in again while its old failures still count. There and in
`RateAssumption`: a call waits for the lock less than a window. The lock is held for
dictionary operations only. TLC evaluates the assumptions on every run.

*Enforcement.* `AccountEnforced` is not inductive: a resume relies on a
reconciliation earlier in the same transaction, a rollback on the set computed at
its start. `EnforcedInv` adds, per stretch of steps that hold the lock, what an
earlier step established: before a resume the set covers every held profile
(`ResumesCovered`); before the policy is saved, the new owner's too
(`OwnerCovered`); the set a failed change returns to covers the old policy
(`UndoCovered`); both sets a deletion may leave cover everyone else
(`DeletionCovered`); a client being deleted has no keys from the removal on
(`DeletedGone`), even if the process stops there; a locked owner's new client is
off until it is on record (`CreatedOff`). `Halted` says a booting host runs no
panel. The helper lemmas of `PeerStoreProofs` say which routes a call may add.

*The lifecycle, layer by layer.* None of the other properties is inductive either:
each relies on something an earlier step of the same transaction established. Each
layer of `LifecycleSafetyProofs` contains the one before.

| Invariant | Adds | Gives |
|---|---|---|
| `AddressInv` | `Distinct`: configurations, blocks and envelopes never share an address, nor have one of `InfraAddrs` | `AddressesUnique` |
| `InfraInv` | `Matched`; `Matching`: every set a policy change or a deletion may put in nftables covers `InfraAddrs`; `Reconciled`: a client is added with nftables exactly the policy's set | `InfrastructureKept`, `OrdinaryNotMatched` |
| `RecordInv` | `Whole`, and what the record of the client in hand says at each step of a creation, deletion, save or resume | `RevokedStaysOff`, `ProtectedRemovalConfirmed` |
| `AccountInv` | `CreationOwner`: the checks at the start of `create_device` hold to its end; `DeletionLoop`, `PauseLoop`, `StartLoop`: while nothing failed, whatever is not done yet is still in the list | `OwnersAccountable`, `PauseConfirmed`, `ServingResolvesPauses` |
| `LimitInv` | `Room`: during a creation a limited owner's other profiles are below the limit | `WithinLimit` |
| `OptInInv` | `ResumesMarked`, `SavesMarked`, `UndoesMarked`, `DeletesMarked`: what `EnforcedInv` says of accounts, for marked profiles | `OptInEnforced` |
| `EnvelopeInv` | `PauseOwner`, `ResumeLoop`, `CreatedPlain`: who may still have an envelope in the middle of a pause, resume or creation | `UnpausedNotEnveloped` |

`ProtectionIsPermanent` needs no invariant: it is read off the actions. Two
theorems have hypotheses on `Faults` and `Maintenance`. A write that commits and
raises is undone as if it had not happened, so a mark may stay that no set covers:
`life_optin_committed` shows it, and section 6 describes it. Maintenance that takes
a lock back changes the firewall first and saves the mark after it, so in between
a marked profile is unmatched on purpose. `life_optin` checks both properties
within these hypotheses.

*Helper scripts.* `ScriptInv` relates the files in the middle of a script to those
before it. Outside the trap the script stands somewhere in its program (`Stands`)
and the store is exactly what the commands done so far make of the old one
(`Done`). In the trap each of the four parts is as before or as wanted (`Shape`),
and whatever is not as before is still to be put back by the trap's remaining
commands (`Owed`). Between scripts the store is `Quiet`: `Distinct`, and no two
live peers share an address. Without the second, `wg set` for a peer the trap
brings back could take a route from another, and "restored" would be false.
`ScriptsImplementCalls` then needs only that a finished script or trap is one of
the results of `PeerStore`, which `DoneResult` and `ShapeResult` say.

*Adoption.* `Progress` states what each step may rely on, `OthersClean` that only
the peer of the checkpoint can be half moved, `Covered` that this peer is claimed
or personally protected and, past the bootstrap, matched. The four properties
follow from the invariant or from one step of it.

*Cleanup.* `Fresh(d, t)`: a tracker that still fits the profile's peer and wg0's
generation is never ahead of its counters, and if the counters have not moved and
the gap is short, the period has not been restarted after the tracker's
`idle_since`. `Candidate(d)`: a queued observation with unmoved bytes means the
period is over. The hypothesis excludes exactly the event of section 6.

*Sessions.* `SessionsGenuine` speaks of accepted cookies only; `Honest` says what
holds of every cookie whose account still exists: its version is not ahead of the
record's, and if it is the record's then its password is too. That needs `Dated`
(nothing in a record is newer than the serial, and a version is older than the link
that would raise it, so it stays in its type) and `Identified` (once a cookie
exists no record is without an id, or two accounts could share one). Every write
is `Lawful` for each name: the record is gone, kept, added under a new id, or
renewed under the next version.

*Links and tokens.* `LinkInv` adds that a record's link was made for it, is on no
other record and not used up (`Linked`), and that a token means the account waits
(`Waits`: every write normalises). `StepShape` reduces a step to the write of one
record (`Writes`): kept, removed, added, given a link, or its link spent, while the
others keep account, password and link. `ResetsAreOwn` and `RemovalsAreOwn` follow
from the kind of write; without `Linked`, a link could serve two accounts.

*Traffic.* `Holds(p)`: the total less the last sample covers all earlier epochs,
so adding a smaller counter in full never undercounts. `ExactlyHolds(p)` is the
equality, with the last sample equal to what was accounted of this epoch; it holds
while the one collector that has read holds samples between the last one and the
kernel's counter (`Alone`, `Pending`), and `disturbed` says when that ends.

*Payments.* `PaymentOrder` says what a run in progress has already sent to the
account in turn; `BackedFor(u)`, that what is on record, or about to be, was acknowledged;
`UnlostFor(u)`, that an acknowledged part is recorded, about to be, or excused.

*Challenges.* `Numbered`: nonces, configurations and rotations are numbered as they
are made, and no two challenges share a nonce; `Dated`: a challenge whose page no
longer shows what is there holds an older rotation or another configuration, which
`Submit` compares; `Spent`: an accepted
nonce is not in the table.

*Windows.* The deque does not say when its admissions happened: a late call appends
a smaller reading behind a larger one. `Remembers` says what survives of that: the
admissions of the last `Span - MaxLate` are matched in order by the end of the deque,
each no more than `MaxLate` after its reading (`Matches`), so pruning by a reading
takes none of theirs; and a bucket's expiry is at least `Span - MaxLate` after each
of them, however far it moved back, so whoever drops the bucket drops none either.

*Login.* `Consistent`, for a key that is not in `dropped`: outside a cooldown it has
fewer failures than start one, and in order every guess is matched by a failure,
recorded with a reading no more than `MaxLate` older, or is one of the youngest, those
still being verified; a cooldown ends a whole `Window` or more after every failure
and guess, so when a reading ends it they are old for every reading. The slots are
counted as the finite set `Busy`, so that the bound on `verifying[k]` is one of a
subset.

*The services together.* `PartsMoveAlone`: a step of the process is a step of one
service and leaves the variables of the others. So each service's specification
is implemented by the process, and the theorems of the parts hold in the whole.

## 6. Disagreements between code and text

- `life_optin_committed`, `OptInEnforced`: `set_device_safe_internet`
  (`wireguard.py:416`) treats any exception of its metadata write as "not saved"
  and restores the old firewall set, but the write may have been saved. Its
  docstring says an enable failure "cannot leave a client marked safe without
  server enforcement". `set_account_safe_internet` handles this case.
- `adoption_retry`, `RetryCompletes`: a command killed while it copies the
  configuration (`infrastructure.py:255`) leaves a `.adoption-*` file, and the
  strict directory listing then rejects every retry, against "retry with the same
  identity".
- `cleanup_resume`, `CondemnedWasIdle`: an exclusion that begins and ends between
  two hourly runs restarts no period (`device_cleanup.py:201`), against "Resuming
  an excluded device or account also starts a new period".

Without a run of its own, because it only shows with waits that real locks do not
have: `README.md:353` of the panel says that full limiter storage rejects new keys
"until existing restrictions expire instead of evicting active restrictions". A call
that reads the clock (`security.py:23`) and gets the lock after a later reading moves
the bucket's expiry back (line 42), and the bucket may be evicted early by as long as
the call waited. With `admitted` kept for a full `Span`, `services` has the trace.

## 7. Not modelled

- Family DNS: two settings files, each validated and replaced whole, and a text
  transformation. No step of theirs meets another component's.
- Edits of the device limit (`WithinLimit` is for a limit that stays) and
  administrators' own accounts. Logging out discards the browser's copy only.
- CSRF tokens, the redirect server, Telegram's retry delays, Flask itself.
- The text of a hash: two salted hashes of one password are equal in the model. The
  code replaces one by another only with a new session version.
- Legacy profile names and the guesses migration makes about their owners.
- Text: parsing of `wg0.conf`, the nftables ruleset, rendered configurations.
  Reduced to the blocks, sets and records they stand for.
- A reboot keeps what a finished write returned. Power loss that reorders
  directory updates is the file system's and is listed as a hazard only.
- Two processes writing the JSON files at once: the lock is a thread lock, and
  maintenance over SSH is modelled between transactions only.
- Pages, translations, client detection: no state.

## 8. Plan

Done: the modules above, and theorems for every safety property and refinement
they state. Left:

1. An abstract contract of the panel (per account: open, paused, locked, gone)
   that `DeviceLifecycle` implements, proved from `AccountInv` and `EnforcedInv`.
2. Metadata migration with legacy names.
3. Liveness stays with TLC; a proof would need ENABLED of every fair action.
