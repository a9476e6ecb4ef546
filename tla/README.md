# A TLA+ model of BetterBillSplitter

BetterBillSplitter keeps shared ledgers ("parties"): members enter items they
paid for others, the party shows who owes whom, and its owner finally archives
it. The backend is a Go server (`cmd/server`, `internal/*`) over MySQL, with Redis
as an optional cache and a React client. This directory models the ledger, the
sessions and the accounts of the server and the browser tabs that use them in TLA+,
checks the models with TLC, and proves the main safety properties with TLAPS.

## Inventory

| Component | Code | State | Operations | Hard part |
|---|---|---|---|---|
| Party ledger | `httpapi/party.go`, `items.go`, `ledger/ledger.go`, forced join in `admin.go` | tables `party`, `party_member`, `item`; files `data/archive/party_<id>.json` | create, join, forced join, leave, remove member, delete, update, archive, add item, set status, delete item, clear best pay | each handler is a row of separate SQL statements; checks are made on rows read earlier; one file is written outside the transaction |
| Settlement | `settlement/settlement.go` | none (a function of items and members) | AggregateUnpaid, Compute, Optimize | nested maps that are assigned, not summed; a loop over two lists |
| Sessions | `auth/token.go`, `httpapi/middleware.go`, `client.ts` | table `refresh_tokens`; tokens in the browser | issue, verify, rotate, revoke | rotation races, lost responses, two tabs |
| Sign-in | `httpapi/auth.go`, `webauthn.go`, `auth/captcha.go`, `tickets.go`, `challenges.go`, `webauthn.go` | in-process maps with deadlines; user rows | register, login, MFA, passkeys, captcha | one-use values that are read and deleted in two steps; restarts |
| API tokens | `auth/apitoken.go`, `httpapi/tokens.go` | table `api_tokens` | create, list, revoke, look up | count-then-insert at the limit; asynchronous last-used stamp |
| Administration | `httpapi/admin.go` | tables `user`, `currencies`, `setting` | rights, passwords, currencies, settings | count-then-delete; two administrators at once |
| Profile | `httpapi/user.go`, `webauthn.go` | second factors and passkeys; challenges in memory | list, enrol, delete | a limit checked when the challenge is made; a challenge answered twice or late |
| Pages | `frontend/src/pages`, `components`, `App.tsx`, `api/client.ts` | what each page has loaded, its spinner, its dialogs, the requests in flight | navigate, load, click, confirm, handle a reply | replies that come late, out of order, or not at all; what a page shows is a copy |
| Exchange rates | `currency/service.go` | Redis and in-process caches | rates | stale values under outages |
| Money | `money/money.go`, `splitAmount.ts` | none | parse, convert, split | rounding, 64-bit range |
| Migrations | `migrate/migrate.go` | table of applied migrations, the schema | run | implicit commits, two instances |
| Adapters, wiring | `v1.go`, `mcp.go`, `docs.go`, `cmd/server` | none of their own | | `/v1` and MCP call `internal/ledger`, which repeats the checks of the handlers |

Components meet in the database only: handlers keep no shared memory except the
in-process stores of sign-in and the rate cache. A request is a goroutine; it
ends early with the process, or when a statement fails whose error the handler looks at.
Some errors are dropped, and the handler goes on as if the query had found nothing:

| Dropped error | A failure reads as |
|---|---|
| the party, in `updateItemStatus` (`items.go:610`) and `UpdateItemPaid` (`ledger.go:329`) | an open party: the archived check is skipped |
| COUNT of memberships and items (`party.go:459`, `601`, `607`, `items.go:149`, `ledger.go:276`, `396`) | zero |
| COUNT of a currency and of its parties (`admin.go:375`, `435`, `440`) | zero: the currency is inserted, where the unique key still refuses it, or deleted |
| COUNT of a user's TOTPs (`user.go:117`) | zero: a second one may be enrolled |
| a user's factors (`auth.go:416` at sign-in, `user.go:29` for the profile), the active currencies (`party.go:613`) | an empty list: a password alone signs in, a page shows none |
| DELETE of a membership (`party.go:464`), UPDATE of a logout (`auth.go:329`) | done |

All of these are steps of the models; those of parts that are not modelled (user names, invite
codes, statistics, settings) are not listed. Handlers pass their context
to the database (`WithContext(c)`); whether it is cancelled when the client goes away
is a setting of the engine outside this repository, and the model allows both.
There is no retry in the server. A page meets the server in requests only: it loads when
it is opened, and its handlers load again, or go to another page, after what they
changed. Nothing tells a page of what somebody else changed.

What has to be true, by component: **ledger** - see the properties below;
**settlement** - the transfers move exactly the net debts; **sessions** - one live
token per chain, a revoked one never works again; **sign-in** - a ticket, captcha
answer or challenge is good for one use; **API tokens** - at most the limit, none
after revocation; **administration** - somebody keeps the rights, a currency in use
stays; **pages** - a page that is at rest shows what the server has (until somebody else
writes) and shows it under the right address, offers what the server grants,
announces what was done, and never waits for nothing; **rates** - age is bounded while the provider answers; **migrations** - each is
applied once, in order.

## Modules

| Module | What it is |
|---|---|
| `LedgerStore` | the rows, the queries the handlers run (`Open`, `ItemsOf`, `Unpaid`, `Related`, `Plan`) and the effect of each writing statement or transaction |
| `Ledger` | the abstract specification: each endpoint one atomic, guarded change of the store; a status change that could not read the party has a guard less |
| `PartyLedger` | the code: request slots with a program counter, one action per statement, any interleaving, failures (`Abort`, `CountMayFail`, `ReadMayFail`, `RenameMayFail`); the properties |
| `MCPartyLedger` | `PartyLedger` for TLC: the symmetry set |
| `LedgerStoreProofs` | what each writing statement of `LedgerStore` keeps: well-formed rows, and what identifies them |
| `PartyLedgerProofs` | the inductive invariant of `PartyLedger` and six theorems |
| `SequentialLedgerProofs` | what one request at a time adds: the refinement of `Ledger` and the six properties of `ledger_sequential` |
| `Settlement` | the settlement functions as a state machine, with its properties |
| `SettlementProofs` | sums over the members, the inductive invariant of `Settlement` and five theorems |
| `PageViews` | what each page about parties, items and bills shows, the buttons it offers and where its links go, over the rows of `LedgerStore` |
| `PartyTab` | one browser tab on these pages: address, page, requests and dialogs in any order, over the ledger's endpoints |
| `PartyTabProofs` | two inductive invariants of `PartyTab` and six theorems |
| `MCPartyTab` | `PartyTab` for TLC: the states to begin with, the symmetry set |
| `AccountServer` | the endpoints of sign-in, factors, API tokens, rights and currencies, by statement |
| `AccountTabs` | browser tabs on the pages of sign-in, second factor, profile, users and currencies; the properties |
| `MCAccounts` | `AccountTabs` for TLC: four scenes |
| `AccountsProofs` | the inductive invariants of `AccountTabs` and six theorems |
| `Sessions` | refresh tokens and the handlers login, refresh, logout by statement, with the tabs of a browser that share a cookie |
| `SessionsProofs` | the inductive invariant of `Sessions` and five theorems |
| `SessionCookieProofs` | what the browser's cookie and the replies on their way hold, and two more theorems |

`PartyLedger` and `Ledger` both extend `LedgerStore`, so an endpoint and its promise
are written with the same effects and differ in their control only. `PartyTab` is
composed with `Ledger`: the tab's requests and those of everybody else are steps of the
abstract endpoints, which the detailed ones implement when they do not overlap.

### How PartyLedger corresponds to the code

* `req[r]` is a request in flight. Its `pc` names the statement issued next; the
  other fields are the handler's local variables. `XStart` is the first read of
  endpoint X with the checks made on that copy; the names after it are the
  statements: `leaveParty` is `LeaveStart` (party row), `LeaveMember` (COUNT of
  `party_member`), `LeaveCount` (`unpaidCount`), `LeaveDelete`.
* A request that its first read refuses is no step; one refused later finishes.
  `createParty` has no read that matters, so it is one action.
* `addItem` and `ledger.CreateItem` are `AddStart`, `AddMember`, `AddPayers`, `AddTx`;
  `updateItemStatus` and `ledger.UpdateItemPaid` are `StatusStart` .. `StatusUpdate`.
  The two paths repeat the same checks.
* `archiveParty` is `ArchiveStart`, the three reads of `partyExport` (members,
  unpaid items, all items), `ArchiveWrite` (write a temporary file and rename it)
  and `ArchiveTx` (lock, recheck, settle, stamp). `ArchiveWriteFails` is the rename
  fallback that removes the old file and then fails.
* A `COUNT` whose error the code drops reads as zero: `Counted` offers the real
  set and, with `CountMayFail`, the empty one.
* `StatusPartyFails` (with `ReadMayFail`) is the read of the party in `updateItemStatus` whose
  error is dropped: the request goes on to its UPDATE unchecked, and `unread` says so.
  Every other statement that fails ends its request.
* `Abort` ends a request at any statement with nothing written by it.

Abstractions: amounts, names, descriptions, invite codes and times are left out.
`archived_at` is the id of the request that stamped it, a value two archivers
cannot share. A deleted row is `"gone"`, and ids are not reused. A snapshot is the
set of items it lists and the set its payment plan covers (items that are unpaid,
between two different members of the list).

### Settlement

Cents are natural numbers. The nested maps are functions that are zero where the
code has no entry. Rows arrive one at a time (`AggregateUnpaid`), so TLC tries every
bag of at most `MaxItems` debts; then `Compute`, the loop of `SplitBalances` over the
members (`next`) and that of `Match` over the two lists run to `Return`. Each step of these
loops is one round of the code's.

### Sessions

One user in one browser. `row` is `refresh_tokens`, `jar` the cookie, and each tab
has a page (PrivateRoute's spinner, the app, the login page) and at most one refresh,
logout and login request, whose `pc` says how far the server got.

* `RotateRefreshToken` is one transaction: `RefreshRead` (row, and with it the snapshot
  of the user row), `RefreshClaim` (the conditional UPDATE, which waits for the row
  lock), `RefreshCommit` or `RefreshRefused`; `RefreshAborts` is any statement failing.
  A claim is invisible to others until the commit, but `Locked` holds their UPDATEs up.
* `tryRefresh` is `TryRefresh`: a promise that is there is shared. It is called when
  PrivateRoute mounts (`Reload`, and after `ReceiveLogin`) and after a 401 (`Unauthorized`).
* `LoseReply` breaks a connection before or after the server; `LogoutFails` is the
  UPDATE whose error `logout` drops. Both count against `MaxLosses`.
* `Row.session` (the login a token descends from), `raced` and `ended` are history.

Left out: the user's other browsers (other rows), the second factor and passkeys,
which end in the same `respondWithTokens`, and access tokens, which leave no state on the
server. A tab that reloads while a refresh runs is `LoseReply` and then `Reload`; the
server's part that still runs is what the other tab's request shows.

### Pages (PartyTab)

One user, `Me`, in one tab. `route` is the address, `tab` the state of the page's
component (`loading`, `err`, what it holds in `view`, the check boxes of
`items/add`), `call` the slots for its requests.

* `PageViews!ViewOf(page, p)` is what the load of a page answers: the fields a page
  renders by, reduced to who owns the party, whether it is archived, its members, its
  items, which of them are paid, one's own, or in the payment plan. Several requests of
  one load (`Promise.all`) are answered as one. `MayRead` is the check of their endpoints.
  `HeaderLinks`, `BodyLinks`, `HeaderOffers`, `BodyOffers` are the links and buttons, with
  the conditions they are rendered by.
* `Follow` and `Visit` are the router: another page replaces the component (`Mount`),
  another party under the same page keeps it and runs its effect again (`Turn`).
* A dialog is a slot with `pc = "asked"` (`Ask`, `Cancel`, `Confirm`); other buttons send
  at once (`Click`). `PickParty` and `Tick` are the form of `items/add`.
* `ServeRead`, `Accept`, `Refuse` and `Lose` are the server and the network, `Elsewhere` is
  any step of `Ledger` by others. `Accepts` repeats the guards of the handlers, so
  that a refusal is a step.
* `Fail` is a statement of the handler that fails: most refuse (`Refused`), `removePartyMember`
  answers success over a DELETE that did nothing (`RemovedNobody`), an invitation is offered to a
  member (`InvitedAgain`), and a check whose query failed is passed over (`Overlooks`). A reply says
  whether the change was `done` and whether a statement `failed`, for the properties.
* `ReceiveLoad` and `ReceiveWrite` are what the handlers do with a reply: one disjunct
  for each shape of handler (go on to a page, load again, show the refusal, nothing), and
  sets that name which handler has which shape (`Resets`, `Catches`, `Unchecked`, `Reloads`).
  `mounted` says whether the component that sent it is still there.
* `fresh`, `calm` and `jumped` are history, for the properties.

### Accounts (AccountServer, AccountTabs)

* `req[s]` is a request or a dialog of a tab, with the locals of its handler; each action
  of `AccountServer` is a statement, or several reads that nothing comes between.
  `login` is `PasswordChecked`, `MethodsRead`; an answer to the second factor is
  `TicketRead`, `FactorRead`, `TicketSpent`; `apitoken.Create` is `TokensCounted`, `TokenInserted`;
  `adminDeleteCurrency` is `Authorize`, `RowRead`, `PartiesCounted`, `RowDeleted`, and runs
  beside `CodesChecked`, `PartyWritten` of `createParty` and `updateParty`.
* `ReadFails` and `WriteFails` are a statement that fails, at each point of each handler:
  refused where the error is looked at (`FailureSeen`); otherwise `NothingRead` (profile,
  currencies), `NoMethodsRead` (the password alone signs in), `ChallengeUncounted`,
  `CodeUncounted`, and `TicketWasted`, a ticket that is deleted before the tokens fail.
* `AccountTabs` is the pages' side: `Open` (a route is entered, and loads), `Ask`, `Click`,
  `Confirm`, `SubmitLogin`, `UsePasskey`, and a `Receive` action for each kind of reply. A
  tab loads again with the `load` of the page that made the request (`Reloads`).

Abstractions: users exist and are enabled, so that of the two gates only `AdminRequired` can
refuse; passwords, codes and assertions are right or wrong by choice; the session of a WebAuthn
assertion is part of the answer to it; the TOTP rows of one secret are one device;
the two counts of `adminDeleteCurrency` are one, since a party supports its base currency, and
its failure (`blind`) is that of both;
after sign-in the tab is on the home page; `is_admin` in a tab is what the sign-in said.
`late`, `blind`, `signins`, `calm` and `used.by` are history.

## Runs

| Run | Bounds | Shows |
|---|---|---|
| `ledger_sequential` | 3 users, 1 party, 2 items, 1 slot, all endpoints, renames and the read of a party may fail | one request at a time implements `Ledger` (`ImplementsLedger`); archiving settles, until a status request cannot read the party; its snapshot is the one of that moment and stays; deletion only when settled, with no orphans; whoever is owed money is a member |
| `ledger_concurrent` | 2 users, 1 party, 1 item, 2 slots, all endpoints, counts and the read of a party may fail | what holds whatever overlaps: the owner is a member, `archived_at` is written once, an archived party has its file, items and memberships change only by those entitled; an archived party comes to rest |
| `party_tab` | 1 tab, 2 users, 2 parties, 1 item, 2 requests or dialogs; 2 of: 2 moves, 2 writes, a write by somebody else, a lost reply or failed statement | a page at rest is current and is about its address; a current page offers only what is granted; success is announced when it is true; no spinner without a load |
| `accounts` | 2 tabs, 2 users, 2 currencies, 1 party, limit of 1 token; 3 of: a move, 2 writes, a lost reply or failed statement | the token limit is exceeded by overlap only; somebody stays administrator unless two remove each other; a currency in use goes only by overlap or a failed count; a ticket signs in once unless answers overlap; a page at rest is current |
| `settlement` | 4 members, 3 items of 1..3 cents | nets preserved, no transfer overwritten, at most n-1 transfers, nobody both pays and receives, the loop ends |
| `sessions` | 2 tabs, 3 tokens, 1 loss | one live token per session; a logout is final; with nothing lost, it ends the session when no refresh runs beside it, and the cookie is never a replaced token; a disabled user gets no token |
| `sessions_fair` | 2 tabs, 2 tokens, 2 losses | a waiting tab gets to a page |
| `archive_race`, `snapshot_race`, `delete_race`, `departed_debtor`, `fewest_transfers` | small | the findings below |

Why these bounds: no statement of the ledger touches rows of two parties, so one party
is enough for it. The hazards need two requests; what they establish about three or more
is covered by the proofs. Two items in the sequential run tell "the item" from
"all items"; three users tell owner, debtor and creditor apart. Four members are
the fewest whose balances fall into two groups that sum to zero, and three items
make chains, cycles, debts in both directions and credits that are split. Three
tokens are two rotations in a row or two sessions beside each other, and two tabs
are two requests for one token; the proofs cover the rest.

`party_tab` begins in every state of a party (its owner, its members, an item that is paid
or not, between any two of them) with a tab on any page, so that two events reach what
takes many from an empty store; its events are those of the user, of others and of
the network, and every request they start runs to its end. What takes three (a mark on a
party archived meanwhile, whose read fails) is left to the proofs, which have no bound. Two
parties tell the party of the address from that of a late reply; with the other one
in the same state and the user's own, whether that one may be read is not an
extra case. `accounts` has one scene for each group of tables that pages write:
signing in beside a profile, two profiles of one user, two administrators, two pages
of currencies beside parties that are written; statements of different groups share
no row. Two requests meet at each check that is made before a write, and a limit of
one token is reached by one. What three or more do is proved for the accounts.

In the party ledger deadlock is not checked: ids run out, and a party that is gone ends
its story. Nor in the tabs: the bounds on events end them. Symmetry is used for
safety only, and not for `ledger_concurrent`, which checks liveness too.

Fairness: `FairSpec` asks weak fairness of `Step(r)` for each slot: a goroutine that is
running reaches its next statement, and a database call returns or fails (a wait
for a row lock ends in InnoDB's timeout). Clients need never send anything: `Start` and
`CreateParty` have no fairness. `Settlement!FairSpec` says only that the function runs.
`Sessions!FairSpec` asks the same of a refresh that was sent, and that `fetch` then
returns; nothing of what the user does. The tabs have safety properties only: a spinner
that waits has a load under way (`SpinnerHasALoad`), which ends when `fetch` does.

Each property of a passing run is paired with a mutant, an operator
`Action_Mistake` next to the action it spoils: a dropped guard, a recheck left out,
a file written too late. With it TLC finds the property violated.

## Findings

Each is a violation run and quotes the text it contradicts (see `PROJECT.json`).

* `archive_race` - `addItem` and `updateItemStatus` check `archived_at` on a row they read
  before. If `archiveParty` commits in between, the archived party has an unpaid item
  that no endpoint can settle, delete or pay, and no member can leave.
* `snapshot_race` - `archiveParty` writes the file before its transaction looks again. A
  second request overwrites the snapshot of a party the first has archived.
* `delete_race` - `deleteParty` counts unpaid items before its transaction; an item
  added in between is deleted unpaid.
* `departed_debtor` - without any overlap: a debtor leaves while all is paid, the
  creditor sets the item back to unpaid, and the settlement does not contain it.
* `fewest_transfers` - the greedy matching is not minimal.

More facts are visible in the models, and no run claims them: most contradict no text.
A logout that overtakes or follows a rotation in flight revokes nothing, and
the reply to the refresh signs the browser in again. Of two tabs that open at once
one is refused and shows the login page, though the session lives. A lost reply to
a refresh ends the session for the browser. In the party ledger: a join that overlaps a
deletion leaves a membership of a party that is gone
(no foreign key), and a leave that overlaps an `addItem` can leave an unpaid item
whose creditor is no member. Without any overlap, an `updateItemStatus` whose read of the party
fails is not checked, and unsettles an archived party: in `ledger_sequential` an archived party is
settled but for such requests (`ArchivedStaysSettled`). When a rename fails, its fallback can
remove the snapshot of a party that an overlapping request has archived.

In the pages:

* `mark` and `doDelete` of `ItemPartyPage` and `mark` of `PartyMyItemsPage` do not look at
  `ret`, and announce a refusal as success; `SuccessIsTrue` exempts them over outdated
  views and failures.
* The loads of the editor, the party list, `items/add`, the profile and the
  administration have no catch: after a lost reply they spin for ever. So does the
  invitation; `SpinnerHasALoad` is about the pages of `Catches`.
* No component cancels its load when its party changes: replies that arrive out of order
  leave one party under the address of another (`tab.jumped`). The payment page does not
  bring its spinner back. In `items/add` a late `loadParty` replaces the members of the
  party that is picked, and the users ticked for a shared amount stay.
* `removePartyMember` does not look at the error of its DELETE: the page announces a removal that
  did not happen. `SuccessIsTrue` exempts it.
* A late reply to a write moves the user away from the page that is open by then.
* The header of a party's page offers to leave while the party is still loading, and the
  payment plan of an archived party offers to clear it, which is refused.

In the accounts:

* Two requests at the limit both create an API token, and two tabs enrol two TOTPs, whose
  limit is looked at when the challenge is made.
* Answers to one MFA ticket that overlap all sign in.
* Two administrators who remove each other at once leave none.
* A currency may be deleted after its parties are counted and before one that uses it is
  written; a party's check of its currencies can be as old. When its count fails it is
  deleted under parties that were there all along.
* A failed read shows as a profile without factors, or a site without currencies, until the
  next load; at sign-in it shows as a user without a second factor.
* A failure after an MFA ticket is deleted leaves neither a ticket nor a session.
* Setting a right to the value it has is refused as "用户不存在": MySQL counts changed rows.

## Proofs

`PartyLedgerProofs` proves, for every set of users, parties, items, currencies and
request slots, and every choice of `Ops`, `CountMayFail`, `ReadMayFail` and `RenameMayFail`:

| Theorem | States |
|---|---|
| `TypeCorrect` | `Spec => []TypeOK` |
| `OwnerStaysMember` | `Spec => []OwnerIsMember` |
| `MembersHaveAuthority` | `Spec => MemberAuthority` |
| `ArchivedAtMostOnce` | `Spec => ArchivedOnce` |
| `SnapshotBeforeArchive` | `Spec => []ArchivedHasSnapshot`, assuming `~RenameMayFail` |
| `ItemsHaveAuthority` | `Spec => ItemAuthority` |

None of the properties is inductive: a `LeaveDelete` must not be issued by the
owner, and only the request knows that it is not. `IInv` therefore adds `ReqInv`, what
the reads of each request established (the caller is the owner, is not the owner,
is the item's initiator, the item belongs to the party). That survives every
other request's step because rows that exist keep their owner, party and users:
`PartyStable` and `ItemStable`, which one lemma per effect of `LedgerStore` proves
(`StoreStep`). Then each action moves its own request on with what it has to know
(`ReqStep`), and `IInvOfStep` carries the others over. `ReqInv` takes the tables as
parameters so that the argument about a request that stands still is one line.
The properties follow from `IInv` and a summary of what a writing step can do
(`MembersOfWrite`, `ArchivedColumn`, `ItemOfWrite`). `SnapshotBeforeArchive` needs two more
invariants: a party never created was never archived (`UnusedIsOpen`) and a request
at its transaction has written its file (`TxHasSnapshot`). Its assumption is needed:
with a failing rename, the fallback removes the file of a party that an
overlapping request has archived.

`SequentialLedgerProofs` proves, for the same constants, what holds when requests come one at
a time. `Alone` is the hypothesis of its theorems: one slot, and no count that fails
(`ledger_concurrent` and the race runs show what fails without it). The party may fail to be read.

| Theorem | States |
|---|---|
| `ArchiveSettles` | `Alone => (Spec => ArchivedStaysSettled)` |
| `DeleteLeavesNoOrphans` | `Alone => (Spec => []NoOrphans)` |
| `CreditorsStay` | `Alone => (Spec => []UnpaidInitiatorIsMember)` |
| `SnapshotShowsArchive` | `Alone => (Spec => SnapshotIsPreArchive)` |
| `SnapshotIsFinal` | `Alone => (Spec => SnapshotStable)` |
| `DeleteIsSettled` | `Alone => (Spec => DeletedOnlySettled)` |
| `EndpointsAreAtomic` | `Alone => (Spec => ImplementsLedger)` |

The invariant adds two parts to `IInv`: the tables are tidy (`TidyRows`: an archived
party exists, a gone one is empty, and the creditor of an open debt is a member), and what the request has read still holds (`Knows`), because the
only writer is the request itself and its write comes last. Of a status request that could not
read the party nothing is known about the archive; it is `UpdateItemStatusUnread` of `Ledger`. At that write, `Knows` has become
every guard of the abstract action: the steps before it are stutters of `Ledger`, and one
lemma per endpoint maps the write. `archiveParty` renames its file before its transaction, so
in the mapping (`Counts`) a snapshot is there once its party is archived.

`SessionsProofs` proves, for every number of tabs, tokens and losses:

| Theorem | States |
|---|---|
| `TypeCorrect` | `Spec => []TypeOK` |
| `AtMostOneLiveToken` | `Spec => []OneLivePerSession` |
| `LogoutEndsForGood` | `Spec => []LogoutIsFinal` |
| `RevocationIsFinal` | `Spec => RevokedForGood` |
| `DisabledIsLockedOut` | `Spec => DisabledMintsNothing` |

The commit of a rotation is safe because its claim still holds the row: `ClaimInv` says
that a claimed row is alive and claimed once, which the lock gives. With `RowInv`
(sessions are numbered by rows that exist) the first two properties become
inductive; `Inv` is their conjunction. One lemma per write to the table (`TableStart`,
`TableRotate`, `TableRevoke`, `TableExpire`) and two for claims carry the argument.

`SessionCookieProofs` adds, for the same constants:

| Theorem | States |
|---|---|
| `CookieIsNewest` | `Spec => []JarIsNewest` |
| `LogoutEndsItsSession` | `Spec => LogoutEndsSession` |

Both are about what the browser holds, so the invariant (`CookieFacts`) follows a token from
the commit to the cookie: a token that a reply carries is alive, is in no other reply,
and no cookie and no request has it (`FreshInv`, `Unused`). So nothing can revoke it before it
gets into the jar. The jar changes by replies only, and a rotation revokes the
cookie's token only while its reply with the successor is on the way; without losses that
reply arrives. `QuietLogout` says of a logout that no refresh overlaps that no session has
a live token its cookie does not name.

`AccountsProofs` proves, for every number of users, tabs, requests under way, devices,
tickets, tokens, currencies and parties:

| Theorem | States |
|---|---|
| `TypeCorrect` | `Spec => []TypeOK` |
| `AdminsRemainCorrect` | `Spec => AdminsRemain` |
| `TicketsAreSpentCorrect` | `Spec => TicketsAreSpent` |
| `CurrenciesInUseStayCorrect` | `Spec => CurrenciesInUseStay` |
| `TokensWithinLimitCorrect` | `Spec => []TokensWithinLimit` |
| `RestingPagesAreCurrent` | `Spec => []RestingPageIsCurrent` |

Here already the types need an invariant, `TypeInv`: a reply makes a page load again,
which is right only because a request that is still mounted was sent by a page that
loads (`OwnerOK`), and a handler indexes a table with its argument, which is an id because
the page that offers the operation had one (`ArgOK`, `MfaOK`). A step of the system is a
step of the server, where one request goes on and the others at most become late
(`Served`, one lemma per action, joined in `ServeOK`), or a step of the browser, where
requests are made and dropped but none goes on (`Light`, joined in `BrowseOK`). With that
split each property is a short argument about the few actions that write its table
(`Writers`) and that serve its operation (`Servers`):

- `TicketInv`: a ticket that has signed in is gone, and the answers that had read it are
  marked late. A ticket is given out only from "unused", so that none comes back.
- `CountInv`: a deletion that has counted is late or blind, or no party supports the currency.
- `TokensWithinLimit` is inductive: a request starts to insert when fewer than the
  limit were there, and then at most every slot inserts; an insertion moves one from
  `Minting` to `TokensOf`.
- `AdminsRemain` needs the types only: one `UPDATE` removes one other user, so who removes
  the last one was no administrator any more.

`RestingPagesAreCurrent` follows from `CurrentInv`, which has two parts. `Known` holds of every
request in any state: what is mounted belongs to the page that is open and to its
user, whoever has a write under way is in `used.by`, and a confirmation that is left over from
another page is not asked on a quiet one. The rest is about a tab that is quiet (`Quiet`: its
requests came one at a time, and it alone has written): it has at most one request under way,
and `Carries` says of that request what `OneCall` says in `PartyTabProofs`. Two things are
peculiar to these pages. The profile is read in two requests, so while the tokens are on
their way the factors it shows are already right. And an administrator may lose the right:
a page of the administration that has stopped loading has a user who still has it (`Settled`), as a
write of another tab, which alone could take it, would end the quiet; a user cannot
take it from oneself. A step of the server is described by what it may change of the view of
any user (`ReadEffect`, `WriteEffect`, `SameSights`), so that no action is looked at twice; a reply is
`ReplyCurrent`, or opens a page (`OpenCurrent`), or loads again (`LoadCurrent`).

`PartyTabProofs` proves, for every set of users, parties, items and currencies, every
number of requests under way, and every bound on what happens:

| Theorem | States |
|---|---|
| `TabIsTyped` | `Spec => []TypeOK` |
| `PagesShowTheirParty` | `Spec => []PageShowsItsParty` |
| `SpinnersHaveALoad` | `Spec => []SpinnerHasALoad` |
| `SuccessIsNoLie` | `Spec => []SuccessIsTrue` |
| `FreshOffersHold` | `Spec => FreshOffersAreHonoured` |
| `RestingPagesAreCurrent` | `Spec => []RestingPageIsCurrent` |

A property of a page is about the reply that may come next, so `TabInv` follows each request
from the button to the reply: it was sent by a page that has such a button (`WellMade`), what is
mounted belongs to the page that is open (`Fits`), and to its party unless the address
jumped (`OnParty`); the answer of a party's page is about that party (`Answered`). The
page's two properties are then inductive beside it (`PageInv`). `Honoured` says that a
request of a current view is one its guard accepts, or refuses for a reason
no page shows (`Excused`), until somebody writes. When the request is made this is `BodyHonoured`,
which compares each button's condition with the handler's guard; afterwards it stands
because every write makes the others stale. `LinksHonoured` does the same for links.

`QuietInv` adds what makes a resting page current. It speaks of a quiet tab (`calm`, not
`jumped`, nobody else wrote) and says that at most one request is under way and what
that one may carry (`OneCall`): a read's answer is what the server would still give, and
before a write is done the page is as current as it was. A write that is done makes the page
stale and nothing says otherwise until its reply comes; then every handler loads again,
or goes to another page (`GoesAway`), or the reply was a refusal and nothing had changed. The form
of `items/add` is filled by two requests, one after the other, so its view is not
current while the second is under way: `AddInv` says which part of it is (the list, the
party picked, that party's members) and which request will bring the rest.

`SettlementProofs` proves, for every number of members, items and cents:

| Theorem | States |
|---|---|
| `SettlementTypes` | `Spec => []TypeOK` |
| `SettlementIsExact` | `Spec => []NetPreserved` |
| `NobodyPaysAndReceives` | `Spec => []NoPassThrough` |
| `TransfersAreFew` | `Spec => []FewTransfers` |
| `NothingIsOverwritten` | `Spec => NoOverwrite` |

`SettleInv` says that the balances of all members sum to zero (`SumInv`), that the lists hold
the members with a balance, each with what the transfers leave of it, nothing
before the loop's position and something from it on (`Ranked`, `ListInv`), that a transfer is between
two members whose positions are not both still to come (`TransferInv`), and that there are no more
transfers than positions passed (`CountInv`). `NoOverwrite` follows because the two members
at the positions have not met. `Exhausted` is the end: if the creditors are through, nobody's rest is
positive, if the debtors are, nobody's is negative; it sums to zero, so it is zero and the other
list is through too. That the last round passes two positions makes it n - 1.

The facts about sums (`TotalOfUpdate`, `TotalOfSum`, `TotalOfDebts`, ...) need an induction over
the set of members, and the induction theorems of the library cannot be used, as they
have an operator as parameter. `SmallestSet` replaces them: a nonempty set of subsets of
`Users` has an element that contains no other (`WFMin` with the strict subset order), so a
claim that fails has a smallest failure, and the fold's equation gives the contradiction.

Assumptions on constants: `NoneAssumption` (NULL is no id) and `ParametersAssumption`
(`Ops` are endpoints, the switches are Booleans); the theorems use neither.
`SessionsAssumption` (the bounds are naturals) is used throughout `SessionsProofs`.
`AccountsProofs` uses of `ServerAssumption` that ids are numbers, that tokens and slots are
finitely many, that there is a slot and that the limit is a number, and of
`TabsAssumption` that `None` is no tab: a party is written from a page that is no tab's.

`PartyTabProofs` uses `NoneAssumption` and `MeAssumption` (who is signed in is a user), and of
`TabAssumption` that there is a slot: the first load needs one.
`SettlementProofs` uses `SettlementAssumption` (there is a member, the bounds are naturals).

`TabInv`, `QuietInv` and `CurrentInv` were checked by TLC on the states of a run before they
were proved; first versions of the first two had counterexamples there.

Every invariant and action property of a passing run is proved, and so is the refinement
`ImplementsLedger`, each for every value of the constants that satisfies the assumptions above
(those of `SequentialLedgerProofs` with one slot, `SnapshotBeforeArchive` with renames
that work). Only model-checked: liveness (`ArchivedQuiesces`, `LoadingEnds`, `Terminates`),
which is outside TLAPS's reach.

## Not modelled

* Registration and its captcha widget, changes of names and passwords (one's own or by an
  administrator), settings, an edited currency: a single guarded write each, of columns
  the properties do not tell apart.
* The form of a currency, the split of an amount, filters, lists of
  time zones and currencies, statistics, downloads of an archive, layout: data the
  properties do not tell apart.
* The administration's home, parties and members pages; the endpoint of the
  forced join is in `PartyLedger`.
* `apitoken.Lookup`, its expiry and its asynchronous last-used stamp, `/v1` and MCP beyond
  the ledger calls they share with the pages (`ledger.CreateItem` and `UpdateItemPaid` are in
  `PartyLedger`).
* `currency/service.go`: the two caches and the provider. `money.go`, `splitAmount.ts`:
  amounts are left out of the ledger, 64-bit arithmetic of rates is out of TLC's integers.
* `migrate.go`: MySQL's implicit commits would be modelled from outside the source.
* Configuration, documentation endpoints, logging; password hashing, TOTP and
  WebAuthn cryptography, which are libraries.

## Plan

What would come next: `Rates`, `Migrations`, and `Money` against a rational reference.
