# Verification of frp-platform

TLA+ models of the platform that sells, hands out and drives frp tunnels: the control
plane (`apps/api-server`), the node agent (`apps/api-server/cmd/node-agent`) and the local
client (`client/frp-client`). The models follow the Go source; `PROJECT.json` gives, for
every definition, the lines it stands for. This document says what the system consists of,
what is modelled, what each run of TLC and each proof shows, and what is left.

Paths below are relative to `src/`; `P/` is `apps/api-server/internal/platform/` and `C/` is
`client/frp-client/internal/clientcore/`.

## 1. The system

| Component | Source | State it keeps | Operations | What is hard |
|---|---|---|---|---|
| Tunnel store, in memory | `P/store.go` | maps of tunnels, used ports, domain index, subscriptions; one mutex | create, start/stop, delete, speed test create/finish, expiry sweep, traffic | releases at many exits; second releases; limits against a plan that changed |
| Tunnel store, PostgreSQL | `P/sql_store.go`, `P/sql_migrations.go` | tables `tunnels`, `port_allocations`, `subscriptions` | the same, as transactions | statements of several transactions interleave; aborted transactions; waits; a call to the NAT provider inside a transaction |
| Orders, codes, subscriptions | `P/payment.go`, `P/sql_store.go` | `payment_orders`, `redeem_codes`, `subscriptions`, `traffic_logs` | order, epay notification, redeem, grant, traffic report | notifications repeated and reordered; crash between statements; READ COMMITTED |
| Local client | `C/manager.go`, `C/speed.go`, `C/server.go` | `m.cmd`, `frpc.toml`, benchmark slot | start, stop, restart, sync, render, speed test, prepare, cleanup | the lock is released between the halves of restart and of sync; the goroutine that waits for frpc; partial failure of a speed test |
| Node binding | `P/store.go`, `P/server.go`, node-agent `main.go` | bind and agent tokens; the agent's token file | create, delete, bind, boot, persist | lost answers to a one-time exchange; crash before the token is on disk |
| HTTP API | `P/server.go` | none of its own | decode, one store operation, encode | which store operations a handler strings together |
| Certificates | `P/automation.go`, `P/cert_renewer.go` | certificate records, files | request, renew what is due | a renewer that works from a list it read before |
| NAT forwarding | `P/nat.go` | mappings at the provider | reuse or create a mapping, read it back | timeouts of calls that took effect |
| Accounts, sessions | `P/store.go`, `P/sql_store.go`, `P/server.go` | users, sessions, email codes | send code, register, login, authenticate, update a user | a code is checked before the transaction that spends it; a login reads the user in one statement and makes the session in another; a user disabled between a check and an act |
| Client configuration | `P/server.go`, `P/store.go`, `C/config.go`, `C/manager.go` | `frpc.toml` | fetch, render, write | an answer put together from separate reads while tunnels, plans and nodes change |
| Probes, mail, passwords, frps control, front ends, deployment | see `PROJECT.json` | none that outlives a call | | arithmetic, I/O, layout |

The parts interact as follows. The client fetches its configuration over HTTP, which
sweeps expired speed tests on the way; the front ends call the API; every handler goes
through the `Backend` interface, implemented by the in-memory store (one mutex, every
method atomic) and by the PostgreSQL store (no mutex, transactions). The stores call the
NAT provider synchronously while they hold the mutex or a transaction. The payment provider
calls back and repeats until it reads `success`. The agent calls the control plane once, to
exchange its bind token, and is called by it afterwards.

What makes each part correct:

- Tunnels: an entry point (port on a node and protocol, or domain) belongs to one live
  tunnel; it is free again once the tunnel is gone, whichever way it went; a user is not
  given more than the plan allows; nothing starts without an entitlement.
- Billing: an order or code grants one subscription, the provider hears success only after
  the commit, and what was paid for is granted in the end.
- Client: one frpc serves; what was stopped stays stopped; a speed test cleans up.
- Binding: a bind token makes one agent, and an agent that serves survives a restart.
- Certificates: a row never promises more than the certificate on disk, its owner stays, and
  what is due is renewed.
- NAT forwarding: a public address leads to its guest port, and a guest port has one mapping.
- Client configuration: what is written serves the tunnels that run, at the node that has
  their ports, and within the plan.
- Accounts: a code makes one account or stays good, an update happens as a whole, and who is
  disabled stays out.

## 2. The modules

| Module | Models | Runs |
|---|---|---|
| `EntryPoints` | what `Backend` promises about ports and domains, whichever store is behind it | (implemented by the next two) |
| `TunnelStore` | the in-memory store's tunnels; implements `EntryPoints` | `backend`, `tunnel_port_unique` |
| `SqlTunnels` | the same operations as PostgreSQL transactions; implements `EntryPoints` | `sql_tunnels`, `sql_port_pool` |
| `SqlBilling` | orders, codes, grants, traffic in PostgreSQL | `sql_billing`, `sql_redeem`, `sql_traffic` |
| `FrpcManager` | the local client and frpc's life | `frpc` |
| `NodeBind` | the bind exchange between agent and control plane | `node_bind` |
| `ClientConfig` | from the tables to `frpc.toml`: the client's request and what happens during it | `client_config` |
| `Certificates` | certificates on disk, their rows, requests and the renewal scheduler | `certificates` |
| `NatForward` | the dialogue with the NAT provider | `nat_forward` |
| `Accounts` | codes, registration, sessions and updates of users in PostgreSQL | `backend` |

`TunnelStoreProofs`, `SqlTunnelsProofs`, `SqlBillingProofs`, `FrpcManagerProofs`,
`NodeBindProofs`, `CertificatesProofs` and `NatForwardProofs` hold the theorems about the module
each is named after; `BackendProofs` those about the three parts of what a `Backend` gives its
callers: `EntryPoints`, `Accounts` and `ClientConfig`.

Each but `EntryPoints` has an `MC...` module that declares the model values, and a `.cfg` per run;
`MCBackend` puts the instances of `TunnelStore` and `Accounts` into one run. Definitions
introduced by a comment "Fault" or "a plausible bug" are not part of a specification: each
is what a bug would make of the definition next to it, and `PROJECT.json` names the property
that finds it.

### EntryPoints

The abstract state is a table of live tunnels (owner, entry point, whether temporary, which is
a speed test), the identifiers ever given, the entry points `reserved`, and those `loose`: a
temporary tunnel that has ended may be ended again, which the stores do not refuse, and its entry
point is then given up a second time, whoever has it by then. `Grant`, `End` and `EndAgain`
are all there is; requests, transactions, clocks and plans are the stores' matter. Both stores
map their state onto it at the end of their modules (`E == INSTANCE EntryPoints WITH ...`) and
have `ImplementsEntryPoints` as a property. In `SqlTunnels` the point of the mapping is that a
reservation counts from the commit of its transaction, so a creation that is cut between the
port's INSERT and its commit is no step at all.

### TunnelStore

Go maps are functions whose domain is the set of keys; every exported method is one action
because it runs under `s.mu`. The sweep of expired speed tests that both constructors and
`clientTunnels` perform is part of those actions, also when they then refuse; an identifier
is spent before the last checks, as in the code. `Retire` is `releaseTunnelLocked` with the
status change. Time is a clock that only `Tick` advances. Data left out: names, local
addresses, bandwidth, public URLs.

### SqlTunnels

A request is a process with a program counter: the sweep, the advisory lock, the checks, the
reservation of a port, the NAT call, the insert and commit. Uncommitted port rows live in
the request's record; `Reserve` waits for them (`Pending`), as an INSERT waits for a unique
key inserted by an open transaction. A duplicate key aborts the transaction, so the loop in
`allocateSQLPort` never gets to its second port. Transactions whose first statement locks the
row they work on are single actions. `Lose` is the loss of the connection or the server at
any point. One protocol and one plan: `TunnelStore` has the others.

### SqlBilling

A grant marks its source, sets the active subscriptions to replaced, inserts the new one and
commits. The UPDATE is two steps, the snapshot it takes and the moment it has the rows, since
at READ COMMITTED it re-tests the rows it waited for and does not see new ones. `settled`,
`acked`, `metered` and the `source` of a subscription are history, and so is `padded`, which
records that the code was sent with blanks around it.

### FrpcManager

A request of the local API is a process that runs once. What happens under `m.mu` is a step;
between `Stop` and `Start` of a restart, and between fetch and write of a sync, the lock is
free. An frpc goes `alive`, `exited` (not yet waited for), `reaped` (`Process.Wait` returned:
a kill now fails), `cleared` (the waiting goroutine got the lock). `cmd.ProcessState` is
written without the lock, so once frpc is reaped `Start` may see it either way. Remote calls
may fail, and may fail for the client only. A sync may name one speed test and is
then answered with that one alone. `Crash` is the death of the client, which frpc
survives (`mine` becomes false). Of a configuration only the speed test tunnels in it are
kept.

### NodeBind

The exchange is a request, its handling and its answer; the agent may fall between any two,
and a request whose sender is gone may still be handled (`late`). Bind tokens are numbered,
the agent token is the node itself, because it never changes. `Paste` is the administrator,
who reads the present bind token in the node list.

### ClientConfig

One user's tunnels, plan and nodes, and one request of the user's client that passes four
points: the subscription is read, the tunnels, the node of one of them, and the answer is
rendered and written; it may end without writing at each. Between them the user, the
administrator and the clock act, each at most `MaxChanges` times in all. An address is the place
it leads to. `w` is history: what was there, ran, stayed, and was in force from the request
to the answer; the properties measure the written file against it, and no step reads it.

### Certificates

A call (a user's or an administrator's request, an administrator's renewal, the scheduler) runs
certbot, inspects what is on disk and saves a row; between these steps it holds no lock. A
renewal carries the rest of the list it read at its start (`todo`) and, for each row, the expiry
it then had (`prior`), which `Save` falls back to when the inspection fails. `rank` is the order
of `updated_at`, since the list is cut off after `ListLimit` rows (500 in the code). Whose tunnel
proves the right to a domain is the matter of the tunnel modules: here any user may have had one.
The dry-run mode, paths, status texts and certbot's output are left out.

### NatForward

One call of `ForwardPort` is a dialogue: list, POST, read back, with up to `MaxAttempts` host
ports (10 in the code). The provider is external: it takes a host port once, may lose a request
or its answer, and may acknowledge a mapping that does not appear. A lost POST is a conflict in
the code's eyes, because the error's text holds the URL (`.../port-forwards`) and the code takes any error
with `port` in it for one; `PostLost` therefore tries again. `excused` is history: the guests of
whose mapping some call could not know.

### Accounts

A call (registration, login, an authenticated request, an administrator's update) is a process
whose steps are the statements of its handler and its transaction. What a transaction wrote is
seen by others from its commit; an INSERT of an address or an UPDATE of a user waits for the
transaction that has the row. `Lose` ends a call anywhere. An email stands for its
normalised form and for the user; passwords are right, since a wrong one only refuses.
`set`, `granted` and `active` (was the user active at some time during the call?) are history.

## 3. What the runs show

All runs but `client_config` set `CHECK_DEADLOCK FALSE`: identifiers, clocks, rows, requests and
losses are bounded by guards, and every bounded behaviour stops when they are used up. A client
may always ask again.

| Run | Instance | Result |
|---|---|---|
| `backend` | tunnels: 1 user, a NAT node, 2 plans, 2 ports, the names of speed tests, traffic, 3 tunnels | holds: `NoPortLeak`, `PortHeld`, `PortConflictsExplained`, `NoDomainLeak`, `NameHeld`, `NameConflictsExplained`, `CreationWithinLimits`, and `ImplementsEntryPoints` |
| | accounts: 3 calls, an address, 2 codes | holds: `CodeSpentWithAccount`, `UpdateIsAtomic`, `DisabledStayOut` |
| `tunnel_port_unique` | 2 users, a plain and a NAT node, 2 ports, 3 tunnels | **violated**: finishing a speed test twice frees a port another tunnel has since been given |
| `sql_tunnels` | 2 concurrent requests, 2 nodes, 2 ports, a domain | holds: `AllocationsLive`, `WithinPlanUnlessRestarted`, `LiveForwarded`, `WaitsAreShort`, `CallsEnd`, and `ImplementsEntryPoints` |
| `sql_port_pool` | 2 ports | **violated**: a creation fails for want of a port while one is free |
| `sql_billing` | 2 calls, 2 orders, a code, 4 subscriptions | holds: `PaidIffActivatedOnce`, `AckedOnlyWhenActivated`, `NoGrantAfterPlainUse`, `SubscribersStaySubscribed`, and `PaidIsActivated` |
| `sql_redeem` | 2 calls, a code, 3 subscriptions | **violated**: a code sent with blanks around it grants twice |
| `sql_traffic` | a report during a renewal | **violated**: the traffic is charged to nobody |
| `frpc` | 2 overlapping requests, one may be a speed test, one crash | holds: `OneServing`, `StoppedStayDown`, `BenchmarksOwned`, `TestsCleanUp`, `ConfigRestored`, and `StatusSettles` |
| `node_bind` | 2 agents, 2 nodes, 2 losses | holds: `OneAgentPerBindToken`, `ServingSurvivesRestart`, and `ServesInTheEnd` |
| `client_config` | 2 nodes and the platform, 2 tunnels, 3 bandwidths, 3 changes | holds: `RunningAreServed`, `OneNodeIsDialled`, `LimitsExplained` |
| `certificates` | a request worker and the scheduler, 2 domains, 3 days, a lifetime of 2, a failure | holds: `RecordNeverAhead`, `OwnerKept`, and `DueIsRenewed` |
| `nat_forward` | 2 calls, 2 guest ports, 3 host ports of which others may have some, 2 attempts, 2 failures | holds: `EntriesMapped`, `DuplicatesExplained`, and `CallsEnd` |

The type invariants are proved (section 4) and not repeated in the runs; each holds on the
same instance when `TypeOK` (`AccountsTypeOK` in `Accounts`) is added to its configuration.

`TunnelStore` and `Accounts` have no variable in common, and no property speaks of both. In a
behaviour of `backend` one of them moves (`part`) and the other rests at its beginning, so that the
run visits the states of each, and not the pairs of them.

Why the bounds are enough. Two tunnels compete for a port and a third stands for the one a
second release hits; two ports distinguish "the first is taken" from "the pool is
exhausted". Two concurrent transactions show every pairwise interleaving; the stores
serialise by user or by row and no code path waits for two others at once. Two orders and a
code give three grants, which is one more than can overlap. In the client one request that
takes the lock many times (the speed test) against one arbitrary request gives every
interleaving of their steps with the life of up to three frpc's. For binding, two losses are
one for the exchange and one for the write of its result. For certificates, two domains make
a list of which one row is handled while the other waits, a certificate issued on the first day
becomes due within the run, and one failure meets every step once. For NAT forwarding, two
calls that both look before either asks are the overlap that makes a second mapping, two
attempts make the first and the last one differ, and three host ports leave a free one beside a
taken and a tried one. For the client's configuration, a tunnel takes one change and each
property needs a change between two of the four reads, with a second tunnel on the other node;
three changes give every such history. The run stops a behaviour at its first written file
(`FirstFile`), which loses nothing: no step reads the file, so whatever can be written after
it can be written as a first one too, and what a property reads of a tunnel never
changes. The bandwidths 8 and 12 are a whole number of KB and one that is rounded. For
accounts, a registration, an update and a login or request are three calls, and two codes
give one that supersedes the other; the address is the only key on which calls meet.
A second user does nothing for the properties of one, in the tunnels of `backend` as well, where ports and
names are shared by a user's own tunnels.

Some promises of the documents hold in part only, and then there are two properties. The weaker
one names an exception and holds; the plain one is what the documents say, and a violation run
shows the code break it within that exception.

| Promise | Plain, violated | Weaker, holds and is proved | Exception |
|---|---|---|---|
| a port is unique per node and protocol | `PortUnique` | `PortConflictsExplained`, `PortHeld` | ports that a deleted speed test had before (`TestHadPort`) |
| a redeem code is consumed once | `CodeConsumedOnce` | `NoGrantAfterPlainUse` | grants for the code sent with blanks around it (`padded`) |

`NameConflictsExplained` and `NameHeld` are the same for domains, and `loose` in `EntryPoints` is
the same exception, in the terms of both stores. It says where a second finish of a speed test could
release an entry point; whether there was one the state does not record, so the exception is wider
than the bug by the tests that were finished once and left alone.
`WithinPlanUnlessRestarted` excepts tunnels that were stopped and started again; of concurrency,
which is what the review plan speaks of, it excepts nothing. In two further runs the plain promise is violated and no part of it is
stated: a creation gets a port while one is free (`NoPortOnlyWhenExhausted`), reported traffic is
charged once (`TrafficChargedOnce`).
The trace of `sql_traffic` is one of both effects that a grant beside a report has: charging nobody,
and charging two subscriptions that overlapping grants left active.

Other things the code does that a reader may not expect, and that the properties allow for:

- Stop, create, start passes `max_tunnels`: `WithinPlanUnlessRestarted` names the exception.
- A redeem code sent with blanks around it is found, and grants, but the UPDATE that should
  mark it compares the unpadded row with the padded text and marks nothing: it grants again and
  again, until it is sent as it is stored. `CONTEXT.md:53` has one-time codes, and the review plan
  one consumption: `sql_redeem` refutes that. The in-memory store marks the code it found.
- The client is given one frps to dial, that of one tunnel: a user with tunnels on two nodes has
  those of one of them served by nobody. `OneNodeIsDialled` says when it is right. A node without
  an address of its own leaves the platform's, though ports were taken on the node.
- One tunnel whose name or local host is blank keeps the whole configuration from being written,
  so the client goes on with the last one; `RunningAreServed` speaks of what was written.
- A tunnel's own bandwidth was within the plan it was created under. A smaller plan does not cut
  it, though `CONTEXT.md:13` calls it a value that can only reduce the package's limit (Task 3 of
  `docs/superpowers/plans/2026-07-04-tunnel-speed-test.md` specifies the rendering that the code
  does), and after expiry a
  tunnel without one has no limit at all: the two ways `LimitsExplained` allows for.
- The in-memory `Register` compares the email code and leaves it where it is, and knows no expiry of
  it: the code goes on to be good for its address, where the account that it made is what refuses
  a second one. The SQL store marks it used (`CodeSpentWithAccount`).
- The in-memory `UpdateUser` changes the status before it looks up the plan and keeps the change
  when there is no such plan; the transaction of the SQL store does not (`UpdateIsAtomic`, whose
  mutant is that order).
- A request that passed `auth` before its user was disabled still acts; `DisabledStayOut` is
  about those that arrive afterwards.
- A restart of frpc that meets a process already waited for and not yet forgotten gives up, since
  `Stop` fails to kill it: `StoppedStayDown` and `OneServing` hold all the same, the user is left
  without frpc.
- A request whose inspection fails stores its row without an expiry, and `RenewDue` skips such
  rows: only a forced renewal or another request brings the date back. `DueIsRenewed` speaks of
  rows that have one.
- The list a renewal reads ends after 500 rows, the latest first; `DueIsRenewed` holds while the
  table fits it, and its mutant shows that it fails otherwise.
- A lost answer of the NAT provider, or two calls for one guest port at once, may leave a second
  mapping that nothing removes.

Fairness:

- `SqlTunnels`: every begun call takes its next step (WF), and obtains the advisory lock or the
  port row it waits for if it is freed again and again (SF): PostgreSQL's lock queue is
  first-come first-served.
- `SqlBilling`: statements run (WF); the provider repeats an unacknowledged notification (SF,
  since a plan may be withdrawn and offered again and calls be busy); calls are not killed
  for ever (`<>[]`).
- `FrpcManager`: goroutines run and obtain the mutex (WF; a step under the mutex is atomic
  here, and Go's mutex does not starve its waiters), and the kernel ends a process sent SIGKILL.
- `NodeBind`: the container runtime restarts the agent (`restart: unless-stopped` in
  `deploy/docker-compose.node.yml`), the server handles what arrives, and the administrator
  helps an agent that is stuck (SF). Losses are bounded.
- `Certificates`: the scheduler's ticker fires again and again, and a renewal under way goes on (WF
  of `RenewDue` and of `Step` for the scheduler). Failures are bounded, requests have no fairness.
  `CertbotDays` is not less than `BeforeDays` in the instance, as certbot's 30 days are not less
  than the default of `CERT_RENEW_BEFORE_DAYS`; were it less, certbot would keep what is due.
- `NatForward`: a goroutine that handles a request goes on (WF); its HTTP calls have a timeout.
- `TunnelStore`, `EntryPoints`, `ClientConfig` and `Accounts` have safety properties alone, and no
  fairness.

No fairness is assumed of users, of payers, of expiry, of crashes.

## 4. What is proved

Forty-seven theorems in eight modules, each for all values of the constants that satisfy the
named assumptions of the module it is about. In each the argument is the same in outline: the
invariant holds at first, each action preserves it (a lemma per action, or per kind of
step where many are alike), and it implies the property.

`BackendProofs` has three parts that say nothing of each other's state. It extends `ClientConfig`
(whose specification is `Spec` there) and `Accounts` (`AccountsSpec`), and has `EntryPoints` under the
name `E`.

Entry points (any identifiers, owners and entry points): `NothingEverLeaks`,
`EntryPointsKept`, `EntryPointsExclusive`. The three are inductive together: a reservation may be
taken back on `End` because `Exclusive` says that nobody else live has it, `Grant` keeps `Exclusive`
because of `Kept`, and `Kept` survives `EndAgain` because `loose` excuses it. What is said
there holds of both stores through the refinements below.

Accounts (any addresses, calls and number of codes): `AccountsTypeCorrect`,
`CodesSpentWithAccounts`, `UpdatesAreAtomic`, `DisabledGetNothing`. The invariant is

- `CallsSound`: what a call is at, has done and may still do (`Sound`). The code a registration
  read belongs to its address, and stays the newest of it or not: only that it was sent to that
  address matters. Its transaction finds no account there until its commit;
- `Alone`: one registration at a time is between its INSERT and its commit for an address. Without
  it two could spend two codes for one account;
- `UsersCoded`: the code of an account was sent to its address;
- and `CodeSpentWithAccount` itself.

`UpdateIsAtomic` and `DisabledStayOut` are parts of `Sound`: a refused update is in neither
history, and a request that got past its authentication had a user who was active in it.

Client configuration (any nodes, bandwidths, tunnels and changes during a request):
`ConfigTypeCorrect`, `RunningServed`, `NodeDialled`, `EveryLimitExplained`. No step changes the node, the
limit or the kind of a tunnel, and none removes its record (`Steady`), so what was read of it stays
true; only its status moves. The invariant says so of a request and of the file it wrote:

- `RequestInv`: the window holds what there is now and what has not changed since the request
  (`Current`); what was read lies between what stayed and what was seen (`Answers`), the
  node is that of a tunnel the request is about (`Chosen`), and its frps is the node's wherever
  the node's address did not change (`Dialled`);
- `FileInv`: the same of the last file, whose window is closed;
- `WithinGranted`: a tunnel's own limit was within the plan of its creation, without which
  `LimitsExplained` could not name that plan.

`TunnelStoreProofs` (any users, nodes, plans, pool, names and bounds):

- `TypeCorrect`: the type invariant.
- `PortsNeverLeak`, `DomainsNeverLeak`: a reservation never outlives its tunnel.
- `PortsUniqueButForTests`, `NamesUniqueButForTests`: two live tunnels share an entry
  point only where a deleted speed test had it before.
- `PortsHeldButForTests`, `NamesHeldButForTests`: a live tunnel keeps its reservation,
  with the same exception.
- `CreationsRespectPlans`: no creation takes its owner past a limit of the plan in force.
- `StoreImplementsEntryPoints`: each method maps to `Grant`, `End`, `EndAgain` or a stutter. It
  needs `OneKind`, that no tunnel has both a port and a domain, else one end would free two
  entry points.

None of the ownership invariants is inductive alone. `NoPortLeak` needs that the tunnels
released are the only live ones with their key, which is `PortConflictsExplained`; that needs
`PortHeld` when a free port is handed out; and `PortHeld` needs that a release of a live
tunnel's port takes it only from tunnels whose port a deleted test had (`TestHadPort`). Hence `IInv`,
the conjunction of the six, and one lemma per way the state changes: `RetireSound` for every
release (finish, delete, sweep, failed forward), `AdmitSound` for creation, built from
`AddWithPort` / `AddWithoutPort` and `AddWithName` / `AddWithoutName`, `UpdateSound` for start
and stop, `UnchangedSound` for the rest. `CreationsRespectPlans` is an action property and
needs only the type invariant and facts about cardinalities.

`SqlTunnelsProofs` (any finite number of requests, any users, nodes, pool, domains):

- `TypeCorrect`, with the bound on identifiers (`Budget`: creations under way have room for theirs).
- `AllocationsStayLive`: `AllocationsLive`.
- `TablesImplementEntryPoints`: every step of every request, cut or not, is a step of
  `EntryPoints` or none.
- `TunnelsForwarded`: `LiveForwarded`.
- `CreationsWithinPlan`: `WithinPlanUnlessRestarted`.
- `WaitsStayShort`: `WaitsAreShort`. Two concurrent calls cannot show the longest wait (a creation
  waits for the lock of another, which waits for the port of a speed test); the theorem has it for any
  number of calls.

For the first three the invariant is `RowInv` (a row has a port or a domain, a domain is in one row, an allocation
belongs to a live row that records it) and `CallInv` (what a request holds in its open transaction
is what its program counter says, no other request holds the same port, and none is committed).
`Claims` is what makes the insert at the end safe, however long the NAT call took.
`TunnelsForwarded` has `MappingInv`: mappings are never removed, a request past its forward has the
mapping of the port it holds, and a row keeps its node and port. `CreationsWithinPlan` has
`PlanInv`: a creation holds the advisory lock of its user from before its check to its commit
(`LocksHeld`), so what it counted can only have shrunk when its row is inserted (`RoomLeft`), and
the next creation of that user counts the row. `WaitsStayShort` has the converse of `LocksHeld`:
who has a lock is a creation of that user past the statement that took it, never a call that is over
(`HoldersUnderWay`).

`SqlBillingProofs` (any calls, users, plans, orders, codes and bounds): `TypeCorrect`,
`OrdersActivatedOnce`, `SuccessMeansActivated`, `PlainUseSpendsCode`, `NobodyLosesThePlan`. A grant
holds the row of its source from the moment it reads it to its end. Hence `Exclusive` (one grant
at most is under way for an order or a code) and `Current` (what it read there still holds), which
carry `PaidOnce` and `Unspent` over the commit. `PlainUseSpendsCode` is `NoGrantAfterPlainUse`: it
says nothing of grants for the padded code, of which there may be any number before. `NobodyLosesThePlan` needs only that a commit
appends an active row, and that the rows it replaces are its own user's.

`FrpcManagerProofs` (any number of overlapping requests and crashes): `TypeCorrect`,
`OnlyOneServes`, `StoppedForGood`, `NoBenchmarkIsLost`, `EveryTestCleansUp`, `ConfigIsRestored`.
`InOrder` says of a request by itself where it can be and what it has done by then, which gives
`TestsCleanUp`. `OneServing` and `StoppedStayDown` are inductive together: what is below a mark
stays down since only `Start` makes an frpc serve, and it makes a later one. `ConfigRestored`
needs that a test the server was told to end is not among those it hands out, nor in what its
request is about to write (`EndedTests`);
`BenchmarksOwned`, that only the request that holds a service stops holding it.

`NodeBindProofs` (any nodes, agents and losses): `TypeCorrect`, `OneAgent`,
`ServingAgentsSurvive`. Bind tokens are numbered, so a fresh one differs from all that were
ever given out; the strengthening is `Spent`: a token that made an agent is no node's present one.
`Armed` says that a waiting agent has a token to have asked with.

`CertificatesProofs` (any domains, users, workers, lifetimes, list limit and number of failures):

- `TypeCorrect`: the type invariant, with the order of the rows by `updated_at`.
- `RowsNeverAhead`: `RecordNeverAhead`. The rows are written from what calls carry, so the
  invariant must say of every call, of what it read (`found`), of what it was told (`prior`) and of
  the list it still has to work through (`todo`), that none is ahead of the disk (`CallsBacked`).
  That survives other calls only because a certificate on disk never gets older, which needs that
  none expires later than one obtained now would (`DiskBounded`).
- `OwnersStay`: `OwnerKept`. The scheduler's calls carry no user (`Unsigned`), and only a call
  that carries one writes an owner.

`NatForwardProofs` (any calls, guest ports, host ports, numbers of attempts and failures):

- `TypeCorrect`: the type invariant, with one mapping per host port.
- `DuplicatesOnlyUnknown`: `DuplicatesExplained`. Inductive with `Knows(c)`: a
  call past its list knows every mapping of its guest port (none before its POST is granted, its
  own after that), unless the guest is excused. A grant to one of two overlapping calls would
  break what the other knows, and is just what `Overlapped` excuses.
- `EntriesStayMapped`: `EntriesMapped`.
- `CallsAreBounded`: the safety half of `CallsEnd`. A call has at most `2 * MaxAttempts + 1` steps to
  make (`StepsLeft`), each step of its own leaves fewer, and no step of another call adds any.

Model-checked only: liveness (`CallsEnd` of two modules, `PaidIsActivated`, `StatusSettles`,
`ServesInTheEnd`, `DueIsRenewed`), since the proof system reasons neither about fairness nor about
ENABLED: that what is bounded and never deadlocked also goes on. Every other property that a run
finds to hold is a theorem.

## 5. Not modelled, and why

- The measurements of the speed probes, passwords, signatures, mail, TOML text, front ends,
  shell commands, the nginx configuration: pure computation or I/O without state of the platform.
- A node's status and addresses: they are overwritten by whoever reported last, and nothing
  depends on them but display and the address to call.
- The in-memory store's orders, codes and accounts: each method is atomic, and `SqlBilling` and
  `Accounts` have the harder version. The differences in effect that we met are named in section 3
  (`Redeem`, `Register`, `UpdateUser`).
- The duration of calls made under the mutex: there are no seconds in the models. (The in-memory
  store calls the NAT provider while it holds its only mutex.)
- Administrators' own logins: the same two statements as a user's, with no change of status beside
  them. Sessions of one user are not told apart, since nothing ends one without the others but time.
- The agent's own handlers, the client that calls them, frps control: each runs a command or forwards
  one call, and keeps no state.
- The nginx configuration that follows a certificate, and dry runs.

## 6. What could follow

The parts of the platform that keep state are modelled. What would add to that, in order of worth:

1. `NatForward` composed with the reservation of ports in `SqlTunnels`: now the forward succeeds
   or fails there as a whole.
2. Bandwidth and node settings (`P/store.go`), port parsing, each against a reference definition
   over bounded inputs.
