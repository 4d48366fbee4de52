# RouteBastion in TLA+

Specifications, model-checking configurations and machine-checked proofs for the
RouteBastion monorepo: an administration API (`apps/admin-api`, NestJS + Drizzle), the
administration UI above it (`apps/admin-ui`, Vue + Pinia + ky), a broker (`apps/broker`,
Go + pgx) and the contracts the two TypeScript programs share (`apps/packages/contracts`).
Every definition is a translation of source code; `PROJECT.json` names the lines.

## 1. The system

    admin-ui  --HTTP-->  admin-api  --SQL-->  admin-database        two separate
    views, dialogs       controllers          admins, customers     PostgreSQL servers
    Pinia stores         services                                   (docker-compose.yaml)
    ky services          repositories

    clients   --HTTP-->  broker     --SQL-->  broker-database
                         handlers, services,  customers, api_keys,
                         stores, tx manager   providers, vehicles

| Component | State | Operations | What makes it hard | Correct when |
|---|---|---|---|---|
| **admin-api administrators** (`admins.controller/service`, Drizzle repository, `admins` table) | one table: e-mail, status, password hash, pending flag; per request what the handler has read | create, list, update, block, unblock, delete | two to three auto-committed statements per handler, no transaction; every await lets other requests run; statements fail, acknowledgements and the process are lost | e-mails are unique; password and pending flag agree; a deleted row never returns; a block is undone only by an unblock; an answer tells the truth |
| **admin-api customers** (the same layers over `customers`) | one table with `deleted_at` and a partial unique index on the CNPJ | create, list, update, soft delete | as above; lookups filter on `deleted_at`, the UPDATEs do not | one living customer per CNPJ; a deletion is final; a soft delete looks like a delete |
| **cursor pagination** (`cursor.ts`, `list` of both repositories) | none on the server: the client holds the cursor | list | rows arrive, commit late and vanish between pages; the cursor has milliseconds, the column microseconds | no row twice, newest first across pages, nothing skipped, the walk ends |
| **admin-ui list stores** (`admins.store`, `customers.store`) | items, search term, cursor stack, next cursor, loading, error | fetch first/next/previous, search, five mutations with refetch | nothing cancels or numbers the requests: answers in any order, failures among them | at rest the table shows what was asked for and what was changed; the spinner stops; "previous" always has somewhere to go |
| **admin-ui views and dialogs** | open dialog, mode, selected row, awaited save and delete | open, submit, close, debounced search, leave and enter again | a dialog closed and reopened around an awaited save; a debounce timer that outlives its view; a store that outlives it too | a save closes the dialog it was made in, and reports on what it saved; what the search box says is what is shown |
| **admin-ui HTTP client** (ky) | attempts per request | GET, POST, PUT, PATCH, DELETE | time-outs and automatic repetition of idempotent methods | a repeated call is not reported as a failure |
| **broker customers and API keys** | `customers`, `api_keys` | create, disable | lookup outside the transaction; transaction may fail, panic, lose its commit; two disables overlap | a customer and its key come and go together; no key outlives its customer |
| **broker transaction manager** | one transaction per call | within-transaction | error, panic and lost commit on every path | all or nothing; no connection kept |
| **broker providers, constraints, vehicles** | `providers`, `vehicles`, constraints | create (update, delete unrouted) | several rows in one transaction; an int cut to 32 bits; comparisons with NULL; joins that scan into types without NULL | a provider never without its constraints; its details can always be read (today no provider is stored at all: see Broker) |
| **broker life cycle, health** | listening, draining, stopped | serve, signal, shut down, health check | requests in flight against a five-second limit; a second signal; a health check that ends the process | a signalled process ends; whatever was cut off left no trace |
| **broker optimization clients** | none between calls | fake optimizer, Google mapping | a greedy loop under a precedence constraint; floating point; slices made with a length and appended to; two ways of counting one list | every visit once, pickups first, the loop ends; shipments and visits correspond |
| **contracts** | none | zod schemas, CNPJ check digits | modulo arithmetic | equals the definition of the check digits |

Not state-changing, and so only listed in `PROJECT.json`: the contracts (schemas and one pure
function); bootstrap, environment and
documentation of admin-api; layout, router, auth placeholder and formatting of admin-ui;
the broker's cryptography, unused middleware, validators and its optimization endpoint,
which is a stub.

## 2. The modules

| Module | Role |
|---|---|
| `Admins` | the administrators' write handlers, one action per SQL statement |
| `AdminRegistry` | what the administrators' API promises: a call takes effect in one step with its answer |
| `MCAdmins` | the symmetry sets of `Admins` for TLC |
| `AdminsProofs` | theorems about `Admins`, among them that it implements `AdminRegistry` |
| `Customers`, `CustomerDirectory`, `MCCustomers`, `CustomersProofs` | the same four for customers; the directory has no deleted rows at all |
| `Listing`, `ListingProofs` | a client's walk over the pages of a list |
| `ListStore`, `ListStoreProofs` | the Pinia store behind both tables of the UI; the theorems are also about `SearchBox` |
| `AdminsView`, `AdminsViewProofs` | the administrators' screen: both dialogs, the lock of a row, and the client that repeats requests |
| `SearchBox`, `MCSearchBox` | a list view on top of `ListStore`, which it extends: entering, leaving, the debounced search box |
| `Broker`, `BrokerProofs` | the broker: its back-office handlers, the transaction manager, the pool of connections and the life of the process |
| `BackOffice` | what the broker promises the caller of a disable |
| `ProviderCatalogue` | what the provider tables promise together: whole entries, changed field by field |
| `ProviderStore`, `MCProviderStore`, `ProviderStoreProofs` | the store of the providers and the generated statements on their four tables |
| `Tour` | what a caller of `RouteOptimizationAPIClient` may rely on |
| `RouteRequest` | the list of shipments both clients are called with; the next two extend it |
| `FakeOptimizer`, `MCFakeOptimizer` | the greedy optimizer, one action per turn of its loop |
| `GoogleTours`, `MCGoogleTours` | the client of Google's optimizer: a request mapped out, an answer mapped back |
| `OptimizerProofs` | theorems about both clients |

### Admins and Customers

A Nest handler is a chain of awaited statements on a pool of connections, each committed
on its own. **One action is one statement and the code up to the next await.** `req[r]` is
the handler running in slot `r`: its stage (`lookup`, `owner`, `write`), its arguments and,
for an edit of an administrator, `emailChanged`, the decision taken from the row as it was
read. Nothing else of what a handler read survives an await, because the code uses nothing
else. `admins[a]` is the row of id `a`, or `Null`; `customers[c]` carries `deleted` for
`deleted_at IS NOT NULL` and never becomes `Null` again.

| Action | Code |
|---|---|
| `Submit` | the controller method is called with validated input |
| `CreateLookup`, `CreateWrite` | `create`: `getByEmail` / `getByBusinessIdentifier`, then INSERT |
| `UpdateLookup`, `UpdateOwner`, `UpdateWrite` | `update`: `getByID`, the second lookup only if the address or CNPJ changed, then UPDATE by id |
| `TargetLookup`, `SetStatusWrite`, `DeleteWrite` | `block`, `unblock`, `delete` of administrators |
| `DeleteLookup`, `DeleteWrite` | `delete` of customers: UPDATE of `deleted_at` by id |
| `RefusedWrite` | unique violation, or `toOutput(undefined)` when an UPDATE matched no row: no `HttpException`, so 500 |
| `StatementFails`, `AcknowledgementLost`, `Restart` | a rejected statement; a committed one whose answer is lost (or whose process dies before answering); the end of the process with everything in flight |
| `CreatePassword` (external) | the column pair is written by code outside the repository: the API only ever resets it. Without it no account would have a password to lose |

Left out of the data: names, birth dates and time stamps, which decide nothing.

`AdminRegistry` and `CustomerDirectory` say what a client may rely on. A 2xx is given in
the step that has the effect; 404 and 409 are given only while true and without effect;
500 and a lost connection promise nothing but "at most once". The refinement hides the
stages (`CallOf`), and for customers also the deleted rows. The one weak promise of the
directory is an edit: 200 may mean that the customer had just been deleted (see 5).

### Listing

Rows carry `created_at` in units of which `Milli` make one millisecond of a JavaScript
`Date`. `Floor` is what `toISOString()` leaves of it. A page is the first `Limit` rows, by
`(created_at, id)` descending, of those that come `Before` the cursor; the next cursor is
the last row of the page, and `null` when not one more row was found. An insert may commit
up to `Lag` units after its `created_at`, because the column defaults to the start of the
transaction. `pages` is the history of the walk, the pages it was given one after the
other (`Returned` is their union), and `standing` remembers the rows that were in the table throughout the walk. The
customers' list is the same query with the living rows as its table.

### ListStore

A store function runs up to its await without interruption and issues its request in the
same step; the rest runs when the answer arrives. `load[l]` and `mutation[m]` are the
requests in flight. A page is known by the number its cursor leads to, `First` being
`undefined`; the content of a page is abstracted to the term, the page and the `version` of
the server's table it answers. The server answers a list request with the version of that
moment (`Answer`), and the answer may be overtaken. `known`, `newest` and `inOrder` are
history: the version the last acknowledged mutation led to, the last list request, and
whether the last answer processed belonged to it.

### AdminsView

`view` is the state of `AdminsView.vue`: which dialog is open, the form's mode and the one
`selected` row both dialogs share. The dialogs are modal, so opening anything needs both
closed (`PageReachable`); but `CloseForm` and `CloseDelete` are always possible, also while
a call is awaited. `call["save"]` is the form's `submitting` with the call behind it,
`call["remove"]` the other dialog's `deleting`, and each `Toggles` slot a block or unblock.
A call goes from `sent` to `refused` (404, 409), `lost` (no answer, or 500) or `refetch`
(acknowledged, the list being reloaded, which never throws) and ends in `SaveSucceeds`,
`RemoveSucceeds`, `ToggleSucceeds` or `CallFails`. The code after the await reads the mode
and closes the dialog as they are *then*, and the model does the same. `own` and `done` are
history: whether the dialog was reopened since, and whether the server acted.

The HTTP client (ky, external) repeats PUT and DELETE after a lost answer (`Repeat`), never
POST and PATCH, and ends every call with its time-out. The server acts as `AdminRegistry`
promises (`Acceptable`, `EffectOf`); other administrators write at any time
(`OthersWrite`), which also stands for requests this client gave up and the server still
executes. An administrator is reduced to the e-mail, the one field the dialogs compare;
the status decides only which call a lock makes, and either may be shown. The customers'
screen is the same without the lock and the warning.

### SearchBox

The store lives as long as the page, the view as long as its route: `Mount` empties the
box and reloads the store's list under the term it still has. `Type` starts the debounce
timer again, `OnSearch` hands the box to `SetSearch` when it runs out. Nothing stops the
timer when the view is left (VueUse, external), so `Leave` turns it into one of the
`orphans`, which search later for a box that is gone. `setBy` is history: who set the
store's term last while this view was there. The actions are written with those of
`ListStore`, so that they call the store as it is and the theorems about it hold under the
view; that is how the module is built and says nothing of the code.

### Broker

`req[r].at` is the next call to the database of the handler in slot `r`: the `lookup` on
any free connection, `begin`, then inside the transaction `write`, `revoke` (for a disable)
and `commit`, and `acknowledge` once PostgreSQL has committed and the handler does not know
it yet. `acquired` counts the connections taken by transactions, up to `PoolSize`. `customer`
and `live` are the committed rows; what a transaction has written before its commit is known
from its stage, and so is the row lock it holds until then (`Locks`).

| Action | Code |
|---|---|
| `Receive`, `Malformed` | the handler up to the service call; its 400 |
| `Lookup` | `GetByBusinessIdentifier`, `GetByID`; deleted rows are found by both |
| `Begin`, `Commit`, `Acknowledge` | `PgTxManager.WithinTransaction` |
| `InsertCustomer` | the body of `CreateCustomer`'s transaction, refused |
| `DeleteCustomer`, `RevokeAllAPIKeys` | the two UPDATEs of `DisableCustomer` |
| `CreateProvider` | the providers' route, refused by `ExtractTx` |
| `StatementFails`, `Panics` | an error or a cancelled context at any call; a constructor that draws no UUID. Rollback, and the connection released, on both |
| `Signal`, `Drained`, `ShutdownExpires`, `HealthCheckFails`, `Restart` | `gracefulShutdown`, the end of `main`, `Health`'s `log.Fatalf`, a new process |

Three things make this program do less than its services say, and the model says so rather
than repairing them. A create never succeeds: for a free identifier the lookup's "no rows"
is returned as an error, for a taken one the INSERT sends `created_at` as NULL
(`stores.go` 47-51 leaves the parameter unset) into a NOT NULL column. The providers' store
looks for a transaction that no caller opens. And the route of DELETE names its parameter
`customerId` while the handler reads `id`, so over HTTP every DELETE is answered by
`Malformed`; the disable is modelled from the call of `DisableCustomer` on, as the service
behaves when it gets an id. Customers and keys therefore come from outside (`Init`).

A closed slot remembers whom a 204 or 404 is about, so that the answer can be held against
the table later.
`BackOffice` has no statements: a disable is one step between a call and its answer.

### ProviderStore

`call[c]` is a call of `Create` inside a transaction: `provider`, `limit`, `feature` are
its three inserts, `commit` the end of the transaction, and the three rows get into the
tables there. Their ids are UUIDs of version 7 drawn before the transaction (`NewProvider`)
and modelled as consecutive numbers. `limits`, `features` and `methods` are
`provider_constraints`, `provider_features` and `provider_access_methods`. Updates and
deletes are the generated statements, by id, without a condition on `deleted_at`. The
statements that read are operators: `Joined` is the LEFT JOIN of the details query, whose
NULLs the scan into an `int32` and a `bool` refuses, `SqlEqual` the equality that is never
true with NULL. `AsInt32` is Go's conversion, with `Half` for 2^31.

Today nothing reaches these statements: the one caller opens no transaction, which is in
`Broker`. The module models the store as its contract has it, called inside one. `Create`
takes the communication methods and does nothing with them; `CreateCommunicationMethodsBulk`,
which no code calls, sends the id of the method as the id of its provider and is not
modelled. `binding:"required"` on a bool refuses `false`, so only asynchronous providers are
created.

`ProviderCatalogue` is the abstract specification: one entry per provider. The refinement
reads the catalogue through the details query, so it holds only if that query finds exactly
one limit and one feature of every provider.

### FakeOptimizer and Tour

One action is one turn of the loop of `OptimizeSync`: `Visit(s)` for the first of the
nearest admissible stops, `NoValidStop` if the scan found none, `HandOver` at the end. Stops
are named by kind and number, and `Position` gives back the index that breaks ties. The
slices `stops` and `steps` are made with a length and then appended to: `Blanks` and the
`4 * Count` blank steps are the zero values in front, and the first turns of a loop may well
drive to (0, 0). `result` has a zero value in front, too, which is left out. Distances are
abstract, up to being compared and added; rounding may push the haversine of antipodal
points below the root of zero, which gives `NaN`. Only the first vehicle is ever read.

`Tour` is what a caller may rely on: every visit once, a delivery after its own pickup, an
error at any time. `FakeOptimizer` implements it when the ids of the shipments differ
(`SharedIds = FALSE`); with a shared id it does not (see 5).

### GoogleTours

`Send` maps the input to rows of Google's request, `Serve` lets Google (external) build any
feasible routes over them, `Answer` maps them back. `request` has a zero value before the
caller's shipments and another before the vehicles, so row `k` of the request is shipment
`k - 1` of the caller and is read back as shipment `k`. Google may refuse such a request
(`Fails`); if it answers, every visit is reported under the id of the next shipment and
every route under the next vehicle, and the last ones under the empty id. `LabelsComeBack`
says what a caller would expect, a row under the label that was sent with it, and
`MCGoogleTours_shifted.cfg` shows that it is not so; no document speaks of it, so it is no
run of `PROJECT.json`. The places
are those of the shipment that is named (`PlaceOf`), the last one if several share its id, a
delivery's longitude being taken from its latitude. What survives the shift is
the order (`PrecedenceSurvives`) and, when the ids of the request differ, that each is
picked up and delivered at most once (`NothingIsServedTwice`): two rows never come back
under one id, since only the last has none. Which of the alternative visit requests Google chose, start and end of
vehicles and distances are left out. No code calls either client yet.

## 3. What the runs check

| Run | Instance | Shows |
|---|---|---|
| `admins` | 2 ids, 2 addresses, 2 requests, all faults | the table's two invariants, three action properties, the refinement of `AdminRegistry`, and that every handler that starts ends |
| `customers` | 3 ids, 2 CNPJs, 3 requests, all faults | `UniqueLiveCnpj`, `DeletionIsFinal`, the refinement of `CustomerDirectory` |
| `listing` | 4 ids, pages of 2, 4 instants of which 2 share a millisecond, commits up to 1 late | one strict order over all pages, so no row twice; nothing skipped beyond a millisecond, the walk ends |
| `liststore` | 2 terms, 3 pages, 2 list requests, 1 mutation, 2 table changes | what the table shows at rest, and that the spinner stops |
| `adminsview` | 2 ids, 2 addresses, 1 lock, requests sent at most twice, 1 call awaited at a time | `IInv`, toasts, closing of dialogs, the password warning, and that every call ends |
| `broker` | 2 customers with 2 keys, 3 requests, a pool of 2 | atomic disables, true answers, no leak, no circular wait, the refinement of `BackOffice`, and that a signalled process ends |
| `searchbox` | `ListStore` with 2 pages and 1 table change, any number of mounts, 2 terms | the typed term is what is shown |
| `providers` | 2 creates, 6 ids, limits up to 3 in integers of 2 bits, every update and delete | whole providers, details that can be read, the refinement of `ProviderCatalogue` |
| `fake` | up to 2 shipments with distinct ids on 3 points, 2 of them antipodal, with or without vehicle and end | every stop driven to exactly once, length, no deadlock by the constraint, the refinement of `Tour` (and with it the order), termination |
| `google` | up to 3 shipments of 2 ids on 2 points, 1 vehicle, every feasible answer | what survives a mapping that is one row off: the order, and that nothing is served twice |
| `admins_reset`, `liststore_stale` | smaller | one documented behaviour each that the code does not have (see 5) |

The type invariants and the inductive invariants are proved for every value of the constants
(see 4) and so are not checked again on these instances, except `AdminsView`'s `IInv`, which
is the statement about the row both dialogs share. The names of `SearchBox` and `GoogleTours`
differ from those of the modules beside them (`ViewSpec`, `GoogleSpec`, `ViewIInv`,
`GoogleIInv`), so that one module can hold theorems about both.

The properties:

- `UniqueEmails`, `UniqueLiveCnpj`: the lookups do not exclude each other, so everything
  hangs on the index; for customers the index is partial and the edits reach rows outside it.
- `CredentialFlag`: two columns, written by INSERT, by an edit and by the password's
  creator, never contradict each other.
- `NoResurrection`, `DeletionIsFinal`: a late UPDATE of a handler that looked the row up
  before its deletion does not bring it back.
- `StatusFollowsRequests`: a late edit does not undo a block that came between its lookup
  and its write.
- `PasswordLostByEditOnly`: no other operation and no fault takes a password.
- `NewestFirst`: every row of a page is older than every row of all pages before it, whatever
  is inserted, committed late or deleted in between, and although the cursor is cut; so no
  row is shown again. `CompleteBeyondAMillisecond`: what a walk surely shows.
- `ShowsWhatIsAsked`, `ShowsMutations`: the store's state under overlapping requests.
- `ToastsAreTrue`: a success toast means that the server acted. Its second half holds only
  for calls that are not repeated: a repeated DELETE may be refused because its own first
  attempt worked, and the user is then told that it failed.
- `ToastNamesTheSave`, `ErrorKeepsDialog`: state read after an await, and who may take a
  dialog from the user.
- `WarnedBeforeReset`: the form compares with the row it was opened on, the server with the
  row as it is; a password is reset without warning only if somebody else changed the row.
- `AllOrNothing`: the customer and all its keys go in one step, under failures at every
  statement, panics, a process that ends anywhere and a commit whose answer is lost.
- `AnswersAreTrue`: a 204 or 404 given once stays true, after restarts, too.
- `NoConnectionLeaks`, `NoCircularWait`: the pool counts exactly the running transactions,
  and handlers waiting for a connection or a row never wait for each other in a circle. It
  is what would break if a statement inside a transaction took its connection from the pool.
- `BoxIsShown`: the box, its timer, the store and answers in any order agree once the user
  has stopped typing, unless the timer of a view that was left ran out after it.
- `DetailsScan`, `CreatedIsStored`: three inserts, failures and lost commits, and queries
  that would choke on a provider stored in part.
- `EveryStopOnce`: a route that is handed over contains each step exactly as often as there
  are stops that look like it, the blank ones included, and nothing else. `DistanceIsDriven`:
  the sum of the loop is the length of that way, and a number unless the way to the end of
  the vehicle has none. `NoConstraintDeadlock`: whenever the loop gives up, an admissible stop was
  left and none had a distance, so the error's words "constraint deadlock" are never true.
- `PrecedenceSurvives`, `NothingIsServedTwice`: what a reader of Google's routes can rely on
  after two index maps and one id map that do not count alike.
- `ImplementsRegistry`, `ImplementsDirectory`, `ImplementsBackOffice`,
  `ImplementsCatalogue`, `ImplementsTour`: the refinements.
- `EveryRequestAnswered`, `EveryWalkEnds`, `LoadingEnds`, `CallsEnd`, `ShutdownEnds`,
  `EveryCallReturns`: liveness.

**Bounds.** Ids bound the number of inserts of a behaviour (`Submit` lets a create start
only while an id is left for it, since PostgreSQL never runs out). A conflict takes two
requests; two addresses let an address be left and come back to; two ids are the two
holders of one address, three let a CNPJ be deleted and taken twice. A cursor can skip a
row only inside one millisecond, so two instants per millisecond and two milliseconds show
every case; pages of two over four rows give a page inside and a page across a boundary.
For the store, two list requests give every overtaking, three pages a middle page with a
way in both directions, `MaxVersion = 2` one change of one's own and one of another
administrator. On the screen `MaxCalls = 1` leaves the save, the delete and the lock one at
a time: they share only the table on the server, where `OthersWrite` already does what a
second call could do; the theorems hold for any number. Two sends are one repetition, with
every combination of effects before and after it. For the broker, three requests over a pool
of two use the pool up with one waiting, and put two disables of one customer on its row
lock while a third holds a connection; two customers tell the rows apart. A view that is left
and entered again needs no second table change and no third page. Two creates hold six ids; access methods draw from the same ones, so
one create beside three methods is in the run, too; integers of two bits overflow at the
limit 2 as those of 32 do at 2^31. Two shipments with their blanks are eight stops; three
points give a tie, a detour over (0, 0) and a pair without a distance. Three shipments of
two ids share an id and leave one that does not, and one vehicle with the zero value before
it makes two routes.
All invariants, action properties and refinements of the runs are proved for all values of these
constants, so the instances are a cross-check of them; only the liveness properties rest on
the instances. Symmetry is used in
the runs `customers`, `searchbox` and `providers`, which have no liveness property; nothing
orders the ids and CNPJs of the first, the slots of the second, the calls of the third. The other runs are without it: the row ids of `Listing` are
ordered, and liveness is checked in `admins`, `listing`, `liststore`, `adminsview`, `broker`
and `fake`. `CHECK_DEADLOCK` is on except where the system is a call that ends or a bounded
number of them: `fake`, `google`, `providers`.

**Fairness.** `Admins`: weak fairness of each handler's own steps, because a promise that
was awaited settles, by result or rejection, and the event loop then runs the rest. Clients,
faults, restarts and password creation are not fair. `Listing`: weak fairness of
`FetchPage` states the assumption of its property, a client that keeps asking; no arrival
or removal of rows is fair. `ListStore`: weak fairness of each pending list request
settling, because ky ends an attempt after its time-out of ten seconds and repeats a GET at
most twice. `AdminsView`: weak fairness of each call ending by time-out and of the code
after a successful await. The server's answers are not fair: the time-out does not need
them. `Broker`: weak fairness of `Shutdown`, whose context ends after five seconds; handlers
and the database are not fair, since no statement has a time-out of its own. `FakeOptimizer`: weak fairness of `Next`, a
loop that runs in one goroutine and waits for nothing.

Each property has a mutant in `PROJECT.json`: a change of the modelled code, such as a
dropped guard, a forgotten reset or a swapped order, under which TLC finds it violated.
The mutated forms stand beside the definitions and are marked as such.

## 4. What is proved

`tlapm` checks every proof, for any number of ids, addresses, requests, rows, pages and
list requests, any subset of faults and any size of the pool (the broker's requests are
finitely many). The assumptions are those the modules name: `Null`
is none of the other values, the faults are known ones, and the bounds are numbers.

- **AdminsProofs.** `UniqueEmails` and `CredentialFlag` are inductive only together with
  the types of table and requests, with `LiveIssued` (an INSERT takes an id that no row
  has) and with `ArgumentsFit` (a handler that writes an address has one, and a create has
  no id, so that the address of the row it inserts is compared with all rows). `IInv` is
  their conjunction; `Invariance` proves it. The proof of a step splits it into a *table
  step*, one of four statements that each change one row (`PutRow` and `DropRow` say what a
  changed row must satisfy), and a step that leaves the table alone. The action properties
  follow from `IInv` and the same split. `RegistryImplemented` maps each statement with
  the answer after it to an effect of the registry (`StatementsAreEffects`), each refusal
  to a true refusal (`RefusalsAreTrue`) and each lookup that goes on to a stutter
  (`MovingOnIsHidden`).
- **CustomersProofs.** The same argument without `issued`; the extra case is the UPDATE of
  a deleted row, which the index does not see: it keeps `UniqueLiveCnpj` because the row
  stays deleted, and it is a stutter of `CustomerDirectory`.
- **ListingProofs.** `PagesDescend` is about all rows that could exist, not only those that
  do, which makes it inductive with the type invariant: a row inserted later, or late,
  falls on one side of the cursor. `NewestFirst` is kept because a new page is matched by
  the cursor and so, by `PagesDescend`, older than all that was returned. For completeness the invariant
  remembers every page so far: a row that stood from the start was returned, or is still
  before the cursor, or shares its millisecond with a returned row (`NothingElseIsMissed`).
  A page keeps that because all rows that can be reached and are newer than its last one are
  on it (`CursorReachesAllBelow` says which rows the cut cursor still reaches), and
  `CompleteBeyondAMillisecond` is the invariant at the end of the walk. Two theorems say more
  than the run: `ExactCursorsMissNothing` proves `WalkIsComplete` for `Milli = 1`, so that the
  cut to the millisecond is the whole cause of the violation that `Listing_complete.cfg`
  shows; and `EveryPageUsesUp` (`PagesUseUp`), that each page but the last leaves strictly less
  to return, is what `EveryWalkEnds` needs besides fairness.
- **ListStoreProofs.** `ShowsWhatIsAsked` speaks of rest. While something is awaited the
  facts are `NewestMatches` (the newest pending request carries the store's term and the
  top of its stack) and, once it is answered, `ShownMatches`; `NextIsNotFirst` keeps the
  bottom of the stack unique. Under the view of `SearchBox` the store's
  invariant holds as well, and with `BoxIsTerm` (what the box last handed over is what the
  store holds, whatever answers and table changes came since) `BoxIsShown` follows.
- **AdminsViewProofs.** `IInv` adds to the types what an awaited call must be for its slot
  (`OfSlot`), what is known of its effect (`EffectKnown`) and that the form still has the
  mode of its own call (`ModeIsOwn`). A lemma for each thing that can happen to a call shows
  that it keeps fitting; `WhoEnds`, `WhoCloses` and `WhoWrites` name the steps the action
  properties are about, and the four theorems follow from the invariant in those steps.
- **BrokerProofs.** `IInv` adds to the named invariants that at most one transaction has a
  customer's row (`LocksExclude`) and what a handler knows at each stage
  (`HandlersMakeSense`: it acts on a customer that was found, only a disable reaches
  `revoke`, a committed one sees its customer deleted). A step is a handler that goes on
  (`GoingStep`), one that is answered (`FinishStep`, with the cardinality of `Holders` going
  down by one exactly if it held a connection), the commit, or the end of the process.
  `NeverStuck` follows from `IInv` alone: if nobody can go on, nobody holds a row lock, so
  the pool is used up, so somebody holds a connection, who can go on.
  `BackOfficeImplemented` shows a client's call open until the commit, settled until the
  answer and closed then: the commit is the one step with an effect (`CommitDisables`),
  what comes before it is hidden (`GoingOnIsHidden`), and every answer is one that
  `BackOffice` gives in that phase (`AnswersArePromised`).
- **ProviderStoreProofs.** `IInv` adds to the types that calls own the ids they drew until
  they commit (`OwnsIds`, `Disjoint`), that each stored provider has exactly one limit and
  one feature (`OneEach`) and that rows refer to stored providers (`Referred`). With
  `OneEach` the details query is a function of the provider; the refinement then maps a
  commit to `Register`, each update to a `Change` of one field, and everything else to a
  stutter.
- **OptimizerProofs**, the greedy loop. For any points, distances and shipments. `IInv` says that
  `pickupsDone` and `steps` tell what was visited (`PickupsTell`, `StepsTell`, which counts
  the steps of every look, so that `EveryStopOnce` is what it says at the end); that a
  delivery waits only for a pickup that is admissible itself makes `NoConstraintDeadlock`
  follow. `TourImplemented` assumes distinct ids, without which an id is no shipment.
  `DistanceIsDriven` compares a sum made turn by turn with a recursively defined length. The
  step needs that appending to a path adds one leg (`LengthOfAppend`), which is an induction
  over the path; the library's induction theorems take a predicate and cannot be cited
  here, so `NatSetInduction` restates induction for a set, from the least element of a set of
  numbers. `DistanceTells` is the property at every turn, together with where the vehicle
  is. `ScansAlwaysDecide`: a turn with a candidate finds exactly one stop, by the same least
  elements, first of the distances and then of the positions; so the loop is
  deterministic, and stops only where the code returns; `EveryTurnUsesUp` (`TurnsUseUp`) is
  what termination needs besides.
- **OptimizerProofs**, the client of Google. For any request, also with repeated ids, and any
  feasible routes. `GoogleIInv`: the rows are the zero value and the caller's labels
  (`RowsAreLabelled`), a route visits rows of the request and picks each up before it delivers
  it (`RoutesPickUpFirst`), no visit is made twice (`VisitsAreMadeOnce`), and the results are the routes with each visit turned into a
  step (`ResultsAreRoutes`). `PrecedenceSurvives` follows because one row has one id, right or
  wrong; `NothingIsServedTwice` because two rows never have one (`RowsKeepApart`).

Not proved: liveness (`EveryRequestAnswered`, `EveryWalkEnds`, `LoadingEnds`, `CallsEnd`,
`ShutdownEnds`, `EveryCallReturns`). It rests on fairness, that is on ENABLED, which the
backends do not handle; it is model-checked on the instances above.

## 5. Where code and documents disagree

Two are runs that TLC must refute; the counterexamples are short.

1. `admins_reset`: two edits overlap; the first changes the address and a password is
   created for it; the second, which had read the row earlier and saw no change of address,
   writes the old address back and keeps the password.
2. `liststore_stale`: a list answer computed before a mutation arrives after the refetch of
   that mutation and stays on the screen, with nothing pending and no error.

More came to light while modelling. Each is stated as a property beside the others, and has
a configuration of its own to reproduce it (`tlc -config X.cfg M` reports the violation);
they are not among the runs of `PROJECT.json`.

| Configuration | Property | What happens |
|---|---|---|
| `MCAdmins_dup.cfg` | `DuplicateAnswers409` | the loser of two simultaneous creates gets 500, not 409: the unique violation is not translated |
| `MCCustomers_deleted.cfg` | `DeletedAnswers404` | an edit or a delete that passed its lookup answers 200 or 204 for a customer deleted in between |
| `Listing_complete.cfg` | `WalkIsComplete` | two rows of one millisecond on different pages; the cursor's instant is cut below both, and the older one is on no page |
| `AdminsView_reopened.cfg` | `ClosedFormWasSaved` | a form is left while its save is awaited and another is opened; "Salvar" does nothing in it while the first save is out, and the first save, when it succeeds, closes it and announces a success: what was typed there is lost |
| `MCSearchBox_entered.cfg` | `ShownIsInBox` | a term was searched for, the screen is left and entered again: the list is still filtered, the field is empty; with the timer of the view before still running, the same comes about without any search having been made |
| `MCProviderStore_overflow.cfg` | `CreatedLimitIsPositive` | a limit that was validated as an int of at least 1 is stored as a negative number after its conversion to 32 bits |
| `MCProviderStore_methods.cfg` | `ActiveMethodsAreFound` | the query for active access methods compares a row with NULL and returns nothing; the two queries for the newest and the last used API key have the same form, and no caller |
| `MCGoogleTours_shifted.cfg` | `LabelsComeBack` | Google's lists begin with a zero value and the client's do not: every visit and route is reported under the label of the row behind it, the last under none |
| `MCFakeOptimizer_blank.cfg` | `OnlyShipmentsVisited` | the optimizer drives to (0, 0) once for every stop that is real, and adds the way to the distance it reports |
| `MCFakeOptimizer_shared.cfg` | `OwnPickupFirst` | two shipments with one id; the second is delivered when the first was picked up |

Seen in the text alone: `sql/queries.sql` (line 63) excludes keys that are revoked already,
the code generated from it does not, so a disable overwrites the instant of a key revoked
before. `Broker`, which knows only whether a key is live, cannot tell the two apart.

An administrator's edit, block or unblock whose row is deleted between lookup and UPDATE
answers 500 by `toOutput(undefined)` in the same way as a duplicate (`RefusedWrite`).

## 6. Not modelled

What would come next:

1. **Leaving the page with a dialog open** (`AdminsView`): a call that is awaited when the
   view goes; `SearchBox` has the view's coming and going without the dialogs.
2. **Decoding of cursors** (`Listing`): what a cursor that was tampered with or cut off leads
   to (the first page).
3. **The second signal** (`Broker`) that `cmd/main.go:23` announces ("press Ctrl+C again to
   force") and that is swallowed, since `stop` is deferred.
4. **The instants of a disable** (`Broker`): both statements carry a `time.Now()` taken before
   they are sent, and the first may then wait for a row lock.
5. **Proofs**: the safety half of the other liveness properties, as `PagesUseUp` is that of
   `EveryWalkEnds` and `TurnsUseUp` that of `EveryCallReturns`.

Of the broker's generated queries those on optimizations, runs, single API keys and vehicles
have no caller, and no code fills their tables: there is no behaviour to model. The
commented-out updates and deletes of providers are modelled only as the statements they
would call. Left out for good: cryptography and the middleware that no route uses,
declarative schemas, presentation, wiring and configuration.
