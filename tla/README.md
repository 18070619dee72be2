# A verification project for Operations Nerd

Operations Nerd is a FastAPI program over one SQLite database. Its *agentic CRM* (`operations_nerd/agentic/`)
lets the owner of a small business define a CRM by talking to an assistant: the assistant proposes operations, the
owner approves them, each approval is a new version of the definition, and records are checked against the
definition that is current. The older *event pipeline* (`pipeline/`, `approval/`, `packs/`, `questionnaire/`,
`config_agent/`, `state/`) drafts an answer to an incoming event and waits for a human before it is sent.

The TLA+ modules here model the parts of the program that keep state. TLC checks them on small instances, and
TLAPS proves the most important properties for every instance.

## The system

| Component | State | Operations | What is hard |
|---|---|---|---|
| Proposals and versions (`agentic/chat.py`, `store.py`) | `businesses.current_version`, `spec_versions`, `proposals` | chat, approve, reject, revert | handlers run on a thread pool; what they read before their first write may be old when they write; a transaction may fail half-way |
| Operations engine, validator (`operations.py`, `validator.py`, `spec.py`) | a definition: entity types, fields, links | twelve operations, lists of them | cascades of archived links, nested archives, labels reused after an archive; a list that is applied leniently, stored, and applied again strictly |
| Chat turns (`chat.py`, `store.py`) | `chat_usage` | reserve, refund; the call and its one retry | midnight, races for the last turn, refunds, crashes |
| Records (`records.py`, `values.py`) | `entities`, `entity_attributes` | create, update, get, list, linked-by | check-then-write, definitions that change meanwhile, reads that are no snapshot |
| Event pipeline, approvals (`pipeline/`, `approval/`) | `events`, `drafted_actions`, `approval_policies` | create_event, approve, reject, list | read-then-update races, sending inside a transaction, the write lock held during model calls |
| Accounts, sessions (`auth.py`, `routes.py`) | `accounts`, `sessions` | signup, login, logout, each request | expiry, pruning, secrets per process |
| Rate limiter (`limits.py`) | a dictionary of timestamps | check and record, for login and signup | check and record are separate critical sections |
| Body limit (`middleware.py`) | bytes seen of one request | receive, send | a refusal racing the answer of the app |
| WSGI entry point (`wsgi.py`) | the wrapper and the process it belongs to | first request | forks, double-checked locking |
| Configuration agent (`config_agent/`) | pack files | propose, apply | compare-then-write |
| Backup (`scripts/backup_db.py`) | backup files | copy, check, rename | interruption, two in one second |
| Impact check (`impact.py`) | none, it reads the records | compute_impact | it has to agree with the engine, coerce_value and the views, which are elsewhere |
| Packs (`packs/loader.py`) | none | load_pack, validate_pack | names in one file that another has to provide |
| Questionnaire (`questionnaire/`) | the settings in `businesses.settings_json` | create_business | a pack that is read file by file while it changes; settings older than the prompts that need them |
| Templates, configuration, frontends, benchmarks | none, or read-only | | presentation and pure checks |

How they interact: every handler opens a connection with `db.get_conn`, whose `with` block commits at its end and
rolls back on an exception. All of them share the one write lock of SQLite. The chat handler spends a chat turn, asks
a model provider, runs the operations engine on the answer and stores a proposal; approve runs the engine again on
the definition that is current and appends a version; records read the current version on every request. The
provider is outside: it answers anything, or nothing.

Two facts about SQLite and Python's `sqlite3` decide the grain of the models. A `SELECT` that comes before the first
write of a connection is in no transaction: it sees what is committed when it runs, and two of them may see different
states. The first write takes the write lock, which is held until commit or rollback: what follows is one step for
everybody else. `records._begin_write` takes the lock before the first read instead.

## Modules

| Module | Models | Extends |
|---|---|---|
| `SpecLog` | what the owner is promised: a log, offers, and four ways to decide them, each in one step | |
| `Proposals` | chat, approve, reject and revert as they are coded: threads, early reads, transactions | implements `SpecLog` |
| `ProposalsProofs` | proofs about `Proposals` | `Proposals` |
| `LinkVisibility` | what archiving means: a link is visible when it is not hidden and its ends are there | |
| `SpecEngine` | the twelve operations and the validator | implements `LinkVisibility` |
| `ProposalBatch` | a list of operations, applied when it is proposed and again when it is approved | `SpecEngine` |
| `SpecEngineProofs` | proofs about `SpecEngine` and `ProposalBatch` | `ProposalBatch` |
| `ChatTurn` | the turns of one account: reservation, call, retry, refund | |
| `Records` | writes and reads of records against a definition that changes | |
| `Impact` | what the owner is told of an operation, and what the views of the records show | `Records` |
| `RecordsProofs` | proofs about `Records` and `Impact` | `Impact` |
| `Values` | coerce_value, the function of `Records`' instance | |
| `Drafts` | the event pipeline and the approvals: transactions that wait for a model | |
| `DraftsProofs` | proofs about `Drafts` | `Drafts` |
| `Sessions` | signup, login, lookup, logout, expiry, sweeps, restarts | |
| `SessionsProofs` | proofs about `Sessions` | `Sessions` |
| `RateLimit` | the sliding windows of login and signup | |
| `LimitsProofs` | proofs about `ChatTurn` and `RateLimit` | `ChatTurn`, `RateLimit` |
| `WsgiEntry` | the wrapper of a process that may fork | |
| `BodyLimit` | one HTTP request through the middleware | |
| `Http` | a request from the WSGI server through wrapper and middleware to its answer | `WsgiEntry`, with an instance of `BodyLimit` |
| `HttpProofs` | proofs about `WsgiEntry`, `BodyLimit` and `Http` | `Http` |
| `ConfigAgent` | proposals for the files of a pack | |
| `Questionnaire` | the businesses that answered a questionnaire, and the prompts of their events, while the pack changes | `ConfigAgent` |
| `QuestionnaireProofs` | proofs about `ConfigAgent` and `Questionnaire` | `Questionnaire` |
| `PackLoader` | load_pack, the function of the instance of `Questionnaire` | |
| `MC*` | small instances for TLC | |

An operator whose name has a suffix (`CanAppend_Unchecked`, `NextId_Reused`) and whose comment starts with
*Fault* is not part of any behaviour. It is a plausible mistake in the operator of the same name, and it stands beside
it to show that the property which is meant to catch the mistake does.

### Proposals

`current_version`, `spec_versions` and `proposals` are the tables, for one business. `loc[t]` holds the local
variables of the handler that runs on thread `t`: the proposal row as it was read, the version it saw, the
specification it read, and where it is. `ReadBusiness` and `ReadSpec` are the two `SELECT`s of
`get_business_with_spec`, `ReadTarget` is `get_version`; everything from the first write on is one action, with one
variant for the commit and one for each way to roll back. Reject is a compare-and-set and needs no local state.

Definitions and operation lists are values: `Outcomes[o][s]` is the set of definitions that applying `o` to `s` can
give. It is a set because the keys of what is created are random, and it is empty if the validator refuses. Whether
`o` applies to `s` depends on nothing else, which is what makes `ReplayIsAccepted` meaningful: approve replays the
operations on the definition it reads now.

### SpecEngine

`entities`, `fields` and `links` are the definition, keyed by server-generated keys. Every action is one operation
that was kept: `Accept` applies the validator to the result and is the only way a variable changes, as in
`apply_each`. Labels are values with a normal form, option lists are well formed or not, and all types with options
are one type, as are all types without.

### ProposalBatch

A list of operations goes through the engine twice. `Apply` and `Refuse` are apply_each on the assistant's answer: what
does not parse, resolve or validate is dropped, together with what it did to its copy of the definition. `Approve`
goes back to the version's definition, and `Replay` is apply_operations on what was stored, where one refusal would
lose the approval. In between every key is drawn again, so what an operation refers to is a ref (`aliases`, by kind) if
an earlier operation of the list creates it. `made` is the key that each operation drew; it says how the two
definitions correspond (`Renamed`). An answer names keys of the definition it was shown, or refs. It is assumed not to
name by chance a key that is yet to be drawn (`BatchAssumption`, which also says that keys are finitely many, eight
hexadecimal digits each, and that a version holds what `SpecEngine` keeps true of every definition: it is valid, its
fields belong to its entity types, and its links wait only for archived ones). `ReplayIsNotRefused` and
`ReplayIsTheSame` are what `Proposals` takes for granted when it says that whether a list applies depends on the
definition alone (`Outcomes`).

### ChatTurn

`chat_usage[d]` is the row of the account for day `d`. The reservation is two actions, because its two statements each
ask the clock; the write lock is held in between. `given` is a history variable: the turns that were counted on a day
and not given back. The answers of the provider are whatever `apply_each` can make of them.

### Records

`spec` is the current definition, with archived parts left out; `records` and `attributes` are the tables; `writer`
is the write lock. `BeginWrite`, `Check` and `Write` are the three moments of create_record and update_record, and
`ReadSpec`, `ReadPage` and `ReadLabels` the three reads of list_records. get_record is the page with one record.
list_linked_by reads the same links from their other end: `ReadInbound` is the definition with the links that end at
the record's type, `ReadOwned` the record itself, and each `ReadHolders` one query for the records behind one link.
Nothing is locked in between, so a holder may have let go of the record, or another taken it, between two queries.
`BacklinksAreSingle` says what the caller may rely on all the same.
`ChangeSpec` stands for whatever commits a version in `Proposals`. The ends and the cardinality of a link and the
entity type of a field are constants: no operation changes them. That a key is never drawn twice is an assumption
of this model (keys are 32 random bits, and only the keys of one version are avoided).

What a field makes of a value is `Coerce`, of which `Records` assumes one thing: a value that is stored would be left
alone if it were written again. `Values` is the coerce_value that the instance takes for it. A string is a value of
its own there, and what a number, a date or an email address looks like is left to the tables of the instance. The empty
string is the exception that TLC found: a text field stores it when it is given a list of one empty string
(values.py:37), and it counts as no value from then on. Hence `IsEmpty` in the model, as in the code.

### Impact

compute_impact counts records for the owner who decides on a proposal. `Impact` takes the sets that it counts
(`FieldValues`, `MissingRequired`, `NotConvertible`, ...), the definition after the operation (`After`, from the engine),
and what `_view` and `_link_views` show of the records by either definition (`VisibleValues`, `Invalid`, ...).
`ImpactIsTrue` compares them in every state that `Records` can reach, so with whatever was stored under earlier
definitions: values of another type, hidden values, links to hidden records, empty strings. Of update_field it asks
that what breaks was counted, since what was counted may have been invalid before. Of change_field_type it
asks for equality, if the options come without blanks around them (see Disagreements).

### Drafts

`db` is what is committed and `tx` what the holder of the write lock sees. create_event inserts first, so `ReceiveEvent`
takes the lock and `Extract`, `Draft` and `ApplyPolicy` happen while others wait; approve and reject read the draft
(`ReadAction`) in no transaction and take the lock afterwards, or give up after five seconds (`LockTimeout`). `sent`
is outside of the database: no rollback takes a message back. `Fail` is any error at any point, the checks of an event
included.

### Sessions and RateLimit

In `Sessions` a token is a value and its hash a pair of key and token. The three moments of a login are its reads
(with the time of the sweep), the sweep with the insert, and the answer; the two of a lookup are the `SELECT` and the
comparison with the clock, with the `DELETE` by id after it. Times are numbers, and their ISO strings are what they
sort as: `Iso` keeps the character after the seconds, because a whole second has no fraction.

In `RateLimit` each function of `limits.py` is one step (it holds the thread lock), and `counted` is the history
that an exact sliding window would keep. A list of times is how often each time is in it: the order only decides what
the Retry-After header says. A login is `CheckLogin`, then `LoginFailed` or `LoginSucceeded` later.

### WsgiEntry, BodyLimit and Http

In `WsgiEntry` each process has its copies of `_lock`, `_wrapper` and `_wrapper_pid`; a wrapper is named after the
process its loop runs in, and the unlocked check is two reads. `BodyLimit` is one request: `receiving` and `sending` say
where the two tasks of the application are suspended, and `wire` is what the client gets. `Http` puts them together as
the deployed program does: a thread gets its wrapper, the wrapper calls the middleware in its loop, and the thread
returns when the answer is whole. One request at a time is followed through the middleware, whose variables belong to
one request; the others are answered in one step, and whichever thread comes to call its wrapper next may be the
one that is followed. `Given` is the Content-Length as `application` hands it on, which is where an empty one is
dropped. That the wrapper's answer ends is the only thing assumed of `a2wsgi` (external).

### ConfigAgent and Questionnaire

A proposal stays with the client between `Hold` and `StartApply`. Apply compares the hash of the file (`Compare`),
copies the pack and puts the new content in its place (`CopyFiles`, `CopyRest`), loads the copy (`Validate`), and writes:
`Open` is the truncation, `Write` the content. The editable files are copied in one step, since there are two of them
and the content of one is replaced; the others come before or after. No step locks anything, so `EditByHand` and the
steps of other agents come between any two. `overtaken` is the history that tells whether the copy that was validated
is still what the pack holds, apart from the file that is replaced. Which packs load is a parameter (`Loads`),
because `load_pack` is a pure check. `PackLoader` is that check, and the instance computes `Loads` with it: prompts may
ask for a setting that only some questionnaires provide, a file may be empty or no YAML, one may be missing, and an
entity type may occur twice.

`Questionnaire` adds who uses the pack: a request that creates a business (`StartCreate` to `CreateBusiness`) and an
event of a business (`StartEvent` to `RenderTemplate`). Both load the pack file by file, in the order of `load_pack`,
while `ConfigAgent` and the owner go on writing. A business keeps the settings of the day it was created, its
events meet the prompts of today. `upToDate` is the history that tells whose settings are from the files as they are,
`answered` the questionnaire that a business answered. `EventsRender` names the two ways in which a prompt can lack a
setting. The prompts themselves were changed since the business was created. Or its questionnaire had one id for two
questions: load_pack does not refuse that, and answers_to_settings keeps the last of them (`SettingsOf`, `IsLost`). Both
happen in the run, and nothing else that the agent writes (questions and entities) stops an event. A pack that is read
while its questionnaire is truncated loads if its prompts need no setting; the business is then created without
settings, which no prompt of that day misses. What prompts take from the event (`event.*`) and paths below a setting
are not modelled.

## Runs

| Run | Instance | Shows |
|---|---|---|
| `proposals` | 2 threads, 2 proposals, 3 definitions, 2 operation lists, 4 versions | every invariant of the history, and that the handlers implement `SpecLog` |
| `engine` | 3 entity types, 1 field, 2 links, 4 labels of which two are equal once normalized, 3 option lists | cascades: links return exactly when they should, and nothing archived gets stuck |
| `limits` | 3 requests, limit 2, 2 days, up to 2 refusals in an answer; 2 logins, 1 address, 2 emails, limits 1 and 2, windows 2 and 3, sweep at 1 key | charges are right, the better answer is kept, no message is refused while a turn is left; no window exceeds its limit, and nothing counts too long or too short |
| `over_limit` | 1 or 2 requests | a disagreement between code and documentation, below |
| `batch` | 4 entity types, 2 fields, 2 links, 3 labels, 2 refs of which one looks like a key, 3 operations and 1 refused | what was proposed is what is approved, and it is never refused then |
| `records` | 2 requests, 3 records, one field of 5 types, one link, 5 values, 7 definitions | one_to_one links from both ends, labels, writes that fit the current definition, and an impact check that is true |
| `drafts` | 3 handlers, 2 events, 2 drafts | events get one draft, decisions are whole, policies are final, and decisions end although the model may not answer |
| `drafts_twice` | 2 handlers | a disagreement, below |
| `sessions` | 2 handlers, 2 accounts, 3 tokens, a lifetime of half a second, 1 restart | grants are due, live sessions survive |
| `http` | 2 processes, 2 threads, 1 failing constructor, limit 1, messages and body up to 2 | own wrappers, built once; one whole response; a limit that bites when it should and only then; no request hangs |
| `config_agent` | 1 agent, 2 files, 4 contents of which one repeats an id, 2 states of the rest, 1 business, 1 request, edits by hand at any moment | what is applied loads unless it was overtaken; the events of businesses render while the pack changes, but for two reasons that are named |
| `config_race` | the same | a disagreement, below |

The bounds. Two threads suffice for every race between a read and a write of `Proposals`, since a third would only
add more of the same writes between them, and the proofs hold for any number. Four versions allow an approval after a
revert of an approval. Three entity types and two links (loops and parallel links included) let a link wait for one
end, then the other, while a second link does the opposite. Three requests with a limit of two are the least in which
a refund and a reservation race for the last turn; two days are the least with a midnight. Three records are the
least with two holders and a target. One field and one one_to_one link are enough for TLC to see every check of the
engine and of records at work; two fields of one label, and many_to_one links, are covered by the proofs. `MaxVersion`, `MaxDay`
and `MaxRejected` are the only bounds on counters.

Of the later modules: three handlers let an approval and a rejection overlap with an event. Two emails and one address
make a sweep necessary that touches keys of both windows. A clock with two units in a second has times with and
without a fraction. One fork is enough for `WsgiEntry`, as a child copies its parent whatever the parent once
copied. A limit of one byte and a body of two have every way to be too long: in one message, in two, before and after
the answer begins. A batch of three operations can create something, refer to it and refer to that again, or create
what an archived thing gives way to; a fourth that is refused can stand anywhere among them. Its definition has a
field, an archived entity type and a link that waits for it. `MaxTime`, `MaxRestarts`, `MaxBody`, `MaxChunk`, `MaxRaw` and
`MaxFailures` bound the clocks and counters of these modules; `MaxOperations` is a limit of the code.

One agent is enough for `config_agent`: what the apply of another does to the pack is, for the first, an edit by hand,
which `EditByHand` makes at any moment as well. One request may create the business and then be its events, one after
the other. The proofs hold for any number of agents, requests and businesses.

`limits` puts two components into one run that share no state, the turns of `ChatTurn` and the windows of `RateLimit`:
each is followed while the other is where it starts (`LimitsNext`), so the states are those of the one and those of the
other, not their product.

`ImpactIsTrue` is evaluated in the states of `records` in which no request is under way. It reads nothing but what is
committed, and since every request may fail, whatever is committed can be found in such a state as well. Three moments
after the first are enough for `RateLimit`: a hit can leave the shorter window, then the longer.

The runs check what is hardest to see. A log that only grows, proposals that are decided once and stale marks that are
true all follow from `ImplementsLog`, so `proposals` does not check them by themselves; they are proved as properties
of their own. The type invariants of `Proposals`, `SpecEngine`, `Records`, `Drafts`, `ChatTurn`, `RateLimit`,
`Sessions`, `WsgiEntry`, `BodyLimit`, `Http` and `Questionnaire` are proved and not run.

Deadlock is checked in all runs but `batch`, where the list ends.

### Fairness

Two specifications assume fairness. In `Drafts`, `FairSpec` lets every handler go on that waits for nothing but
the scheduler or the busy timeout of SQLite; nothing is assumed about a handler that waits for the model, which has
no timeout in `llm_client.py` and may hold the write lock for ever. In `Http` threads and tasks are scheduled, an awaited
send ends and the application answers, while the client may stop sending; a lock that is free is only taken again after a
constructor that failed, so weak fairness is enough (`SettledStays`).
In the others every handler may fail or stop at any step, and no liveness is claimed.

### Disagreements

* `over_limit`: `refund_chat_turn` (store.py:235) lowers the row of the day on which the refund happens. After a
  midnight that day gives one turn more than the limit, against "assistant messages per account per UTC day"
  (config.py:14). What does hold is `ExactUntilMidnight` and, over all days, `TotalIsCharged`.
* `drafts_twice`: approve_and_send and reject_action (approval/service.py:32-61) look at the status before their
  transaction begins and update by id alone. Two of them can both find the draft pending: in the run it is sent and
  then marked rejected, against "the guard against acting twice on a non-pending action" (test_approval_smoke.py:5).
* `config_race`: apply (config_agent/service.py:173-184) compares the hash of the file and only then copies the pack,
  loads the copy and writes. What changes the file in between, by hand or by another apply, is overwritten, against "so
  a proposal can't be applied on top of a file that changed underneath it" (service.py:98-100). What does hold is
  `AppliedLoads`.

Five smaller ones have no run of their own, because the models show what holds instead. A day that changes between
the two statements of `reserve_chat_turn` (store.py:223, 227) refuses a turn with nothing used; `RefusalsAreDue` names
it as the only such case. An outage on the retry gives the turn back (chat.py:288) although the first call was answered, which a test
(`test_provider_outage_on_retry_refunds_the_turn`) wants and the comment at chat.py:254 does not. Overlapping logins
for one email exceed its limit of failures (limits.py:22, 78, 86): `LimitsHold` says by how many at most. And
compute_impact tries the values with the options of change_field_type as they were given (impact.py:131), while the
engine strips them (operations.py:231, 316): with blanks around an option, a value is announced not to fit that fits
afterwards, against "will not fit (kept, flagged on the record)" (frontend_app/index.html:793). `FlagsWhatIsTold` holds
for options without them, and fails as soon as that condition is left out. Lastly, two questions of one id pass
load_pack, both are answered by one value, and answers_to_settings stores it under the later settings_key only
(questionnaire/validation.py:84). A prompt that needs the other then fails for that business at every event, although
load_pack has checked that the questionnaire has a settings_key for it; `EventsRender` names the case.

## Proofs

The proofs assume what the modules state as `ASSUME`: the shapes of the constants, and that the values that mean
"nothing" (`NoRow`, `None`, `Absent`, ...) are different from all others. TLC evaluates these assumptions in the runs.

`ProposalsProofs`. The inductive invariant says, besides the types and the properties themselves, what each
thread's local variables are worth: a proposal read as pending still has the same base and operations, the
specification read for a version is that version's for ever (versions never change), and every stored proposal's
operations apply to the definition at its base. From it follow all the properties of the run, and that each
step is a step of `SpecLog` or stutters: chat, approve, reject and revert take effect when they commit.

`SpecEngineProofs`. The invariant is the validator's (`IsValid`) plus `MarksAreTrue`, which the validator does
not check and without which a link could wait for something that is active. The refinement holds because
`Cascade` and `Uncascade` compute exactly the difference between the visible links before and after.

`SpecEngineProofs`, about `ProposalBatch`. `ReplaysTheSame` holds for lists of any length without an induction over
lists: the steps of the specification are the induction. While the list is drafted the invariant keeps every
definition it went through (`IsRun`); while it is replayed a renaming of keys takes the definition of the run at `index`
to the one that is being built (`Follows`), and with the definition the refs and the keys drawn so far (`Corresponds`).
What remains is that one operation does the same under a renaming (`SameStep`). There is one lemma for those that
create, which add a pair of fresh keys to the renaming, and one for each kind of change; the cascade of an archive and
its release are the hard case (`CascadeUnder`, `UncascadeUnder`). That an operation is a step of `SpecEngine`
(`PerformIsStep`) gives the validity of every definition on the way. That names mean the same on both sides
(`SameMeaning`) is where the keys and refs of `BatchAssumption` are needed.

`NeverRefused` says of the same replay that its next operation can be performed, which is `ReplayIsNotRefused` with its
ENABLED written out as a choice of next values: `Done` is `Perform` as an operator on values, with every guard and the
validation (`PerformIsDone` proves that they agree). The operation was performed in the run; its guards (`AsksUnder`) and
the validator (`ValidUnder`) do not see the renaming, and an unused key is left, because there are finitely many keys of
a kind and the replay has drawn as many as the run had (`FreshKey`). That the list is not longer than
`MaxOperations` (`ListFits`) is needed too.

`RecordsProofs`. The types need the shape of what is cleaned, and that stored values are values of some type. The
invariant says that whoever is between its check and its commit holds the lock, that what the check found still holds,
that stored targets exist, and that rows that do not exist have no attributes. Reads rely only on records keeping their
entity type. For `ImpactIsTold` a second invariant says that only fields that can be edited, and links, have stored
values (`LinksAreEditable`, `TypedAlways`); of the conversions it is assumed that other options refuse a value only for
the options it uses, which TLC checks of coerce_value, multiselect included. One lemma for each of the four parts
(`Hides`, `Returns`, `Flags`, `Breaks`) compares what is announced with what is seen. The proof does not use that no
request is under way.

`DraftsProofs`. The invariant says who holds the write lock, what the transaction of the holder has done so far
(`Work`), that what everybody else sees is what is committed, and that a draft that approve or reject has read is one
that no policy has sent: policies send only drafts that nobody can have read yet. The two properties of `Commit`
follow from one lemma about what a commit changes. `DecisionsAreMade` follows a decision through the places where it
can be, from `act` to its commit (`DecisionPlaces`). From each it moves only forwards, and nobody else can take away
what lets it go on: a lock that is held makes the timeout possible, and a free one the transaction.

`LimitsProofs`, about `ChatTurn`. The argument counts. A day has been given at least as many turns as there are requests
that hold one of them and could still give it back (`ChargesHold`); with it, a refund on the first day never meets a row
at zero, where `MAX(turns - 1, 0)` would make the two histories part. Of the current day it says that no more is charged
than was given (`DaysHold`), which is why a refused message means a day that is used up. It is assumed that the requests
are finitely many. `NeverUndercharged` compares two sums over the days: every step changes one value of each, and what a
refund takes off the charge is at most the one turn it takes off what was given (`TotalStep`). For this the module first
proves what the library's `SumFunction` does: that it unfolds, grows with its function, and changes as much as a
single value of it changes (`SumUnfolds`, `SumIsMonotone`, `SumChanges`). Each is proved by a least counterexample among
the subsets of the finite set.

`LimitsProofs`, about `RateLimit`. The table and the history agree on every time that is in the window of its key
(`Matches`); the longer window of the sweep is what keeps it so (`RecordedMatches`). A key that had room when it was
checked then has at most its limit. For the failures of an email the invariant bounds two things together, the failures
in the window and the requests whose password is being verified for it: a request enters only while the failures are below
the limit, and each failure ends a request (`AttemptsInv`).

`SessionsProofs`. What a handler has read of a session stays true although the row may be gone, because ids are only
ever larger and a token is issued once; a row whose logout was answered is of an older secret (`RowsHold`).
`IsoSorts` is the lemma for the sweep: the strings it compares sort as the times they stand for, because a whole second
is written without a fraction and the character that follows it sorts before the point of a fraction.

`HttpProofs`. A thread that has found the stamp of its own process knows that the process built the wrapper: a stamp
is copied by a fork, but never becomes that of the child (`ProcessHolds`), and between building and stamping only the
holder of the lock is there. What the client has received is a function of where the two tasks of the request are
(`NotCalled`, `AppAnswers`, `Refuses`); the limit follows from `passed = seen` until somebody answers.

`EveryRequestEnds` puts three arguments together. The thread that holds the lock leaves a wrapper and a free lock, and
both are there to stay (`HolderLeavesIt`, `SettledStays`): one that waits finds it free for good (`WaitingEnds`). The request
that is followed comes nearer to its answer with each step of either task, the refusal included, and what it gets is
whole when neither can go on (`RequestMoves`, `DoneIsAnswered`). And the thread that called the wrapper returns, whether or
not its request is the one that comes to be followed (`ServedThreadEnds`).

The two theorems about what happens in the end, `DecisionsAreMade` and `EveryRequestEnds`, have hypotheses beside
the fair specification:

* That a fair action is possible where its guards hold (`GuardsSuffice`, `LoopGuardsSuffice`). The prover has no rule
  for ENABLED, so it knows what a fair action does (`ContinueMoves`, `LoopMoves`), and nothing of when fairness
  demands it. The guards are written out (`CanContinue`, `CanPrepare`, `CanFinish`, `CanRefuse`, `CanSay`, `CanEmit`).
  That an action asks for them is proved (`ContinueAsks`, `GuardsAreAsked`); that they suffice can be read off the
  actions, in which everything else is an assignment. TLC, asked on the instances of `drafts` and `http`, found each
  of them equivalent to its ENABLED in every state that can be reached; no run repeats that.
* In `Http`, that constructors stop failing. `MaxFailures` implies it, but only by an induction. Without it, a thread
  might wait for ever while others take the lock and fail.
* In `Http`, the fairness of the threads stands under a `[]`. That says no more, since what is fair is fair from every
  moment on, but the prover does not see this under a quantifier.

`QuestionnaireProofs`. While an agent is not `overtaken`, what it copied is what the pack holds, apart from the file it
replaces, and once validated the pack with the new content loads (`Knows`). Every step of anybody else either keeps that
or overtakes it (`NotOvertaken`, `OthersKeep`); truncating or writing the same file keeps it. No assumption is made on who
edits when. Of businesses the invariant says what `upToDate` is worth: who read the other files as they are has them
(`CreatorHolds`), a business made from them has every setting they refer to but those lost to a repeated id
(`BusinessHolds`), which is where load_pack's check and validate_answers meet (`SettingsSuffice`), and an event of such a
business has read the same files (`EventHolds`).

Left to TLC: ENABLED, which is beyond the prover. `ReplayIsNotRefused` is checked as it stands, and proved only in the
form of `NeverRefused`; of `DecisionsEnd` and `RequestsEnd` the runs check what the theorems take as a hypothesis, that
guards suffice, together with the rest. What the functions of the instances compute (`Values`, `PackLoader`) is
evaluated and not proved.

## Not modelled

The order of the work was: what the product promises its owners first (`SpecLog`, `Proposals`, `SpecEngine`), then what
costs money or loses data (`ChatTurn`, `Records`, `Drafts`), then the components around them. What is left out:

* The routes and the application (`main.py`, `routes_crm.py`, `state/routes.py`): they parse a request, call one of the
  functions that are modelled and format its result.
* Passwords, invite codes, addresses and cookies (`auth.py`, `routes.py`): checks of one request on values that no
  other step changes. `Sessions` begins where they succeeded.
* Templates (`template_store.py`): read-only files. A business that starts from one gets its keys drawn anew, and its
  first version is an initial state of `Proposals`.
* The model providers (`gemini_llm.py`, `anthropic_llm.py`, `llm_client.py`): HTTP calls. `ChatTurn` and `Drafts` let
  them answer anything, or nothing.
* Configuration (`config.py`): environment variables, read once. The limits are constants of the models.
* The rest of the database layer (`db.py`): `init_db`, which creates the tables and adds missing columns before the
  server takes requests (two processes that start on an old database may both find a column missing, and one of them
  then fails to start), and helpers that no route calls: contacts, follow-ups, merges of settings and of attributes.
* Keys that are drawn twice. The models draw a key once, which 32 random bits make likely but not certain
  (spec.py:89); after a revert a key that records still hold values under could come back.
* A composition of `Proposals` with `SpecEngine`. They meet in `Outcomes`, of which `Proposals` assumes that it depends on
  the definition alone; `ProposalBatch` is where that is checked.
* The backup script, the frontends, the benchmarks: tools and clients beside the program, which share no state with it
  but the database file, or nothing.
