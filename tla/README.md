# A verification development for toy-tstat

toy-tstat is a thermostat that fetches its state (temperatures, mode) over a
serial line as JSON, decides about two relays, and sends the state back.  It is
written as cooperating tasks on *mulib*, a small library of run-to-completion
scheduling, queues and timers, of which the repository holds a copy.  The
TLA+ modules here model both: mulib's scheduler, data structures, strings and
log, and the chain of tasks of the thermostat that runs on them.

    tlc -workers 2 -config MuSpsc.cfg MuSpsc        # one run
    tlapm MuSchedProofs.tla                         # one module of proofs

Paths below are relative to the repository, `core/`, `platform/`,
`extras/` and `laboratory/` to its `src/mulib/mulib/`.


## 1. Inventory

| Component | State it keeps | Operations | What makes it correct |
|---|---|---|---|
| `platform/mu_time` | none (the clock is read) | offset, difference, precedes, follows, equals | comparisons stay an order across the wrap of the counter |
| `core/mu_spsc` | `head`, `tail`, store, mask | init, reset, put (interrupt level), get (foreground) | a bounded FIFO whatever an interrupt's put and a get interleave; no slot touched by both |
| `core/mu_mqueue` | storage, `index`, `count`, `on_put`, `on_get` | init, reset, put, get, peek, queries | a bounded FIFO although its notifications call it again |
| `core/mu_sched` | interrupt queue (`mu_spsc`), asap queue (`mu_mqueue`), sorted array of deferred tasks, current and idle task, clock function | step, asap, defer_until, defer_for, from_isr, remove_deferred_task, reset, set_idle_task, queries | tasks run when due, earliest first, equal times in order; a full queue refuses; nobody starves without cause |
| `core/mu_task` | function, `state` and `user_info` of a task, two hooks | call, get/set state, yield, wait, defer, transfer, install a hook | a task's turn and its state agree |
| `core/mu_timer` | `state`, `delay_tics`, `delay_until`, `on_completion`, `is_periodic` | init, start, stop, expiry | at most one live deferral per timer, none after a stop |
| `laboratory/mu_list`, `mu_queue` | links in the items, `head`, `tail` | append, prepend, remove, delete, reset; push, pop, delete, reverse | the chain is the waiting line, `tail` is its end |
| `laboratory/mu_access_mgr` | owner, pending queue | request, release, reset | one owner; nobody waits for a free resource |
| `laboratory/mu_periodic` | `_period`, `_trigger_at`, target task | init, start, stop, expiry | the target is called once every period, and not after a stop |
| `coms_mgr` | task state, UART `event`, client's buffer and count, `had_error`, continuation | send, recv, the UART callback, the task | a receive ends exactly once, with the whole message or an error |
| `model_iface` | task state, buffer, `had_error`, continuation | pull, push, the task | its caller resumes after the pull has ended |
| `tstat_app` | task state, `had_error`, continuation | start, the task | a round ends exactly once |
| `tstat_model`, `tstat_logic` | the model: name, system mode, three temperatures and settings, two relays | load from JSON, dump to JSON, relay decisions | loads are whole, a dump can be loaded, the relays exclude one another |
| `jems` (JSON writer) | stack of levels, output function | open, close, values, keys | what comes out is read back as what was meant |
| `jsmn` (JSON tokenizer, third-party, part of the program) | position, tokens, the token that holds the next | init, parse, parse a pattern, match a pattern | tokens nested in the text; what is cut off is refused; a pattern finds what it spells |
| `extras/mu_log` | reporting level, logging function | set both, log | lines of the level and above, and no others |
| `task_info` | names of tasks and states, the task called last | the two hooks, the warning of an endgame | the log tells what happened |
| `core/mu_str` | a slice of a run of bytes | slice, copy, compare, search, match, trim, parse a number, copy out | slices stay within their bytes; searches agree |
| `docs/template_task.c` (the pattern for a task) | task state, timeout, continuation | start, the task | calls back once for each start, whatever comes late |
| `chaff/`, `docs/template.c`, tests, `fff.h` | - | - | not part of the program |

**How the parts interact.**  There are two levels of execution: the foreground
superloop, which calls `mu_sched_step` again and again, and interrupts.  The
interrupt queue `mu_spsc` is the only structure of mulib both touch;
`coms_mgr`'s UART callback also writes `self->event`, which the task reads
later.  In the foreground one task runs at a time, to its end.  Tasks reach one
another by the scheduler's queues (`mu_task_yield`, `mu_task_transfer`,
`mu_sched_asap`), with no result but what they leave in memory; and some
components *call* a task inside an operation (`mu_mqueue`'s notifications,
`mu_timer`'s `on_completion`, `mu_access_mgr`'s grants), which may call the
component again before it has returned.

    caller -> tstat_app -> model_iface -> coms_mgr <- UART interrupt
                 |  ^____ transfer ___|  ^_ transfer _|
                 v
            tstat_logic

**What is hard about it**, and hard to test: interleavings of an interrupt with
the foreground (`mu_spsc`); operations nested in their own notifications
(`mu_mqueue`, `mu_access_mgr`, `mu_timer`); a clock that wraps; full queues
whose refusal nobody looks at; starvation between the three queues; one variable
for many interrupt events (`coms_mgr`); a turn of a task that is owed by nobody
or by two (`tstat_app`); an answer that crosses its timeout (the pattern task);
texts cut off, damaged or sent by others (`jsmn`, `tstat_model`); indices into strings.
`PROJECT.json` lists these hazards line by line with
the property that answers each.


## 2. The modules

| Module | Models | Extends / uses |
|---|---|---|
| `MuTime` | `platform/mu_time.c`: a word of `2*HalfRange` values that wraps | |
| `BoundedFifo` | abstract: what a bounded queue promises | |
| `MuSpsc` | `core/mu_spsc.c` | implements `BoundedFifo` |
| `MuMqueue` | `core/mu_mqueue.c` | implements `BoundedFifo` |
| `Calendar` | abstract: what deferring a task promises | `MuTime` |
| `MuSched` | `core/mu_sched.c` | `MuTime`; implements `Calendar` |
| `MuTimer` | `core/mu_timer.c` | extends `MuSched` |
| `MuPeriodic` | `laboratory/mu_periodic.c`, in one queue with the timers | extends `MuTimer` |
| `WaitingLine` | abstract: what a linked queue, and a list beside it, promise | |
| `MuQueue` | `laboratory/mu_queue.c` on `mu_list.c`, and a list that shares its items | implements `WaitingLine` |
| `MuAccessMgr` | `laboratory/mu_access_mgr.c` | |
| `ComsMgr` | `coms_mgr.c` without a client | extends `MuSched` |
| `TstatApp` | `tstat_app.c`, `model_iface.c` on `coms_mgr.c` | extends `ComsMgr` |
| `TstatModel` | `tstat_model.c`, `tstat_logic.c`: a round seen from the data | |
| `Jems` | `jems.c`: operators from a writer to a writer | |
| `Jsmn` | `jsmn.c`: an action for each case of its loop | |
| `JsonText` | a document written with `jems`, cut, damaged or whole, read with `jsmn` and compared with a pattern | extends `Jems`, `Jsmn` |
| `MuStr` | `core/mu_str.c`: operators from strings to strings | |
| `HttpUrl` | `parse_http_params` of `mu_str.c` | extends `MuStr` |
| `StrClients` | clients that cut, search and parse, after the tests in `mu_str.c` | extends `HttpUrl` |
| `MuLog` | `extras/mu_log.c` | |
| `TaskInfo` | `task_info.c` and the hooks and state changes of `core/mu_task.c` | extends `MuSched`, `MuLog` |
| `TemplateTask` | `docs/template_task.c` | extends `TaskInfo` |
| `UnitTests` | the tests at the end of `mu_str.c`, `mu_log.c`, `jsmn.c`, `tstat_model.c`, `tstat_logic.c` | instances of `HttpUrl`, `MuLog`, `Jsmn`, `TstatModel` |
| `MuSpscProofs`, `MuMqueueProofs`, `MuSchedProofs`, `MuPeriodicProofs`, `TstatAppProofs`, `TemplateTaskProofs` | theorems about the module they are named after | `TLAPS` |
| `MulibProofs` | theorems about `MuAccessMgr`, `MuQueue` and `StrClients` | `TLAPS` |
| `TstatModelProofs` | theorems about `TstatModel` and `JsonText` | `TLAPS` |
| `MCMuSched`, `MCMuTimer`, `MCTstatModel`, `MCJsonText`, `MCStrClients` | constants for the runs | |
| `MCTemplateTask` | constants for its run, which evaluates `UnitTests` before it starts | extends `TemplateTask`, `UnitTests` |
| `MCMulib` | `MuQueue`, `MuAccessMgr` or `StrClients`, whichever the first state chooses | extends these |

Definitions commented "Fault:" are forms of the definition below them that a
plausible slip in the code would give.  No specification uses them; they are
there to see that each property does depend on the code it is about.

### How state and actions correspond to the code

*MuSpsc.*  `head`, `tail`, `store` are the fields of `mu_spsc_t`.  A call of
`mu_spsc_put` is three actions (`PutCheck`: read both indices and compare,
`PutStore`: write the slot, `PutAdvance`: publish the tail), a call of
`mu_spsc_get` three as well, and the actions of the two sides interleave freely.
This is finer than a real interrupt needs, which runs to its end between two
accesses of the foreground.
The order of the stores is the program's; a compiler may reorder the plain
store of the slot and the volatile store of the index, and the mutant
`PutReordered` shows that everything depends on its not doing so.
`mu_spsc_reset` is documented as not interrupt safe and is modelled so.

*MuMqueue.*  `calls` is the stack of notifications in progress: `Put` and `Get`
push a frame where the code calls `mu_task_call`, further operations happen
while frames are on the stack, `Return` pops one.  `accepted` and `element`
are the result and the output parameter of the last call.

*MuSched.*  `irq` and `asap` are the contents of the two queues (FIFOs, by
`MuSpsc` and `MuMqueue`), `deferred` is the array up to its count, soonest task
*last*.  `mu_sched_step` is the four actions `StepIrq`, `StepDeferred`,
`StepAsap`, `StepIdle`, which set `curr`; the task then runs, which is any
number of `Call` actions (each one an operation of the scheduler), until
`TaskReturn`.  `Call` is also possible while no task runs: the code outside
the loop.  An interrupt (`FromIsr`) comes between any two actions.  The linear
search and the moves of the array are one definition each, `InsertionPoints` and
`Kept`/`Removals`, which say where the loop stops and what it keeps.

*MuTimer.*  `timer` holds the fields of every `mu_timer_t`.  `Expire` is the
step that fetches the timer's task together with `mu_timer_fn` up to its call
of `on_completion`; that call is whatever `Start` and `Stop` do before
`Return`.  The result of the deferral is not looked at in the code and is not
here.  `mu_timer_init` sets the task of the timer only, so the other fields
start with what is in memory (`FreshStates`).

*MuPeriodic.*  `timer_fn` and `mu_periodic_start` call the target and defer the
task when it returns, so each is two actions (`PeriodicExpire` or `PeriodicStart`,
then `TargetReturns`) between which the target may do anything that other
code may; `calls` is the stack of these calls.  `meddled` and `refused` are
history variables.

*MuQueue.*  `next` are the pointers, in the items and in the two headers; `Path`
walks them as `mu_list_traverse` does.  Nothing in the model prevents the
pointers from going wrong; `Listed` is what a chain really reaches.  The list
takes the items that are free and gives them back, so that a link left in an
item by the one is found by the other.

*MuAccessMgr.*  `calls` is the stack of tasks the manager has called and that
have not returned, with the operation that called each.  The loop of
`mu_access_mgr_reset` goes on when the task it called returns.  The pending
queue, `mu_pqueue`, is not in the repository; it is external, a bounded FIFO
with `contains` and `delete` as `mu_access_mgr.c` uses them.

*ComsMgr.*  The task runs in one action, `ComsRuns`, a disjunct per
state and event as in its two `switch` statements.  `RxCallback` is the
interrupt: it overwrites `event` and queues the task.  The UART driver with its
ring is external.  Which bytes are sent does not matter except for the null.
The character the loop tests is uninitialised if no byte can be read
(`coms_mgr.c:172`): `GarbageIsNull` is the set of what it may compare to.

*TstatApp.*  One disjunct of `AppRuns` and `IfaceRuns` per state.  `busy`
belongs to the caller; `misread` and `sound` are history variables: a request
that began was taken for a failure, and nothing has been lost or added on the
link so far.  A `bool` function that ends without a `return` returns any member
of `GarbageBool`.  `model_iface` is the client of `ComsMgr`, so one instance shows
the link and the round together.

*TstatModel.*  `remote` is the model that tstat-model owns, `model` the copy of
tstat-logic.  A text is the list of tokens that jsmn finds in it (from characters
to tokens it is the subject of `JsonText`).  A token stands for the set of known
words its text is a prefix of - all that `strncmp` over the token's length can
tell - and the number `atoi` finds.  `LoadPairs` is the loop of `tstat_model_load_json`: pairs are taken as
they come, without regard to nesting, and what was stored before one fails stays
stored.  `Reply` may spell the heating mode right, for README.md lets tstat-model
be implemented in Python as well; the texts of `Messages` are what others send.
In `TstatApp` all of this is one bit, whether the load of a reply succeeds.

*Jems, Jsmn, JsonText.*  A call of jems is an operator that takes the writer
(`levels`, one record per open level, and the `text` written so far) and gives
what it becomes.  Characters are kept as far as JSON gives them a meaning:
brackets, separators, quote, backslash, a space, the characters of an escape, one
that cannot be printed, and ordinary ones.  In `Jsmn` each turn of the loop of
`jsmn_parse` is an action, named for its case; `result` is the return value.
Positions count from 1, `toknext` is `Len(tokens)`, and -1 is 0.  The searches
back for an open token are `Innermost(Open)`.  In `JsonText` a client calls jems as
its interface allows (one document, a key for each item of an object, brackets
that match), keeping in `meant` what jsmn should find; then the text is read as
it is, cut at any place, as `jems_writer` of `tstat_model.c` cuts it when the
buffer is full, or without one of its bytes; or any other text is read.  A document
that was read is kept while a pattern is parsed (`ParsePattern`), and
`PatternMatches` is the comparison of the two; it gives the set of answers,
because the loop over extra items reads tokens behind the pattern's.

*MuStr, HttpUrl, StrClients.*  A string is a run of bytes with a null after it,
and the place and the length of the slice; indices count from 0 as in the code,
and `NotFound` and `End` are one number.  Where the code reads memory that is not
the string's, the result is a set.  Bytes are numbers only because digits have
a worth and comparisons an order.  `StrClients` keeps strings in variables and cuts
them in place, as `mu_str_slice(&s, &s, ...)` does in the tests.

*TaskInfo, MuLog, TemplateTask.*  A step that logs leaves its lines in `lines`; a
line is its kind and the two names.  `CallHook` runs before the task, `StateHook`
before the state is set, as the calls stand in `mu_task.c`.  `TemplateTask` is
`template_mgr_fn` with a disjunct per state; the module it starts, the timer and
the task it transfers to are the rest of the program, and the level, the logging
function and the hooks may be changed between any two tasks.

*UnitTests.*  Each test of the sources is a named formula about the operators of
the model, with the test's own data: the outputs that the program asserts of
`mu_str` and `mu_log`, those it quotes of the model and the logic, and the matches it
asserts of `jsmn`, except one: that a document with an item more matches when extras
are allowed does not follow from the code (section 4).  `TestsPass` assumes them all, and TLC
evaluates it with `MCTemplateTask`, whose run depends on none of the operators tested but the log's.  They tie the operators to what the repository says of its own code.

The application and the template are drafts and do not compile as they stand.
Where one contradicts itself the model takes the one reading that works and says so:
`START_RQST` and `START_PULL` are one state, and so are `START_UPDATE_MODEL` and
`UPDATE_MODEL`; `tstat_app_start` starts in `START_PULL_MODEL`; `coms_mgr_recv`,
called with too few arguments, notifies the task that calls it; `task_info` (whose
draft transfers to a variable it does not declare) logs, and transfers to the continuation that the task's own
`endgame` transfers to; `bb_log`, which the repository does not have, is `mu_log`;
and `endgame` of the template takes the state only (one of its calls has two
arguments, `template_task.c:167`).


## 3. The runs

All bounds are CONSTANTS of the configurations.

| Run | What it asks | Bounds, and why they are enough |
|---|---|---|
| `spsc` | Is the lock-free ring a FIFO, race free, and does a full ring get room again? | 4 slots, 2 distinguishable items: the ring fills, empties and wraps with both sides in mid-call. 9289 states |
| `mqueue` | Is the circular buffer a FIFO although its notifications use it? | 3 slots (no power of two, so that index and count wrap apart), nesting 2 deep. 2751 states |
| `sched` | Do deferred tasks run as a calendar promises, and who may starve whom? | 2 tasks, both deferred, asap or of interrupts; 3 entries, one place in the other queues (their order is the subject of `mqueue` and `spsc`); a clock of 6 values, deadlines now and ahead, and past ones because entries may run late: an entry goes before, behind, between and level with others, removal takes several, the clock wraps with entries waiting. 47952 states |
| `timer` | Do starts, stops, expiries and callbacks of timers of both kinds agree with the queue? | a timer, a periodic timer and a task that defers itself share 2 places, so deferrals fail; calls of the target nest 2 deep. 2004456 states |
| `mulib` | Of three parts that share nothing, one at a time. Linked queue and list: are the pointers the waiting line, and the list a pile? Access manager: are grants exclusive and is everybody served? Strings: do slices stay inside, searches agree, messages and URLs come out as written? | Queue: 5 items; first, last, only and middle ones are removed, lists of all lengths reversed. Access: 4 tasks, 2 may wait, calls nested 3 deep, resets. Strings: texts of up to 4 bytes of 4 kinds, every pair of indices from -4 to 5, needles of up to 2; messages of up to 5 pieces; 160 URLs, one after another, a port beyond 16 bits among them. 24862 states: 1631, 417 and 22814 |
| `tstat` | Does a receive end with the whole message, does a round end once, and is control handed over to one task at a time? | 4 tasks with a place each in the asap queue, messages of 1 and 3 bytes, buffer and ring of 3, 2 interrupt tasks (the third is dropped), lost bytes, stray events, all garbage values. 1107374 states |
| `tstat_round` | Does a round end? **No**: section 4 | messages of 2 bytes on a sound link |
| `model` | Do rounds change the relays and nothing else, whatever texts arrive? | 2 temperatures; single fields with 7 keys and 7 values (empty and cut-off keys, wrong types), texts that fail half way, nested objects, 13 and 15 tokens. 21040 states |
| `json` | Is what jems writes read back by jsmn, what becomes of cut, damaged and other texts, and what does a pattern find? | documents of up to 6 items, with 5 tokens and 3 levels, so that both run out; keys and strings with quotes, backslashes and bytes that cannot be printed; every cut, every lost byte; every text of up to 4 characters of 12; 5 patterns. 2898695 states |
| `json_extras` | Does a document match that has more than the pattern, if extras are allowed? **Not for certain**: section 4 | as `json` |
| `trim` | Is what is trimmed away blank? **No**: section 4 | the strings of `mulib` |
| `template` | Does the pattern task answer each start once, and is the log true? | 3 tasks, an asap queue with room for every wake-up that may be late; all 6 levels, hooks and logging set at any time. 26366 states |

Bounds that restrict behaviour are guards in the modules: `MaxNested`,
`MaxNest` (depth of nested calls), `Indices`, `Texts`, `Messages` and `Urls` (what clients
cut and read), `MaxBacklog` (bytes still to come when the
next request is sent; 0, so a reply is over, delivered or lost, before the next
request - the code relies on that, for it cannot tell replies apart),
`MaxItems` (keys and values of a document), `MaxLag` (see section 5) and
`TailDeletes` (see section 6).  Deadlock is checked in every run but `trim`;
in `mulib` the client that has read its message may stop (`Terminating`), and nothing else.

**Fairness.**  `sched`: weak fairness of `Step` (the superloop calls
`mu_sched_step` for ever) and of `TaskReturn` (run to completion is what the
scheduler requires of a task), strong fairness of `Tick` (time does not stop;
strong because a tick is disabled while an entry is `MaxLag` late).  Nothing is
assumed of interrupts or callers, so they may keep the scheduler busy for
ever, and the properties say against which load each queue is safe:
interrupt tasks against every load, deferred tasks if interrupts become quiet,
asap tasks if due timers do too.  `spsc`: a get is called for ever, and a put
that has begun ends.  `mulib`: a task that the access
manager called returns.  `tstat`: the
superloop, tasks that return, and that a byte that was sent arrives
or is lost; its liveness is stated under the premise that stray events cease.
`template`: the superloop, tasks that return, and that an armed timer expires -
strong, because a timer does not expire while a task runs; nothing is assumed of
the module that was started.

**Liveness properties.**  `FullDrains` (spsc), `QueuesServed` (sched; one part for
each queue), `WaitersServed` (mulib; premise: no owner keeps the resource for
ever), `PullEnds` (tstat), `Ends` (template).


## 4. Findings

**A round does not end** (`tstat_round`).  `tstat_app` waits in
`AWAIT_PUSH_MODEL` after `model_iface_push`, which neither takes nor schedules
a continuation.  The task is never scheduled again and `on_completion`,
"called on completion or error" (`tstat_app.c:57`), is not called after a pull
that succeeded.

**Extras may not match** (`json_extras`).  `jsmn.h:110` says that with `allow_extras`
"it's a match if count >= patt_count", and a test asserts it (`jsmn.c:675-681`).  But the
loop of `jsmn_pattern_matches` goes over all tokens of the document (`jsmn.c:415`) and
compares those beyond the pattern's last with what stands in memory behind the pattern's
tokens.  What it answers for a document that has the pattern's keys and values and
more is therefore open, which `PatternMatches` gives as both answers.

**`mu_str_rtrim` takes a byte too many** (`trim`).  It removes "bytes from the end of str for
which predicate returns true" (`mu_str.h:248`), but slices up to the index of the
last byte that stays, which goes too (`mu_str.c:223`).  `test_mu_str.c:336` expects
`"  abcde"` of `"  abcde  "`; the tests in both files pass because their `cstr_eq` compares no
more bytes than the string has left.  `mu_str_trim` has the same fault.  With the slice's end one
further `OnlyBlanksTrimmed` holds of the whole run.

Disagreements of smaller reach, which the models contain and the properties
name, are in section 6.


## 5. Proofs

tlapm checks the following for every value of the constants that satisfies the
named assumptions; the runs show the same properties on their instances.

| Module | Theorem | Says |
|---|---|---|
| `MuSpscProofs` | `TypeCorrect`, `SlotRaceFree` | the invariants of `spsc` |
| | `SpscImplementsFifo` | `Spec => Fifo!FifoSpec` |
| `MuMqueueProofs` | `TypeCorrect`, `NotifiedLate` | the invariant and the action property of `mqueue` |
| | `MqueueImplementsFifo` | `Spec => Fifo!FifoSpec` |
| `MuSchedProofs` | `WindowOrderHolds` | in a half range, wrapped comparison is the order of the distances, for every width of the word |
| | `TypeCorrect`, `DeferredStaysSorted` | the invariants of `sched` |
| | `EarliestDueFirst` | the action property `RunsEarliestDue` |
| | `SchedImplementsCalendar` | `Spec => Booked!CalendarSpec` |
| `MuPeriodicProofs` | `TimerEntriesHeld`, `PeriodicKeepsPace` | the invariants of `timer` |
| | `ArmedTimersKept` | its action property `ArmedStaysArmed` |
| `MulibProofs` | `NobodyWaitsIdly` | of `mulib`, the invariant `NoIdleWait` |
| | `QueueImplementsLine` | `QueueSpec => Line!LineSpec`, the property `ImplementsLine` of `mulib`; hypothesis `~TailDeletes` |
| | `StringsStayInside`, `SearchesTellOneStory`, `MessageIsRead` | three invariants of `mulib`: `SlicesInside`, `SearchesAgree`, `MessageRead` |
| `TstatAppProofs` | `RoundTypeCorrect`, `RoundCompletedOnce`, `RoundIsOneThread`, `ModelIsThere`, `PullGetsWholeMessage` | the invariants of `tstat`: `TstatTypeOK`, `CompletedOnce`, `OneThread`, `ResumedWithModel`, `WholeMessage` |
| `TemplateTaskProofs` | `CallbackOnce`, `OutcomeWakes` | the invariants of `template` |
| | `LogNeverLies` | its action property `LogTrue` |
| `TstatModelProofs` | `DumpIsLoaded` | the invariant of `model`, `DumpLoads` |
| | `RelaysSeparated`, `OnlyRelaysSet` | its action properties `PushSeparatesRelays`, `RoundSetsRelaysOnly` |
| | `TextKeepsTokensNest`, `TextReadsDocument`, `TextRefusesCut`, `PatternFindsPairs` | the invariants of `json`: `TokensNest`, `DocumentRead`, `CutRefused`, `PatternFinds` |

The theorems about fair specifications use their safety part only.

*MuSpsc.*  The inductive invariant adds to the type what each side knows in
mid-call: a producer past its check still sees a free slot (`Next1(tail) # head`),
a consumer past its check an item (`head # tail`), and what either has written or
read is in the slot.  It is inductive because only the producer moves `tail`
and only the consumer `head`, so the other side can only make these facts
*more* true.  For the refinement, lemmas show that publishing the tail appends
the item at the end of the slots from `head` to `tail` and releasing the head
removes the first; the other steps leave these slots alone.
Assumption: `CapacityAssumption`, the lengths `mu_spsc_init` accepts.

*MuMqueue.*  The type invariant is inductive for the safety part; the refinement
rests on the position of the k-th element, `SlotAt`, and on its being unmoved by
a put and shifted by one by a get.

*MuSched.*  `DeferredSorted` alone is not inductive: entries are compared with
`mu_time_follows`, which is no order on the whole circle of times.  The
strengthening is `Window`: each entry lies no more than `MaxLag` behind the
clock and less than `HalfRange - MaxLag` ahead of it.  Inside the window a
comparison of two entries is one of their distances from now
(`SortedByAhead`), which a tick moves all alike.  `WindowAssumption` is the
premise this needs of callers: no delay reaches half the range.  The guard
of `Tick` is the premise it needs of the superloop: no entry waits more than
`MaxLag` ticks past its time.  With the code's 64-bit clock both are bounds of
2^63 ticks together, which no run of the program meets; they are stated
because the code has no check for them.  `RunsEarliestDue` follows from `DeferredSorted`:
the last entry precedes no other.

For the calendar, the queue of a time is read off the array from the back to the front
(`BookedFor`).  In an array that is sorted inside the window, the entries for a time lie
next to each other (`Grouped`, `BlockExists`), so the queue is that of a block
(`BlockBooked`).  The pop shortens the block at the array's end, which is the oldest
booking of the earliest time; an insertion lengthens the block of its time at the front,
where it is the latest booking, because the search from the end stops behind every entry
that follows it and in no other block; a removal leaves of each block what is not
the task's, in order.  Every other step leaves the calendar alone or is one of the clock or
of the running task.  Two facts about data are needed, that a set of numbers up to n has a
greatest one and that the loop of the removal reaches every entry it keeps; they
follow from the library's theorems on well-founded orders and on cardinality.

*MuPeriodic and MuTimer.*  The properties count entries; the proof does not.  It
says of an array `d` and a task `t` that `d` holds `t` (`Has`) and that it holds
`t` once at most, at a given time (`Single`), and lemmas say what each operation on the
array does to both: the pop, `Inserted`, `Scheduled` and `Removals` leave
the entries of every other task as they were (`Same`), a removal leaves none of
its task, and a deferral of a task that the array does not hold is its only entry.  The
one fact about counting is that a function that counts a set in order reaches all
of it (`InOrderOnto`): the loop of `mu_sched_remove_deferred_task` loses no other task.
With these the invariant `TimersInv` is inductive: a running timer has at most one
entry, at `delay_until`; another timer has none; and, unless `meddled` or `refused`,
at most one call of the periodic timer's target is in progress, and then the
timer is running and has no entry.  The last part is why the target's return, which
looks at nothing, defers the task only once.  `ArmedStaysArmed` needs in addition that
the stop of a restart, and the pop before a periodic timer is deferred again, have made room in
a full array.  None of this needs the array to be sorted.

*MuAccessMgr.*  `NoIdleWait` allows tasks to wait for a free resource while a
reset goes on, so it is not inductive: the return of a task might end a reset
with someone still waiting.  `WokenOnTop` says who is then on top of the stack of
calls: a task that the reset has woken, and that does not wait any more - were it to wait,
its request would give it the resource that it waits for.  The rest is that no task
waits twice and the owner does not wait, through the changes of
the queue: a task added, one removed at any place, the first one removed.

*MuQueue.*  The invariant `QueueInv` says that from each of the two headers a chain of
links leads through distinct items to null, that no item is on both chains, and that
`tail` is the last item of the first one.  That two sequences describe the pointers so
determines what `Path` reaches (`ChainListed`), so each operation is proved by showing that
the sequences which the line promises fit the links that it leaves: an item linked in
before, behind or between, one unlinked at any place, the loop of the reversal turn by turn.
Items that are free keep whatever link they were left with, and nothing is assumed of it.
The hypothesis `~TailDeletes` is not for convenience: with a `mu_queue_delete` of the
last item `tail` stays behind and the theorem is false (section 6).

*StrClients.*  `StringsInside` says of every string a client keeps that place and
length lie within its bytes, with a byte left behind them for the null (`Inside`).
Slicing keeps it for every end and every start no further from the end than the string
is long (`SliceIs`), and so does trimming; what a search returns is no negative number, `NotFound`
included (`FindsIndex`, `MatchesIndex`), so a client may slice there.  `SearchesAgree` then compares five operations with one set, the places
where the needle occurs (`Hits`): the first of them, the last, whether 0 is one.  For
`MessageRead` the invariant `MessageInv` says step by step which piece of the message
each of the three strings is, in terms of the message alone (`After`, `EndOfLine`), where an
index that was not found stands for the end.

*TstatApp.*  `OneThread` counts turns: places in the asap queue, and the running
task.  `MuSchedProofs` has the lemmas ("Turns"): what taking a task from the
queue, queueing one - a full queue included - and a return do to the number of turns
of a set of tasks.  The invariant `RoundInv` says that the caller has at most one
turn and only after the round; that the control is held once, by a task of the
thread or by a receive (`ControlHeldOnce`: while `coms_mgr` is at work nobody of the thread
has a turn); and that `tstat_app` is woken in `AWAIT_PULL` by the end of the pull.  The
parts about control assume `~misread`, the part about the caller does not; so
`CompletedOnce` holds for every value that a missing `return` may give.
`WholeMessage` rests on a second invariant, `NothingLost`: on a sound link the message is
cut in three - received, in the ring, still to come - and each step moves one
cut.  Its hypothesis `MessagesFit` is that the client's buffer and the driver's
ring are as long as the longest message; a longer one is cut short by `coms_mgr_fn`
without an error, or loses bytes in the driver, and the property is not about that.

*TemplateTask.*  `WokenByOutcome` needs to know that no wake-up outlives a round as long
as none strayed.  The reason is an order in the queue: the caller, which ends the
round, is queued last (`CallerLast`), so a wake-up that is already queued comes first
and is taken while the round is still on.  `LogTrue` needs what `task_info` knows of the
task called last: unless one was `missed`, it is the one that ran (`KnowsLast`).  Its hypothesis
`NamesDiffer` is that the states have different names, as in the table of
`template_task.c`: a change between two states of one name would be logged as
none.

*TstatModel.*  The load walks over the tokens of a text in a recursive function.  That
such a function has the values that its equation says is proved by an induction: the
least number that is not in a set contradicts what the set is closed under
(`Induction`), so there is, for every text, the series of what the turns of the
loop leave (`SeriesExists`, `PairsLoaded`).  From it follow that the load of any text
leaves a model (`LoadTyped`), and turn by turn that the load of a dump over any
model gives what was dumped (`DumpLoaded`); when the mode is the misspelt one, all but
the mode, which is written last.  The invariant `CopyHeld` then says what a round knows: after the pull the copy
is the original, after the decision it is what the original's settings ask for, unless others
have written (`touched`); and what is decided twice is decided once.  The hypothesis
`DumpFits` is that a dump's 13 tokens are no more than `MAX_JSMN_TOKENS`, which
is 13; with fewer nothing would ever be loaded.  `TextsAssumption` says of the texts
that others send only that they are lists of tokens.

*JsonText, any text.*  `ReaderInv` says that each token is placed - it begins before the
position, and ends there or earlier unless it is open - and that each two are apart as
`TokensNest` asks (`Nest`).  A turn of the loop adds a token that begins where the reader
stands, or ends the innermost open one there; so what was nested stays so.  What this needs
of the recursive search for the closing quote is only that it stops behind the opening one and
within the text.  It holds of every text, with few tokens or many.

*JsonText, what jems wrote.*  `DocumentRead` relates what two programs do one after the
other, and neither's state alone says why it holds.  The invariant `DocInv` has three parts.
While the client writes, `Linked`: the text so far *leads* a reader from the beginning to a
stage at which its tokens are the items meant, with the counts they have, and what is open is
what the client has opened, level by level as the writer's `levels` say.  While the text is
read, `ReadInv`: the reader is at one of the places that the text leads through, on its way
to the last, or has returned.  `TextInv` has the types and that the writer can go on.

The text *leads* from a place to another if there is a series of places, one for each
lexeme - a bracket, a separator, a whole string, a whole primitive - which begins with the
one and ends with the other (`Way`, `Leads`).  Such series are joined end to end when
jems appends to the text (`Joins` says which texts may follow which: a primitive ends only
where a separator or bracket comes), and a turn of the reader, which takes a character or a
string at a time, goes along the series (`StringRead`, `PrimitiveRead`).  Because
the series is a function and its existence a fact about the text written so far, no induction over the
text is needed: each call of jems adds its few lexemes to it.  The only inductions are
inside a string: over its bytes, that what is quoted holds no bare quote, and over the
search for the closing one, that it ends at the quote that jems wrote behind them
(`QuotedPieces`, `ClosingFound`).

A cut text shows the reader the same places up to the cut, and the document's first token
stays open until the last lexeme (`InProgress`), so a reader at the end of a cut text
finds it open; a string or a primitive that was cut in the middle is refused, or is a token under
the first one, or the document was no container.  The levels need not suffice:
without room for one the counts of the writer are another's (section 6), but they decide only
which separator is written, and the reader gets as far in either case.  So the sizes of the
tokens may differ, which the flag of `Match` leaves open, and nothing else does.
`TextAssumption` says that the texts are sequences of characters, and that the text of a
number, of a truth value or of null, and what `jems_literal` is given, is not empty and has no character that JSON gives a meaning
or jsmn refuses.

*JsonText, patterns.*  `PatternFinds` needs two facts more than `DocInv`: in an object in
which nothing is nested keys and values take turns, whatever else has been written before
(`InPairs`), and the document that a pattern is compared with is the one that was meant
(`Compared`, which follows from `ReadInv` at the moment the document has been read).  Then a
key and a value of the pattern match those in their place exactly if they suit
(`KeyCompared`, `ValueCompared`), and the counts in the two first tokens, which the
comparison leaves alone, do not matter.  Nothing is known of the pattern's text except what the
property asks: that it is read as string keys and values that hold nothing (`IsPattern`).
A document with fewer tokens than the pattern never matches.

**Only model-checked:** everything temporal under fairness (`FullDrains`, `QueuesServed`,
`WaitersServed`, `PullEnds`, `Ends`); and two invariants of `mulib`, `ConversionsAgree`
and `UrlParsed`.  What both compare a number with is its value in powers of ten, and the provers
know `10^n` only for a constant n: that a number with one digit more is ten times
as large, the step of every induction over the digits, is out of their reach.


## 6. Where code and documentation differ

Read in the source while modelling.  The models follow the code.

- A ring of n slots holds n - 1 items (`mu_spsc.c:72`), so
  `MU_CONFIG_SCHED_MAX_IRQ_TASKS`, the "number of interrupt events that may be
  scheduled" (`mu_config.h`), is one more than that number.
- `mu_sched_reset` empties the deferred array only (`mu_sched.c:101`);
  `mu_sched.h:108` says "Remove all scheduled items from the schedule".
- Interrupt tasks run before deferred and asap ones; `mu_sched.h:43` says they
  "are added to the regular schedule as if mu_sched_asap() was called".
  `test_mu_sched.c:122` asserts what the code does.
- `mu_sched_peek_next_task` returns the soonest deferred task, due or not, if
  no asap task waits; `mu_sched.h` says "the next task to be processed".
- `mu_timer_start` marks the timer running and reports success when the deferred
  array was full (`mu_timer.c:72`): the timer never expires.  `TimerEntries`
  and `ArmedStaysArmed` speak of timers that have their place.
- `mu_timer_init` does not set `state`: a timer that starts out with the value of
  RUNNING has its (absent) deferral removed at the first start, which is harmless.
- `mu_queue_delete` of the last item leaves `tail` pointing to it
  (`mu_queue.c:83`): the next append links a new item behind a removed one and it
  is lost.  The run `mulib` therefore excludes this one call (`TailDeletes`).
- `mu_access_mgr_reset` does not end if the tasks it calls queue up again
  (`mu_access_mgr.c:59`).
- `coms_rx_cb` stores the event in one variable (`coms_mgr.c:218`).  If the next
  byte arrives before the task runs, `READ_ERROR` is overwritten, the receive ends
  with a byte missing, and `coms_mgr_had_error` is false, which `coms_mgr.h:71` says
  is true "if the most recent call to coms_mgr_recv() had error".
  `WholeMessage` speaks of links that lost nothing (`sound`).
- `coms_mgr.c:172` tests an uninitialised character when no byte could be read.  A
  receive that ends on it also leaves the link not `sound`.
- `model_iface_pull` and `coms_mgr_recv` end without a `return`
  (`model_iface.c:121`, `coms_mgr.c:131`).  If the value happens to be false the caller
  ends its round with an error while the request goes on, and the answer later
  wakes a task that is in another round.  `OneThread` and `ResumedWithModel`
  exclude this case by name (`misread`); `CompletedOnce` and `PullEnds` hold in
  spite of it.
- `tstat_model.c:243` writes the heating mode as `SYSTEM_MDOE_HEAT`, a name that
  `update_enum` does not read.  A tstat-model that runs this code can therefore
  never be pulled from while in that mode, although `tstat_model.h` says that the
  load returns the model "if the JSON was valid".  `DumpLoads` excludes this
  mode by name; `RoundSetsRelaysOnly` and `PushSeparatesRelays` hold in spite of
  it, because the mode is the last field that is written.
- "Unrecognized fields are silently ignored" (`tstat_model.h`), but one such field
  beside the six known ones exceeds the 13 tokens and nothing is loaded; an
  array as its value makes the load fail; and the fields of an object as its value
  are stored as the model's own.
- jems goes on without an error when its levels run out (`jems.c:220`): the
  items of the level that was not pushed are separated as those of the one
  around it, and its close pops that one.  Commas and colons are then out of place, and
  with them the sizes of the tokens; `DocumentRead` says that all else is read back
  (`tooDeep`).  `tstat_model` needs two levels.
- jsmn reads text that is no JSON: a comma or colon anywhere, a key without a
  value.  So a lost byte is often not noticed; what is promised of such a text
  is only that its tokens are nested (`TokensNest`).
- A dump that does not fit its buffer is cut without an error
  (`tstat_model.c:228`).  The other side refuses it (`CutRefused`).
- A pattern's container is matched by any token, its `?` by one token and not by
  what that token holds (`jsmn.c:415-440`).  `PatternFinds` is about flat documents.
- `mu_periodic`: a stop inside the target's call leaves a deferral, which a later
  start finds (`mu_periodic.c:100`); a stop and a start inside it leave two.
  `KeepsPace` excludes them by name (`meddled`), until a stop from outside clears
  the queue of them.  Its comments promise a call "once
  every interval"; a queue without room ends that silently (`refused`).
- `mu_str_find` of a needle longer than the string wraps a `size_t` and searches
  the memory behind it (`mu_str.c:358`); a slice that starts further from the end
  than the string is long starts before its bytes (`mu_str.c:113`).  The client that
  cuts never slices so; the one that reads messages does search so, and may get any
  index, but `SearchesAgree` leaves it out.
- With `skip_substr`, a search returns the index after the match; `mu_str.h` speaks
  of the "index of last byte".  `mu_str_parse_int` is defined twice.
- `MU_STR_NOT_FOUND` is `MU_STR_END` (`mu_str.h`), so a search that failed, used as
  an index, slices to the end: `MessageRead` shows that what is missing then is
  read as empty.
- `parse_http_params` sets no host when a URL has a port (`mu_str.c:919-941`), changes
  the parameters although it refuses, and does not check a port for overflow.
- `task_info_init` compares `s_prev_task` where it means to set it
  (`task_info.c:74`); tasks called while the level is above DEBUG are not
  remembered, so the next line names an older task (`missed`).
- The pattern task says in `AWAIT` "Here when other module completes or times out"
  (`template_task.c:160`), but it does not disarm its timer and cannot tell whose
  answer wakes it: a late one is taken for the outcome of the next round.
  `WokenByOutcome` excludes that by name (`stray`); `CalledBackOnce` and `Ends`
  hold in spite of it.  Two of its cases, `START_ARCHIVE` and `MOUNT_FILESYS`, name
  states that its enumeration does not have and are not modelled.
- A push sends the whole model, so what others have written since the pull is lost.
  `RoundSetsRelaysOnly` excludes this case by name (`touched`).


## 7. Not modelled

- Formatting: what `mu_log` prints before and after a line, and how `task_info`
  words one.
- `JSMN_STRICT` and `JSMN_PARENT_LINKS`, which are not compiled, and the helpers
  that print tokens.
- The digits of a number: `jems_number` is a run of ordinary characters, and
  the `atoi` of the load is the number of a token.
- `chaff/` is code taken out of the program; `template.c` has no behaviour; the
  tests and the mocking header are not part of the program, and the tests under
  `src/mulib/tests` were read for what they assert.
- `mu_macros.h` and `mu_config.h` are compile-time constants, which are CONSTANTS
  here, and macros without state.
- The values of `mu_spsc_init`'s and `mu_mqueue_init`'s parameters other than
  valid ones; `mu_sched_init` ignores the result of `mu_spsc_init`.
- Several interrupts that nest, each calling `mu_sched_from_isr`: the program has
  one interrupt, and `mu_spsc` is for a single producer.


## 8. Plan

Done, in this order: time and the lock-free ring; the message queue; the
scheduler and its calendar; their proofs; timers; the laboratory's linked queue
and access manager; the serial link; the thermostat's round and its data; the
JSON writer and reader; the link and the round in one instance; strings and
their clients; the periodic timer beside the other; the list beside the queue;
patterns; the hooks, the log and the pattern task; the sources' own tests.

Done after that: the proofs of section 5, the ring, the message queue and the scheduler
first, then access manager, round, pattern task and timers.

And after that: that the linked queue and list implement the waiting line; that strings
stay inside, searches agree and messages are read; that tokens nest in every text; that
jsmn reads what jems writes and refuses what is cut off, and a pattern finds what it spells.

Next, proofs:

1. `UrlParsed` of `StrClients`, from what its searches return (`Hits`).
2. `ConversionsAgree`, once powers can be reasoned about.
