# A TLA+ verification of gofirstdice

The repository searches for *Go First dice*: sets of dice that, thrown
together, put the players in every order with the same probability and never
tie.  Its programs are exhaustive searches, and what they print counts
as a result: "Search complete" after 100 hours of work is taken as a proof that
no other dice exist.  A search that loses a branch, a job, or a solution, or
that says "complete" when it was cut short, therefore fails without anyone
noticing.  The project in this directory states what the searches promise,
checks it with TLC on small instances, and proves with TLAPS, for every number of threads, jobs, dice
and solutions: what the threads of the three drivers (`residual_search.c`, `weave_search.c`,
`column_search.c`) must keep to; that the state the residual search updates in place stays exact;
that the totals of the forked enumerations of `old_dice` are complete and the population its hill
climbers share stays sound; and that the goroutines of `gofirstdice.go` keep their places in the channel
and their indices in the table.

Contents:

1. [The system](#1-the-system): inventory of the repository
2. [The modules](#2-the-modules): what each one models, and how it follows the code
3. [The runs](#3-the-runs): what TLC checks, the bounds, the fairness
4. [The proofs](#4-the-proofs): the inductive invariants and the theorems
5. [What is only checked](#5-what-is-only-checked)
6. [What is not modelled](#6-what-is-not-modelled)
7. [What the model shows of the code](#7-what-the-model-shows-of-the-code)
8. [What could come next](#8-what-could-come-next)

## 1. The system

A set of `n` dice with `s` sides each is written as a word of `n*s` letters: the
letters are the dice, in the order of their faces.  It is *permutation-fair* when every
order of the dice comes out of equally many rolls, that is, when every ordered tuple of
different dice occurs equally often as a subword; *place-fair* when every die takes
every place equally often; two dice are *even* when each beats the other equally
often.  The programs differ in how they walk through the words.

| Part | Source | State | Operations | How it interacts |
|---|---|---|---|---|
| residual search, one thread | `modern_dice/residual_search.c` | residual counts per tuple, faces left per die, the word from both ends, labels used | give a face at one end to a die and take it back, plan the next end, collect prefixes, replay and search one, recount a found word | called by the workers; returns through the stop flag |
| residual search, driver | same | ticket `next_job`, `jobs_done`, `configurations`, list of solutions, `active_workers`, `stop`, error flags | create, search a job, reserve a number, queue and announce a solution, watch, join, report | pthreads, C11 atomics, `solution_mutex`, `event_mutex` with a condition, a signal handler for Ctrl-C |
| residual search, extension | same | base solutions, the place of the new die, cursor and padding at both ends | load, rename and sort bases, insert the faces of one more die | takes the place of the plain search in a job |
| weave search, driver | `modern_dice/weave_search.c` | as the residual driver, with a ring of bounded size | jobs are strides of prefixes; a worker waits when the ring is full | only the main thread makes room |
| weave search, prefixes | same | binomials that saturate at `UINT64_MAX` | choose the prefix length, count and unrank prefixes | ranks are what the jobs share |
| weave search, stages | same | per stage: projections, counts in place, bounds, the gaps chosen | insert the faces of one die into the word of the others, and take them out | calls itself for the next die |
| column search, driver | `modern_dice/column_search.c` | two buffers of solutions, totals per class, claims on the limit, file | claim, record, flush a batch, append to the file, print | as above; the file is shared with other processes under `flock` |
| column search, grid | same | a grid, tallies in place, tables of bounds | choose a label for a row in a column, apply it and undo it, test bounds, solve a row as a whole | called by the workers |
| template queue | `modern_dice/run_expanded_templates.sh` | a directory of templates, `done/` | run `column_search` on each, move it after success | processes and files |
| Go search | `gofirstdice.go` | a channel of `THREADS` places, counters under a mutex, arrays of dice sets | start a goroutine per partial set, swap columns in a cell of its own | channel, wait group, mutex |
| old enumerations | `old_dice/dicemdeep.c`, `dicepldeep.c` and variants | a grid, tallies, counters in shared memory | fill a grid row by row or column by column; fork a child per node of one level | `fork`, `wait`, a System V semaphore |
| old hill climbers | same, `climb` | a population in shared memory | children replace a random entry by a better mutation | two semaphores as a readers-writer lock |
| analysis scripts, Kryger's programs, Perl counters | `modern_dice/*.py`, `landonkryger_dice`, `kryger_perm_counting`, `dice_util` | none that outlives a call | convert, count, check | offline |
| archive and libraries | `googlecode`, `old_dice/pavl.c`, `old_dice/rc4_16.c` | – | – | earlier versions, third-party |

What makes each part correct, and what makes that hard:

* **A driver** must share the jobs so that each is searched once; number the
  solutions 1, 2, ... without gaps and never beyond `--limit`; print (and write)
  each once; end after Ctrl-C, at the limit and after any failure; and name the
  right reason, "complete" above all.  Hard: compare-and-exchange races at the
  limit, tickets and completion counted apart, wakeups that must not be lost,
  workers that wait for a main thread that might be waiting for them, failures
  that hit one thread of several.
* **A search** must find exactly the fair words, each once, up to the names of
  the dice.  Hard: one state updated in place and restored over
  thousands of backtracks, unsigned counts that must not wrap, pruning that must
  not cut a fair word, prefixes collected at one time and replayed at another.
* **Ranking** must be one-to-one.  Hard: saturated binomials.
* **Processes** (old programs) must add every count to the shared totals before they are
  printed, and must not corrupt what they share.  Hard: a `fork` that fails,
  copies of shared values that grow old, a lock built from two semaphores.
* **Files** must not lose or repeat solutions.  Hard: short writes, and crashes
  between two steps.

`PROJECT.json` lists the components with their status, and under `hazards` each
of these difficulties at the line of the source where it bites with the
properties that would notice.

## 2. The modules

| Module | Models |
|---|---|
| `SearchSession` | the abstract specification all three drivers implement |
| `JobRanges` | how prefixes are cut into jobs (pure functions) |
| `ResidualDriver` | the threads of `residual_search.c` |
| `ResidualDriverInvariant` | the inductive invariant, in named parts |
| `MCResidualDriver` | small instances of the driver for TLC |
| `JobRangesProofs` | theorems and lemmas about ranges, strides and the arithmetic behind them |
| `ResidualDriverProofs` | lemmas by invariant part and step, theorems |
| `ResidualCounts` | subword counts, targets and feasibility (folds over words) |
| `ResidualSearch`, `MCResidualSearch` | the search of one thread, and instances |
| `ResidualInvariant`, `ResidualSearchProofs` | its inductive invariant, lemmas, theorems |
| `ExtensionSearch`, `MCExtensionSearch` | `--extend-solutions`: the bases and the search around them |
| `WeaveDriver`, `MCWeaveDriver` | the threads of `weave_search.c` |
| `WeaveDriverInvariant`, `WeaveDriverProofs` | their inductive invariant, lemmas, theorems |
| `WeavePrefixes` | binomials and `decode_prefix` of `weave_search.c` |
| `WeaveStages`, `MCWeaveStages` | the insertion of one die after another, with all bounds |
| `ColumnDriver`, `MCColumnDriver` | the threads of `column_search.c` |
| `ColumnDriverInvariant`, `ColumnDriverProofs` | their inductive invariant, lemmas, theorems |
| `ColumnGrid` | the tables of `column_search.c` that depend on the build alone, the tests of whole grids |
| `ColumnCompletion` | rolls in one order against rolls in another, and the bounds on their difference |
| `ColumnSearch`, `MCColumnSearch` | the search over the grid |
| `ColumnWords` | words of small dice to compare searches with (models no code) |
| `GoSearch`, `MCGoSearch` | `gofirstdice.go` |
| `GoInvariant`, `GoSearchProofs` | its inductive invariant, lemmas, theorems |
| `ForkRows` | the tree of grids that `sum_find` and `sum_find_row` of the old programs walk, with its bounds |
| `ForkPerms` | that of `sum_find_perm`, which bounds the rolls in each order |
| `ForkMirrors` | that of `sum_find_row_mir`, which gives up some mirrored columns |
| `Distribute` | that of `dice.c` |
| `ForkSearch` | the processes of the enumerations and their shared totals |
| `ClimbPool` | the hill climber's shared population and its lock |
| `ClimbAlone` | the hill climber of `diceclimber.c`, one process with a tree of the grids it knows |
| `OldDice`, `MCOldDice` | a program of `old_dice`: an enumeration or a hill climber |
| `OldDiceInvariant`, `OldDiceProofs` | the inductive invariants of the hill climbers and of the forked enumerations, lemmas, theorems |
| `Folding` | induction along the folds of the community modules, for the proofs (models no code) |

The modules compose along three lines: a driver takes from a search only the leaves
of each prefix (`Leaves[p]`, a sequence of configurations), and the search modules show
what those leaves are; the three drivers refine `SearchSession`; and `OldDice` puts the
enumerations, which `ForkSearch` runs over the trees of four modules, next to the two hill climbers.

A definition named `X_Y` is `X` with the plausible mistake `Y` in it.  It is in no
specification; put in the place of `X` it makes TLC report the property that
`PROJECT.json` pairs it with, so that each property is known to depend on the code.

A program that is configured by macros is modelled with the configuration as a variable
(`build`, or `session` for the options of a driver): `Init` sets it to any of a few
values and nothing changes it, so that one run covers them all.

### SearchSession

The promise: configurations are found one at a time, none twice, none beyond the
limit; and the last line names a reason that is true, "complete" only when
everything that is fair was found and nobody interrupted.  It has three actions,
`Find`, `Interrupt` and `Conclude`.  `found` is mapped to the configurations that have a number,
`count` to the counter the program keeps of them, and
`verdict` to the word the report prints.  A program that numbers a configuration twice, or counts one
it does not find, fails to implement `Find`.  Two parameters separate the programs:
`NodeLimited` (only `residual_search` has `--node-limit`) and `FailureFirst`
(`weave_search` and `column_search` name a failure before the limit,
`residual_search` names the limit first).

### ResidualDriver

* *State.*  The variables are the members of `struct shared_state`, the locals
  of `worker_main`, `run_job` and `reserve_solution_number` that live across a
  step, and the locals of `main` and `watch_workers`.  `pc[w]` and `mainPc` say where
  the threads are.  `numbering`, `explored` and `completed` are history variables: what was
  numbered, which prefixes were searched to the end, which slots were counted.
* *Grain.*  Each access to an atomic is a step of its own, so that the load and
  the compare-and-exchange of `reserve_solution_number` interleave with those of
  other workers.  `solution_mutex` protects only what is read and written inside
  it, so its critical sections are single steps.  `event_mutex` is explicit
  (`eventOwner`): the watcher tests `active_workers`, decides, and then waits
  while holding it, and whether a signal can slip in between is a question.
* *The search* of a prefix is the sequence `Leaves[p]` of the fair words below
  it.  `stop` is polled on some nodes only, so `PollStop` may or may not happen
  before any leaf.  Prefixes in `Vast` may finish and may go on for ever: they stand
  for searches longer than any session.
* *Failures.*  `CreateFails` (pthread_create), `AllocFails` (any allocation after
  a number was reserved or before an extension is remembered), `Interrupt`.
* *Who stops whom.*  The handler only sets `interrupted`; the watcher turns it
  into `stop` at its next look, at latest a second later; a worker that reaches
  the limit, an error or the node limit sets `stop` itself.

### ResidualSearch and ResidualCounts

The C recursion is the variable `stack`, one frame per die in place with the dice its
node has yet to try; `EnterNode`, `TryOwner`, `LeaveNode`, `UndoOwner` are the four points of
a recursive call.  `residual` is updated in place by `Subtract` and `Restore`.  An edge of
the code leads from a tuple without the owner to one with it, so its loops read no count they have changed, and
an update is one function of the old counts.  The counts are integers
here, so that a wrap of the unsigned counters would be visible as a negative number.
`CollectPrefix` and `DeepenPrefixes` build the list of prefixes, and `ReplayStep`,
`SearchPrefix` and `NextPrefix` search them one after the other, as a worker with all jobs
would.  `MIRROR` and `COLUMN_GROUP`, which are chosen when the program is compiled, are part of
the build, so that one run covers all four programs.
`ResidualCounts` defines `Occurrences` by counting subwords as the definition of fairness
does, separately from the recurrence the code uses.

### ExtensionSearch

Loading is one operator per step of the loader: a line is decoded, refused when it has the
wrong number of letters or is not fair where it must be, renamed by first appearance,
and the table is sorted and freed of repetitions.  A search has a base, the place
`newDie` of the new die among the names, and at each end a *cursor* into the base: a
face either takes the next letter of the skeleton (the cursor moves), or is padding, or
belongs to the new die.  Prefixes are collected over all bases and places and
replayed from the base index, the place and the moves alone, as the code stores them.
`CursorIsExact` relates both cursors to the word in place at every node.

### WeaveDriver and WeavePrefixes

Written like `ResidualDriver`, with three differences of the code.  A job
is every `JobCount`-th prefix, and the last step of the stride must not
overflow the word: `maxWord` is `UINT64_MAX`, and prefixes are numbers up to it.
Solutions go through a ring of `Capacity` places: a worker that finds it full waits
(`"waiting"` in `pc`), without looking at `stop`, until the main thread removes something
and signals once per removal.  Spurious wakeups and spurious failures of the
weak compare-and-exchange are actions.

`WeavePrefixes` is `choose_prefix_length` and `decode_prefix`, with binomials that saturate at
the greatest word as in the code (the product is tested before it is divided).

### WeaveStages

Stage `n` weaves die `n - 1` into a fair word of `n - 1` dice.  A stage has its tables
(what a face in each gap adds to each count, the projections of that, the least and greatest
values and the common steps for the gaps that are left), its counts, updated in place, and the
gaps chosen so far (`insertionGap`): the recursion over the faces of a stage is that
sequence, the recursion over stages the variable `dice`.  `TestProjections` and `EnterNode` are
the tests of a node, `TryGap` and `WithdrawFace` the two halves of a call,
`AcceptExtension` and `StartCanonicalStage` the way into the next stage, and `NextPrefix`
goes to the next rank of the worker's stride, which `WeavePrefixes` decodes.  A node that is
pruned close to its end (`LookAhead`, by stage) is compared with all its completions
(`PrunedIsHopeless`), so the bounds are checked where they cut and not only by what is found.

### ColumnDriver

The most concurrent of the three.  Solutions belong to one of two classes
(`Kinds`) that are numbered separately.  A worker claims the limit with a
fetch-and-add (`claimLimit`), so claims overshoot and solutions may not; then it
numbers and buffers the solution under `solution_mutex`, or only counts it on the
path without the lock (`CountOnly`) when nothing will be shown or written.  The main
thread swaps the two buffers, appends the batch to the file, prints its entries one by
one, and counts the symmetric solutions; `AppendBatch` may stop after any part of the batch.
`owner` says whether main holds `completion_mutex`, since the code's comment
claims that "the notification cannot be lost".  `drain_solutions` is called from
three places, and `drainFor` says to which it returns.

### ColumnGrid, ColumnCompletion, ColumnSearch

The grid gives each die one label of each column.  `ColumnGrid` has the tables the program
computes before it searches (which columns are mirrored, the goals of the tallies, what a
label in a column adds to each of them) and the acceptance test of a finished grid.
`ColumnCompletion` has the differences between the numbers of rolls in one order of the dice and in
another, as sums over the blocks of dice that share a column, and the bounds on
what the dice that are not chosen yet can add to them.

`ColumnSearch` keeps the state of a worker: the grid, the place, pair and permutation
tallies (updated in place on the way down, undone on the way up), the planned order
of columns of each row and the suffix bounds along it, and the stack of choices.  Rows that
are solved as a whole (`ROW_MITM`: two halves of a row are tabulated and joined) are one step
with all the results of the join; a template freezes cells before the search starts.  Jobs are
prefixes of the first row.  `TalliesAreCounts` recounts every tally from the
grid at every node.

### GoSearch

`main` permutes the columns below `COLMASK`, and for each result puts a token into the
channel of `THREADS` places and starts a goroutine, which permutes the other columns.  The
source keeps dice sets and tallies in two arrays with a cell per row and side and passes on
pointers into them (`dsetcache`, `curtallycache`), so that a cell one frame writes and
another reads after a deeper call has returned is visible as such.  The channel and the wait
group are explicit (`threadwait`, `waitgroup`); a section under the mutex around the three counters is one
step.  `IndexInBounds` states that the path table is read only inside its bounds; the Go
runtime would answer anything else with a panic.

### ForkRows, ForkPerms, ForkMirrors, Distribute, ForkSearch

The first four give each enumeration as a tree: the nodes of a level in the order the recursion
reaches them, with the grid, the tallies and the bounds of the node, and the
tests that cut it.  There is no state to restore here, since each child process works on its own copy
and the C code passes tallies down by value per level.  `ForkRows` has `sum_find`, which permutes whole
columns (Heap's order, as `next_perm` walks it), and `sum_find_row`, which permutes row by row, in the
versions of the programs: one table of bounds for all rows (`smarter`, from `dicesmarter.c`), one for
each (`deep`, `dicedeep.c`), the first dice tested among themselves (`weak`, `dicendeep.c`), the symmetry of pairs of
columns and the tallies of the first few dice (`subsets`, `dicepldeep.c`).  Programs that shuffle the grid
before they enumerate have the exchanges in their build (`mutations`).  The 64-bit corner cases that matter
are kept: `Choose` of "-1" things, `pow` with a negative exponent, bounds that wrap below zero.
`ForkPerms` adds, from a depth on, the number of rolls in each order of some dice; `ForkMirrors` lets
some columns differ from their mirror images; `Distribute` keeps rows balanced and tests whole grids.

`ForkSearch` runs the tree: main forks a child for each node of the fork level while there
are fewer than `MAXTHREADS`, waits, and prints the totals; a child counts its grids, adds every
`SEMSKIP` of them to the shared total, keeps its own copy of the best score, and adds the
rest when it exits.  A section under semaphore 0 is one action.  `fork()` may fail.  A build with fork level 0
is a single process.

`build_subset_tallies_left` of `dicepldeep.c` never sets `min[rows]` and `max[rows]`.  What a call finds in
them is part of a build: `stack` is a sequence of pairs of signed words, taken in turn by the nodes of a row.
`Word` stands in the place of 2^64: sums of what the stack held wrap there, and all true tallies stay far
below (an assumption on the builds).

### ClimbPool, ClimbAlone

Semaphore 1 has a place for each reader and a writer takes semaphore 0 and
then all of the places one by one; both are counters here and each operation on one is a
step.  `fork()` may fail: the id is used up and the child counted, and as long as any child lives main then waits for ever
with fewer than `MAXTHREADS` of them.  A child picks an entry, mutates a private copy, and replaces the entry if the mutation is
better than what the entry had when it was read (`stale` entries included).  A grid is a
model value with its score; a random mutation may produce any grid, and the systematic ones
produce a given sequence.

`ClimbAlone` has one process: it replaces the worst entry by a better grid that its search tree does not know,
takes the grid replaced out of the tree, and refuses uneven grids once all entries are close to
a solution.  A mutation is one step, since nobody sees anything between its parts.
## 3. The runs

| Run | Instance | Shows |
|---|---|---|
| `driver_complete` | 2 workers, 3 jobs, 4 prefixes of which two reach a common configuration, no limit, any order of the jobs, every fault | "complete" has missed nothing, each number is printed once, `SessionSpec` |
| `driver_live` | extension, 3 prefixes of which two may never end, limit 2, every fault | nothing is numbered twice or beyond the limit; the session ends; `IInv` holds in every state |
| `driver_nodelimit` | 1 worker, 1 job, 2 prefixes | `--node-limit` is not taken for a failure |
| `search` | 2 dice with 8 and 3 dice with 6 faces, each in four builds | the state in place is exact at every node of the two-end search; found = fair, once each |
| `extension_search` | files of one-die words extended to two dice with 4 faces, of two-dice words to three dice with 6 | the cursor follows the skeleton through collection, replay and search; found = the fair words that hold a base |
| `weave_driver` | two sessions: no limit and as many prefixes as a word counts; limit 2 with a search that may not end; ring of one place | `IInv` holds in every state; each solution printed once, honest verdicts, `SessionSpec`, the session ends |
| `weave_stages` | 4d6, 3d6, 3d4, 3d5, 2d6, 2d8, in words in which prefixes, differences or nothing saturate | ranks decode in order, counts are exact, what is cut is hopeless, all fair words are found |
| `column_driver` | two sessions: a file that may fail, buffer and batch of two; no file, print limit 1, limit 3, buffer of one | no flush is missed, the file and the terminal get what they should in order, claims and numbers agree with the limit, honest verdicts, `SessionSpec` |
| `column_live` | 3 prefixes of which two may never end, limit 2, buffer of one, a failing file | `IInv` holds in every state; the session ends |
| `column_search` | 3d6, 2d6, 3d4 with and without templates and mirrored columns; 4d12 permutation search in six ways | tallies are the counts of the grid at every node; all words that plain enumeration finds; the numbers `MIRROR_COLUMNS.md` gives for 4d12 |
| `go_search` | 2d4 and 2d6 by two goroutines at a time, 3d6 by one after the other | every fair set counted and printed once before the totals, the path table read within its bounds, a place in the channel per goroutine at work |
| `old_dice` | eighteen builds of 3d6, 3d12 (mirrored) and 4d12 (mirrored): every enumeration and version named in section 2, with and without processes, some from a shuffled grid, `dicepldeep.c` with and without symmetries and with harmless, negative and huge values on its stack, one `fork()` that may fail; the shared hill climber with two children and two entries, of which forks may fail, the one that runs alone with three entries | the bounds cut no fair grid, but in `dicepldeep.c` (exempt where `KeepsFairGrids` is false: there only soundness is claimed); nothing comes twice; totals count each grid once; the best score never gets worse; the populations stay sound |

Deadlock checking is off in the runs whose systems end by design (a session that has
reported, a search that is done); that nothing stops too early is what
`SessionEnds`, `SearchIsExhaustive` and `ExtensionsAreComplete` say there.  `go_search` and `old_dice`
check for deadlock: the end of the program is an explicit action there.

### Bounds, and why they are enough

* *Two workers*: the code treats all workers alike, and its races are between two
  of them, or one and the main thread.  The proofs of section 4 need no bound.
* *Jobs and prefixes* are chosen so that they do not divide evenly, that one job
  has two prefixes, that one prefix has several leaves and one none, and, in
  `driver_complete`, that there are more jobs than workers.
* *Limit* lies at or below the number of leaves where it is there to be reached, and is 0
  where completeness is the question: a session that finds as many as the limit ends with
  "solution limit" and not with "complete", so one session cannot reach both.  *PrintLimit* is
  such that some solutions are shown and others not.
* *Capacity, Threshold*: one place, where every worker has to wait, and two, where a batch of
  two is flushed, and `AppendBatch` may write none, some, or all of it.
* *Dice and sides*: with three dice all tuple lengths and both ends matter; six
  faces are the fewest for which fair sets of three exist (the four- and five-faced builds are
  those that the arithmetic rules out).  2d8 has mirrored fair sets, 3d12 fair sets
  of mirrored columns.  Four dice are in `column_search` (12 sides, where permutation-fair sets exist)
  and in `weave_stages` (6 sides, which no stage-four word satisfies, so every branch must be cut or fail).
* *Words to compare with*: for two dice all words; for three dice those of grids whose dice are
  even in pairs, or, in `search`, the words in groups of three with the first group fixed, because
  there are too many others.  What is found outside of them is still checked by a recount.
* *Templates* of `column_search` freeze a whole row, parts of several rows, cells of the mirrored half
  and cells that contradict each other with the rest.
* *Word sizes*: in `weave_driver` the number of prefixes is the greatest word, so that the last
  step of a stride passes it and the test against overflow decides; in `weave_stages` words in which
  the products of a binomial overflow before the binomial does.
* *One failing `fork()`, `SEMSKIP` of 2 and 3*: a lost subtree among others, and counts
  that are flushed in the middle of a child and at its end.
* *Population*: two entries, three grids of different scores and two children are the fewest with which an entry
  is replaced under a child that still works on its copy.
* Tickets (`next_job`) and limit claims are bounded by themselves: a worker that draws
  a number past the end retires.

### Fairness and why the code justifies it

* `WF` on each thread (`MainThread`, `Advance(w)`): the operating system runs every runnable thread.  A
  thread that waits for a mutex or a condition is not runnable until it can go on.
* `SF` on taking a mutex that the watcher takes and releases again and again
  (`event_mutex`, `completion_mutex`): pthreads guarantees no order, but the
  watcher holds it for a moment each second (100 ms in the weave search).
* `SF` on a weak compare-and-exchange that is tried again and again
  (`WeaveDriver`): the failures of the hardware are not permanent.
* No fairness on `Interrupt`, on failures, on spurious wakeups, on a poll of `stop`
  before a particular leaf, or on the end of a `Vast` prefix: `Advance(w)` is every step of the worker but
  that one.  A worker inside a `Vast` prefix does poll, since it
  visits nodes for ever and polls every `STOP_POLL_INTERVAL` of them.
* `SessionEnds` says that the session ends or some worker is for ever in an
  endless search (nobody waits for a mutex, for room or for a signal for ever), and that with a
  reason to stop there is no such exception.

## 4. The proofs

`tlapm` checks all of `JobRangesProofs`, of the `Proofs` modules of the
three drivers, of `ResidualSearchProofs`, `OldDiceProofs` and `GoSearchProofs`, and of `Folding`, which the last three share.  The theorems hold for all values of the constants that satisfy the
assumptions of the driver's module (`DriverAssumption`, `WeaveAssumption`, `ColumnAssumption`): at least one thread and
one job asked for, any number of prefixes (at least one in the weave and column drivers, which never compute none), finite
sequences of leaves, any limit, any size of the ring or buffer.  What is assumed beyond types:
`--node-limit` has one thread and one job, as the option parser enforces; a full buffer of `column_search` is large enough for a
batch, as its two macros are; and no word lies below two prefixes (`DistinctLeaves`, and the last
conjunct of `IsSession`), which the searches promise and TLC checks of them (`FoundAreFair`,
`SearchIsExhaustive`).  With `--extend-solutions` that last assumption is not made, because there it is not true.
Of the hill climbers (`ClimbPoolAssumption`, `ClimbAloneAssumption`) it is assumed that there is an entry and
a child, that scores are natural numbers, and that the grid `diceclimber.c` starts from is not fair.  Of the enumerations
(`ForkSearchAssumption`, `JobsAssumption`) that a build flushes after a positive number of grids, and that what lies below a
fork point is a finite sequence of grids with natural scores; TLC evaluates that for the eighteen builds.  Of `gofirstdice.go`
only that a build has dice, sides and a place in the channel.  Of the residual search (`SizesAssumption`, `SearchAssumption`)
that there are at least two dice and one side, and an even number of sides in a mirrored build, as its `#error` lines demand.

| Theorem | States |
|---|---|
| `JobRangesProofs`: `RangesDisjoint`, `RangesCover` | `job_prefix_range` gives each prefix to exactly one job |
| `ResidualDriverProofs`: `Invariance`, `TypeCorrect` | `IInv` is an invariant; type correctness |
| `LimitSafe` | the limit is never exceeded, and when blamed it was reached |
| `NumbersSafe` | numbers are 1, 2, ..., none twice |
| `OnceSafe` | no configuration has two numbers |
| `JobsSafe` | a job has one worker, and none once counted |
| `WatcherSafe` | `active_workers` is exact, and the watcher does not sleep past the last worker |
| `CountedSafe` | a counted job was searched to its end and its leaves numbered |
| `FailureExplained` | no failure without a cause |
| `CompleteSafe` | "complete" means every prefix searched and every leaf numbered |
| `ReportSafe` | nothing that is reported changes after the join |
| `PrintedSafe` | exactly the numbers up to the print limit are printed, once each, unless memory ran out |
| `SessionImplemented` | the residual driver implements `SearchSession` |
| `WeaveDriverProofs`: `Invariance` | `IInv` is an invariant |
| `WaitersSafe` | types, the ring's size, and no worker left waiting for room |
| `PrintedSafe`, `StatusSafe` | as above for a ring of any size; "complete", "failed" and "solution limit" are true |
| `SessionImplemented` | the weave driver implements `SearchSession` |
| `ColumnDriverProofs`: `Invariance` | `IInv` is an invariant |
| `FlushSafe` | no signal is lost between main's look and its wait |
| `WaitersSafe` | types, the buffer's size, and no worker left waiting for room |
| `FileSafe` | the file gets everything once and in order; after a failed write a beginning of it, and the exit status says so |
| `PrintedSafe` | each class is shown in order up to the print limit, and every symmetric solution is counted |
| `LimitSafe` | claims overshoot, solutions do not; totals are exact |
| `StatusSafe` | "complete" and "failed" are true |
| `SessionImplemented` | the column driver implements `SearchSession` |
| `ResidualSearchProofs`: `Invariance`, `TypeCorrect` | `IInv` is an invariant of `ResidualSearch`; type correctness |
| `StateExact` | at every node the counts of the middle, put between those of both ends, make the targets, and none has wrapped |
| `OldDiceProofs`: `Invariance` | `IInv` is an invariant of the hill climbers, beside any enumeration |
| `PopulationSafe` | a writer has the population for itself, and outside of the sections it is what is said of it; so is the one of the process that climbs alone |
| `ForkInvariance` | `ForkInv` is an invariant of the forked enumerations, beside any hill climber |
| `TotalsExact` | totals, list and prints count each grid below a node that was forked for once, and are complete when main prints them |
| `BestImproves` | no step makes the shared best score worse |
| `GoSearchProofs`: `Invariance`, `TypeCorrect` | `IInv` is an invariant of `GoSearch`; type correctness |
| `PlacesHeld` | tokens in the channel, the wait group and the counter agree with the goroutines, and main ends behind the last of all jobs |
| `IndicesHold` | a tally looked up in the path table lies inside it |
| `Folding`: `FoldInvariant`, `FoldEquation`, `FoldTakeOut` (supporting lemmas, about no code) | what holds of the base and is kept by each element holds of a fold; a fold is its last element taken into the rest; where the order does not matter, any element may be the last |

None of these properties is inductive by itself; each driver has a module with an inductive
invariant `IInv` in named parts, which a run checks first (`driver_live`, `weave_driver`, `column_live`).  Those of the hill
climbers, of the enumerations and of `GoSearch` are in no run's list; TLC finds them true with `IInv` and `ForkInv` added to the invariants
of `old_dice.cfg`, and `IInv` to those of `go_search.cfg` and of `search.cfg` (there with an instance that extends `ResidualInvariant`).  The `Proofs`
modules have lemmas on what each action does to each part, and put them together: `IInvInit`, `IInvStep`,
`Invariance`, and then the properties, each of which follows from `IInv` without looking at a step.

### What the invariants of the drivers have in common

* `CreationInv`: workers exist in order up to `created`, and main gives up creating
  only after it has set `stop` and the exit status.
* `PlaceInv`: a worker in a search has a prefix of its job and a leaf of that prefix.
* *Tickets* (`JobExclusive` and `TicketInv`, or `JobInv`): a job that was drawn is with one worker, or counted, or given up
  after a reason to stop; `jobs_done` is the number of those that are back.
* `FreshInv`: what lies ahead of a worker in its job, and all of a job nobody has drawn, is not
  numbered yet.  Together with distinct leaves it says that no leaf is reached twice, which gives `NumberedOnce` and
  the guard `configuration \notin found` of the abstract `Find`.
* `ProgressInv`: what lies behind a worker is searched and *covered*, that is, numbered, or the limit is reached.
* `StopInv`, `VerdictInv`: `stop` has one of a few reasons, and the verdict one of them.

The argument for "complete": main has seen no reason to stop after the join, and as many jobs done as there are.  So all jobs
were drawn and are back; the jobs cover all prefixes (`RangesCover`, or a remainder modulo the number of
jobs); so each prefix was searched and its leaves are covered; and as the limit was not reached, covered means numbered.

The argument for the refinement: the step that gives a configuration its number is `Find`, the handler of Ctrl-C
is `Interrupt`, the step that sets the verdict is `Conclude`, and all other steps leave the mapped
variables alone.  For `Find` the configuration must be new (`FreshInv`) and the limit not reached;
for `Conclude` each word needs its reason, which is `StopInv`, `VerdictInv` and the argument for "complete".

### The residual driver

* `MutexInv`: main holds `event_mutex` exactly at the three points of the watcher's
  decision, on which `NoLostWakeup` rests.
* `ReservationInv`: the count a worker has loaded is at most the present one (so a successful
  exchange extends the numbers by one), and a number reserved is on record.
* *Covered* has a third case for an extension: remembered by a worker that is about to number it, or the session is
  stopping.
* `FreshInv` speaks of sessions without `--extend-solutions`.  With it several prefixes may lead to one
  configuration, and `RememberedInv` takes its place: a configuration is remembered
  before it is numbered, and at most one worker holds a reservation for it.  `OnceInv` follows from either.
* `LineInv` is about `printed \o queue`, which draining does not change: the numbers on that line are
  distinct, and each number to be printed is on it, or in the hands of the one worker that was given it, or
  memory ran out.  Since the queue is empty after the join, what is printed is all there is to print.
* `OriginInv` (the job order stays a permutation, only leaves get numbers) and `CauseInv` (only what may
  fail fails) serve `CompleteSafe` and the refinement.

### The weave driver

* `RingInvariant` is the types with `NoStrandedWaiter`: a worker waits only while main is in its loop, and while the
  solutions in the ring and those about to be put there would fill it.  It needs `ActiveInv`, the exact count of workers, because main leaves its loop on
  that count alone.
* `NumbersInv`: the exchange that takes a number can only succeed on the present total, so numbers are below it and none twice.
* `LineInv` as above; here a worker may hold its number through a wait at the full ring.
* A reason to stop is `stop` or `interrupted` (`Quiet` is neither), since the workers of this program test both.
* That strides do not meet, and that `prefix + JobCount` passes no prefix of the same job, is arithmetic
  (`StrideKeepsRemainder`, `StrideApart`); that it does not wrap follows from the test before the addition.

### The column driver

* `WatchInv` says what main knows at each point of its loop: `seen` is the count of running workers as long as main
  holds the mutex; it waits only while somebody runs and either fewer than a batch are buffered or a worker is about to signal;
  it drains for the last time only after the last worker has gone, and then finds nothing more to take out.  An
  earlier form of the last clause (the buffer is empty while main judges) held in every state but could not be
  proved: it is not kept by a step from a state where main is still in its loop.  The clauses about
  `drainFor`, which tell for whom main drains, are what it lacked.
* `BufferInv` and the two lines.  `FileLine` is the file with what will be appended to it, `TerminalLine` what was
  printed with what will be.  A swap of the buffers changes neither, recording extends both at their ends, and a failed write ends the
  first.  `FileInv` and `TerminalInv` say that they are in order and hold everything that has a number
  (or that is to be printed), `MirroredInv` that the symmetric solutions not on the way to the file
  are counted.  Main ends with both buffers empty, so at the end the lines are the file and the terminal.
* `ClaimsInv`: as long as the limit is not reached, each claim belongs to a numbered solution or to a worker
  that was admitted and has not numbered it yet; so *numbered + admitted = min(claims, limit)*.  `CountOnly`, the path
  without the lock, is inside this equation, which is why an unsynchronized look at the total does no harm.
  In the refinement `count` is the sum of the totals of the two classes.

### The hill climbers

* `LockInv` counts places: *free + readers + places of the writer = MAXTHREADS*, and semaphore 0 is taken exactly while
  somebody has a place of a writer (`Holders`).  It holds while the writer is still collecting its places and while it gives
  them back, one at a time.  With all of them it has left none for a reader, and no second writer gets past semaphore 0:
  `SectionAlone`.
* `StepInv` ties a child's step to its places: nobody holds one outside of a section, and the new worst entry is looked
  for under the same lock under which the old one was replaced.
* `PoolInv` speaks of the state between these two steps as well.  There the entry just replaced may be better than the
  best score and is not the worst, but no score is above the worst score; this bound is what makes the largest score
  that `Rank` finds the new one.  The bound is not in `PopulationIsSound`, which is silent in between.
* `OwnInv`: an entry that is not replaced yet is the start, and all that replaced one are better than the start.  So a
  grid that leaves the tree is in no other replaced entry, and the tree is their set although the copies of the start were never in it.
* The choices of `Rank` and `worst_pop_score` (a largest score, a first entry) are made by `LeastNatural`, which comes
  from the well-foundedness of `<` on the natural numbers.

### The residual search

`StateIsExact` is about a state that is updated in place and restored over thousands of backtracks.
`ResidualInvariant` writes a state as a record and a move as an operator `Moved` on records; then

* *History is harmless*: the state in place is `StateAfter(Fresh, Placed)`, the fresh state with the moves of the
  frames on the stack made one after the other, and nothing else.  An undo is the inverse of the move on top (`UndoMove`), because the
  counts it adds are those of tuples that the move left alone.
* *Every state on the way is exact* (`Exact`, at the node of every frame).  The counts of a word are a convolution: a tuple is cut in
  three, and the pieces are looked for in the left end, the middle and the right end (`Joined`).  `JoinLeft` and `JoinRight` say that what
  a move takes from the counts of the middle comes back, tuple by tuple, in those of the end (`PairedTotals` pairs the cuts that lose with those that gain); so the sum stays what it was in the
  fresh state, the targets (`MoveExact`).
* *No count wraps*, since an owner is tried only where `PrefixFeasible` or `SuffixFeasible` holds (`CanMove`), and what a frame has yet to try is judged by
  the counts of its own node, which are back when its turn comes.  The second subtraction of a
  mirrored pair has no test.  It is safe because between pairs counts are symmetric (`Mirrored`), so that the test at one end
  is that of the other, and because a pair is tried only of a die with two faces left.
* *Names*: the labels seen from the left are `0 .. used - 1`, and the right end comes into play only when all are used.

### Folds

The community modules define sums, products and counts by `MapThenFoldSet`, a recursive function chosen
to satisfy its equation.  What it computes needs induction, and the library's theorems of induction take
the operator they are about as a parameter.  `Folding` states them for *constants* `Op`, `Map`, `Choose` and
`Inv` instead, proves them from the least natural number of a set, and each use is an
`INSTANCE` that gives the constants their meaning: sums of natural numbers, of what children share, of the
terms of a table, of the cuts of a tuple, products, the least of some numbers, the permutations that Heap's order reaches.  The counts
of a word and the state after some moves are folds along a sequence (`FoldExtends`: one more element is one more step).

### The forked enumerations

* `ProgressInv` ties a child's own counter to the grids it has passed: *private count = counted modulo `SEMSKIP`*.  So
  what it has added to the total is the difference of both, and with `DOFORK` everything once it has exited (`AddedBy`).
* `CountsInv`: the shared total is the sum of these shares over the children that were forked.  A flush
  changes one share by as much as the total (`FoldTakeOut`).
* `ForkedInv`: main counts at least as many children as are not reaped yet (a failed `fork()` counts
  one that does not exist), so when its counter is 0, all are reaped, and all shares are whole.
* `TotalsAreExact` follows: a whole share is the number of grids of the job.  What the grids of a job
  are (fair, once each) is `EnumerationIsExact`, which stays with TLC.
* `BestOnlyImproves` needs that scores are numbers, and that a child compares again under the semaphore.

### gofirstdice.go

* `PathInv`: the cells of the shared arrays that lie before a frame hold dice sets, although deeper
  frames have written behind them, and the bounds of a row are computed before a value is chosen for it.
* `CountedInv` counts goroutines between a send and a receive, and between `Add` and `Done`; main adds to the wait group itself before
  it starts the goroutine, without which `Wait` could return too early.
* `IndexInBounds`: a goroutine that looks up the path table has passed both tests before it, so its tally lies between
  0 and the goal that gave the table its size.  That the tally is a natural number is `TypeOK`, which needs the types of all that the tables
  are computed from (`intpow`, `factorial`, `build_tally_table`, `find_tally_left`).

## 5. What is only checked

* Liveness (`SessionEnds`): temporal reasoning with fairness and
  `ENABLED` is out of the prover's reach.  There is no liveness for `gofirstdice.go` and the old
  programs: their searches are finite, and what could hang them (a place in the channel never given back,
  a child that is waited for in vain, two semaphores) is a deadlock, which the runs look for.
* What the searches find (`ResidualSearch`, `ExtensionSearch`, `WeaveStages`, `ColumnSearch`, `GoSearch`,
  `ForkRows`), and `WeavePrefixes`.  The library's theorems of induction take an operator as a parameter, which the installed
  provers cannot instantiate; along a fold, `Folding` takes their place, and so the counts of the residual search are proved.
  That a whole tree of recursive calls misses nothing is not, and `SelectSeq`, `SortSeq` and exponents
  are opaque to the provers.  TLC compares what is found with independent definitions instead
  (`Occurrences` for the counts, `ColumnWords` and `SymmetricGrids` for what is found, `PrefixesAreExact`
  for the ranks).

## 6. What is not modelled

* `residual_search.c`: an interrupt while prefixes are still
  being collected; reading files and growing tables; the progress line; options.
* `weave_search.c`: the branch for sides for which
  the arithmetic rules out a solution before any thread exists; failures before the first thread.
* `column_search.c`: the bounds and joins that exist for five dice only (the smallest build
  that has them, 5d30, is out of reach for TLC), the differences of three dice in the
  residual bounds among them; the branches that say that no solution is
  possible; errors of `pthread_cond_timedwait`.
* In all three drivers: an error of `pthread_join`.  Every thread is created joinable and joined once, by main
  alone, so none of the errors the call may return can occur.
* `run_expanded_templates.sh`: a loop over files.  Nothing in it or in the search keeps a template
  from being searched again after a kill, so there is no property to hold; what several processes append to
  one file under `flock` is one batch each (`FileIsComplete` says what a batch is).
* `old_dice`: `THREADABORT`; `sum_find` as `dicedeep.c` has it; a `MINPERMDEPTH` above `SIDES`, which counts no order; the
  climbers of `dicesmarter.c` and `dicedeep.c`, which share a population and keep a search tree as well; calls that are commented out
  in `main`.  A mutation in a climber may produce any grid.
* Wording and layout of what is printed.  A solution is its number (and class)
  and its encoding, a grid is a grid.
* The programs listed as `not_modelled` in `PROJECT.json`, for the reason given
  there.  Third-party code, earlier versions kept as an archive, and offline
  scripts without state stay out for good.

## 7. What the model shows of the code

No document of the repository was found to be contradicted.  Things a reader of the code may want to know:

Drivers:

* *The residual driver counts a job whose extension another worker has
  not numbered yet.*  A worker that reaches a remembered configuration goes on, and may count its
  job while the other still holds the reservation.  This is safe: the other
  either numbers it or stops the session (`Covered`), but `CountedJobIsSearched`
  would be false without that clause.
* *A worker whose reservation is refused* (the limit was reached by another)
  does not stop at once but at its next poll; what it finds meanwhile is refused too.
* *The announcement of a solution can be missed* by the residual watcher, which
  looks for solutions only after its wait; it then prints it up to a second
  later.  The announcement of the last worker cannot be missed (`NoLostWakeup`).
* *Ctrl-C between the choice of the status word and the exit status* makes
  `residual_search` and `column_search` print "complete" and exit with 130.
  `weave_search` decides both together.
* *The three programs order failure and limit differently* (see `FailureFirst`).
* *The weave ring* never deadlocks because `active_workers` falls only
  after a worker's last solution is in the ring, and main stays in its loop until
  then.  The drain after the join finds nothing, as does the
  last drain of the column driver.
* *Column claims overshoot the limit* by at most one per other worker; the number of
  solutions does not.

Searches:

* *Prefix counts saturate early*: the product in `binomial_coefficient` overflows before its quotient
  does.  The count is then too high and never too low, so `decode_prefix` fails only for ranks that
  no prefix has.
* *The second subtraction of a mirrored pair* in `residual_search` is safe only because an even number
  of faces remains and counts are symmetric at pair boundaries.
* *The restriction to shared column groups* when both ends meet, and
  the early search from the right end, change only the speed: removing them loses nothing.
* *The numbers of `MIRROR_COLUMNS.md`* for the permutation search of 4d12 (16, 16 and 32 configurations with 6, 5
  and 4 mirrored columns) come out of the model, with and without rows solved as a whole.

Old programs (compiled, they give the same numbers as the model where both were run):

* *The enumeration of `dicepldeep.c` may lose fair grids*, and `EnumerationIsExact` claims completeness for it
  only where `KeepsFairGrids` holds.  There are two faults.  `build_subset_tallie_table_math` asks
  `choose` for -1 other dice, and what that wraps to makes bounds negative that are compared as `uint64_t`: fair grids are cut
  in builds without pairs of columns, the one the file is set up for (`MIRRORSYM` 0, `PAIRSYM` 0) among them.  With
  three six-sided dice nine of the ten place-fair and pair-fair grids are found, with three twelve-sided mirrored
  ones 37 of 38; with a `choose` that returns 0 there it would be all of them.  And `build_subset_tallies_left`
  (lines 1682 to 1813) never initialises `min[rows]` and `max[rows]`.  In builds with pairs
  the eight grids of three six-sided dice are found if the stack holds a minimum that is not negative and a
  maximum whose sums over the columns stay below 2^64.  A negative minimum wraps in the comparison of lines
  563 to 571 and cuts every node of its call, a huge maximum wraps in the sums: with such values for every
  second node two of the eight grids are left (`Negative`, `Huge` of `MCOldDice`), and without pairs three of the ten.  Compiled
  with these values written into the two places, the program gives the same numbers.  In every case
  what is found is even and place-fair and comes once.  No document says that this program is exhaustive.
* *`sum_find` counts grids that are not place-fair*: it has no test after its last bound.  What it prints as fair is fair.
* *With `DOFORK` 0 the total printed* is the last multiple of `SEMSKIP`, since only a child that exits adds the rest.  In
  `dicedeep.c` a child does not add it either.
* *A `fork()` that fails* returns -1, which is not 0 and so taken for the parent's branch: the subtree is
  lost, and counted as a child that `wait` then does not find.
* *The best score of a child of `dicemdeep.c`* starts at 0, so that it reports none before its first flush.
* *The population of the hill climber* starts with scores of another measure than the one it is
  compared by, which is why `PopulationIsSound` speaks of the score of a grid for entries that were replaced.

## 8. What could come next

1. The five-dice code of `column_search.c`, on templates that leave few cells free.
