# Coggate in TLA+

Coggate issues small programming challenges, runs a submitted JavaScript
program against hidden inputs in a sandboxed worker process, and says whether it
passed. This directory holds TLA+ models of the part of it where things can go
wrong between two steps: the lifecycle of a challenge in the store, the Gate
that many callers use at once, the permits that bound its work, one execution
with its threads, pipes and process, and the decoding of what the worker
answered. Beside it stand the ten task families, the random stream behind them,
the composition experiment with its two searching generators, and the hidden
cases a submission is judged by. TLC checks each model on small instances;
TLAPS proves the main results for every value of the constants.

Paths below are relative to the repository. `PROJECT.json` names, for every
definition, the lines it models.

## 1. Inventory of the system

| part | state it keeps | operations | interacts with |
|---|---|---|---|
| `InMemoryStore` (`crates/coggate/src/store.rs`) | one map under a mutex: id to scope, expiry, attempts, lease, consumed | `insert`, `claim`, `complete` | called by the Gate, each call atomic under the lock, with a clock value read before it |
| `Gate` (`crates/coggate/src/lib.rs`) | none of its own; each call has locals | `issue`, `verify` | engine, store, runtime and the wall clock, from any number of threads |
| permits (`runtime.rs`, `reserve` and `Permit`) | one atomic counter | a compare-and-exchange loop, a decrement on drop | shared by all calls of `verify` |
| `execute_reserved` (`runtime.rs`) | a child process, a writer thread, a reader thread, a deadline | spawn, write the request, collect the output, poll, kill, join, judge | pipes to the worker, process exit status |
| `decode_response` (`runtime.rs`) | position, case index, first recorded failure | one pass over the frames | pure |
| worker (`crates/coggate-worker/native/worker.c`) | request position, timers, isolation | `isolate`, read request, `execute_case`, exit | pipes; killed by the kernel or the parent |
| `Engine` (`crates/coggate-core/src/lib.rs`) | secret, generator version | `issue`: derive seeds, id, task and expiry | called by `Gate::issue` |
| task families (`crates/coggate-core/src/task.rs`) | none | `generate`, `evaluate`, `test_inputs`, `reference_solution`, `RandomStream::below` | called by the engine |
| composition, screening, order synthesis (`crates/coggate-core/src/composition*`) | a candidate loop with a budget and statistics | `generate`, `evaluate`, `find_screened`, `holdout_inputs` | development features, off in production builds |
| scripts, build script, vendored mquickjs | none that matters at run time | | |

What is hard in it:

- **Concurrency.** Calls of `verify` interleave at every clock reading and every
  store call. `reserve` is lock-free. One execution is three threads, a process
  and two bounded pipes.
- **Staleness.** The clock is read before the store's lock is taken, so calls
  reach the store in another order than they read the clock. An `insert`
  prunes with its own reading, under a running execution.
- **Failure.** Entropy, the clock, either thread, the process, the sandbox, the
  program and the worker may each fail, after something was already reserved.
- **Timeouts.** The worker may end by itself, by a limit or by the deadline, and
  these race. The challenge may expire while its program runs.
- **Boundaries.** Refunds decrement a `u8`; the map has a capacity; the response
  carries a count that the worker chose.

What makes each part correct:

- store: never more attempts than the limit, one lease at a time, given up only
  by its holder, one acceptance per challenge, bounded size, and nothing is
  evicted that outlives something kept;
- Gate: one execution per challenge, at most two workers started per challenge,
  permits returned on every path, Passed only if the store accepted, late work
  never accepted, every lease ends and every call returns;
- permits: a counting semaphore, with no permit lost;
- execution: a pass is earned by the worker that was started, a refund means
  there was none, nothing is left behind, no deadlock through the pipes;
- issuing: exactly 32 hidden cases, all within the published contract, judged by
  what the prompt says, and enough to fail a wrong boundary;
- random stream: every value under a bound equally likely, no word of the key
  stream used twice;
- screening: an accepted suite shows, for every rival program, an input it
  answers otherwise; the holdouts mix the scales; the search ends;
- order synthesis: the published examples identify the hidden order, the private
  cases repeat none of them, the search ends;
- decoding: a pass is complete and right; otherwise the first item that stops the
  loop decides, else leftover bytes, else the last error recorded.

The full list of hazards, each at its line and with the properties that cover it,
is under `hazards` in `PROJECT.json`.

## 2. Modules

    ChallengeLifecycle   what a StateStore promises            (abstract)
      ^ refined by
    InMemoryStore        insert, claim, complete
      ^ EXTENDS
    Gate                 issue and verify by many threads, clock, permits, workers

    WorkerPermits        a counting semaphore                  (abstract)
      ^ refined by
    ReservePermit        the compare-and-exchange loop, step by step

    Response             a response and the verdict it deserves (closed form)
      ^ EXTENDS                       ^ EXTENDS
    DecodeResponse  the loop        Execution  threads, pipes, process, deadline

    Tasks                evaluate, and what the prompts ask for
      ^ EXTENDS
    Composition          stages and predicates, and what their sentences say
      ^ EXTENDS
    Issuance             Engine::issue, issue_composition and the hidden cases
      ^ EXTENDS
    ScreenedIssuance     Engine::issue_screened_composition and the holdouts

    RandomStream         words of a key stream, and `below`

    CandidateLoop        a budget of candidates
      ^ EXTENDS                       ^ EXTENDS
    Screening  a judged suite       OrderSynthesis  examples and private cases
      ^ EXTENDS                       ^ EXTENDS
    Generation           one of the two, to its end

Each `MC*` module instantiates one of them for TLC, and each `*Proofs` module
holds the theorems about one of them.

**ChallengeLifecycle** restates the contract of trait `StateStore`
(store.rs:47-57) and the lifecycle rules of docs/design.md, without a map, a
clock or a token comparison. A challenge is `unissued`, `open` or `closed`, held
by at most one token, charged a number of times, and won by at most one token.

**InMemoryStore** has one action per operation. `entries` is the map; an id
outside it maps to `Absent`. Each operation has an `...Answer` operator that lists
the refusals in the order of the code's early returns, and an action that
replies with the answer and changes the map. `insert` prunes before it
can refuse, and so does the action. A token is drawn fresh: 128 random
bits do not repeat. Drawing it may fail (`ClaimWithoutEntropy`), which the code
does before it looks anything up. `claimOf`, `outcome`, `charged` and `inserted`
are history: what was claimed under a token, how it ended, what was charged,
and which ids were used. The `now` of each call is any value of `Times`, in any
order, which is what unsynchronised clock readings give. Ids come from an HMAC
over fresh input, so no id is inserted twice, except that a caller may present
again a challenge that is still in the map (`Presentable`), which reaches the
answer `Internal` for an occupied id. `Presentable` is an assumption on callers, not a
guard of store.rs: the store would accept an evicted challenge again from a caller with
an older clock. The Gate, the only caller in the repository, never presents one. The store implements ChallengeLifecycle with
`phase` read from the map and the history (property `ImplementsLifecycle`).

**Gate** composes the store with a clock and callers. `pc[t]` is the point a call
has reached; the steps between are the ones another thread can see: a clock
reading, a store call (an action of `InMemoryStore`, which the module extends), taking a
permit, starting a worker and its end. `reserve` is one step here, which the
permits module justifies. `execute_reserved` is two steps, start and finish, with
any verdict the Execution module can return after a start; the permit is an
argument of it and dropped when it returns. `clock = 0` stands for a clock
before the epoch, which `unix_now` reports as an error. `lost` records the
leases of calls whose completion could not read the clock, `lateWork` the
executions that ended after expiry, `started` those that started a worker.

**ReservePermit** splits `reserve` into the load, the test against the limit and
the weak compare-and-exchange, which may fail although the value is the
expected one. It implements **WorkerPermits**, where a grant or a release is one
step and a refusal answers a moment, during the call, when the pool was full.

**Response** classifies a response: whether its magic and count could be
read, the count, and the class of each item (right, unexpected, malformed or
too large, failed, limit, worker failure, unknown status, cut short).
`VerdictOf` is the verdict it deserves, in closed form: the first item that stops
the loop decides, then bytes left over, then the last mark recorded. **DecodeResponse** is the loop.

**Execution** follows one call of `execute_reserved`. `main` is the calling
thread, `writer` and `reader` the two threads it starts, `stage` and `child` the
worker and its exit status. Pipes hold `PipeCapacity` frames: a full pipe blocks
its writer, an empty one its reader, and the end of a process closes its ends.
`late` says the deadline has passed. With `Faults` anything may fail or be
limited at any point, and the worker's own program may answer a case with an item of
any class it can produce, a payload the parent cannot parse included (`OwnItems`).
With `Rogue` the worker may, from any point on, read,
write an item of any class or more than the response may hold (`RogueItems`), and exit
as it likes, which is the assumption the parent is built for (docs/design.md:71-96). The judgement at the end uses `VerdictOf`.

**Tasks** has every task family twice. `Evaluate` follows the iterators of
`Task::evaluate`; `IsAnswer` is a predicate taken from the sentences `Task::prompt`
composes, and describes the answer without computing it: "the longest run", "of
each value as many copies as the limit leaves room for", "lists these positions
from left to right". The prompt's residue goes through JavaScript's `%`, which
takes the sign of its left operand. Iterators are folds: a filter (`Keep`), a scan, and
the sort as an insertion sort (`Sorted`), which has one result whatever algorithm the
library uses.

**Composition** does the same for a pipeline of stages. `Applied` is what the host
does in a stage; `Described` relates the sequence before a stage to the one after
it, in the words of its sentence, with the prompt's own reading of the five
predicates. A result is right if every stage of its course is as described.

**Issuance** is `Engine::issue` and, with a composition for a task,
`Engine::issue_composition`: validation with its limits, entropy that may
fail, a task, the fixed cases, the cases of the family, random cases up to 32,
the shuffle, and an expected value for each. `Draw` is what a private stream gives
for a use, at a place, out of so many values, and all that is assumed of it is
the bound that `RandomStream::below` keeps (`DrawAssumption`). The runs take four
streams, which draw the low end of each range, the high end, both in turn, or values in
between. `MaxTime` stands for `u64::MAX`. The other constants have
the code's values.

**ScreenedIssuance** puts the screened suite into that issue. The pool starts with
the hidden inputs the composition has anyway and 49 singletons (`StartPool`), and is
filled up one drawn input at a time (`ExtraDraw`) until it holds 128 or 192 were drawn;
the search takes the four mandatory inputs and 20 others, any that `Selections` allows. The runs
allow the first and the last of the pool. Streams that vary fill the pool, the ones
that always draw the same end use up the draws.
`Holdout` is `holdout_inputs`: categories drawn once each and then freely,
a shuffled prefix, duplicates beyond it, and the arrangement of each of the eight
lengths. The holdouts are appended and everything is shuffled.

**RandomStream** is `next_u64` and `below`, with words of `WordCount` values and
blocks of `WordsPerBlock` words. A word may have any value, which is what a caller
who lacks the key can say of HMAC. `taken` numbers the words in the order of
the key stream.

**CandidateLoop** is the loop `find_screened` and `find_candidate` share:
generate, examine, return or drop, until the budget is used up.

**Screening** numbers the rivals of a candidate as `screen_candidate` meets them. What a
rival answers matters only where it differs from the candidate, so a rival is a set of
positions of the pool: fixed for the constant output and for the program that returns
nothing, any set without the empty input for the others. `masks`, `selected` and the
greedy steps are the code's; `differs` is history.

**OrderSynthesis** takes as a candidate any table of what each order of the cards answers
on each input, with one order hidden; orders may agree on some inputs or on all. `Probe`
is one public probe with everything that follows from it: the orders that
survive, whether it becomes an example, and whether the search is over.
`seen` is history.

**Generation** runs one of the two to its end.

## 3. Checks

Every run finishes within about two minutes with two workers. States are distinct ones.

| run | states | question | bounds |
|---|---:|---|---|
| Store | 40,349 | Do budget, lease, single pass, capacity, sparing inserts, harmless refusals and the lifecycle survive every order of calls? | 3 ids, 2 scopes and a malformed one, 3 tokens, times 0..2, 2 attempts, capacity 2 |
| Permits | 3,355 | Is the loop a semaphore? | 4 threads, 2 permits |
| GateContention | 121,792 | Do three callers of one challenge ever run it twice, exceed its budget, lose a permit or hear Passed unaccepted? | 3 threads, 2 permits, 3 tokens, clock 0..2, expiry after 1 |
| GateEviction | 309,885 | Can a completion that crosses an eviction be accepted or disturb another challenge, and what can leave a lease behind? | 2 threads, 2 ids, 2 tokens, capacity 1, the clock also steps back, even before the epoch |
| GateLive | 151,384 | Does every call return and every lease end? | 2 threads, 1 permit, both targets, no symmetry |
| Decode | 94,279 | Does the loop compute the closed form? | 2 cases of at most 3, up to 4 items of every class |
| Execution | 137,616 | Does one execution return without being saved by a fault, clean up, refund only what never started and judge an honest worker fairly? | 3 cases, pipes of 1 frame, faults, deadline |
| ExecutionRogue | 6,200,288 | Can a worker taken over at any point pass without answering right? | 2 cases, pipes of 1 frame, faults, deadline |
| Issuance | 183,940 | Are the hidden cases, and the holdouts, what the contract, the prompt and the request format need? | 348 tasks, 217 compositions, 4 streams, requests at each limit |
| RandomStream | 1,636 | Is `below` unbiased, and is every word used once? | words of 4 bits, every bound, 3 blocks of 4 words |
| Generation | 680,160 | Does each search end, with a suite that discriminates or examples that identify? | 2 candidates; pools of 4, suites of 3, 2 or 4 rivals; 3 orders, 4 inputs, 2 answers, 3 probes, 2 private cases |
| GateSpent | | docs/design.md:65 against the code, see section 5 | 1 thread |

Why these bounds are enough: the limit of attempts is the code's own 2, and
three tokens give one claim more than a challenge grants, so a refund, a second
claim and a refused third all occur. Capacity 1 with two ids (Gate), or 2 with
three (Store), makes the last insert wait for an eviction. Times 0..2 with an expiry one tick after issue
give a reading before, at and after it. Three callers against
two permits meet a full pool while two others hold leases or wait for one. In GateEviction two
tokens are enough for one challenge to be evicted under its execution while the
other takes its place and is claimed. Three cases through a pipe of one frame let
every writer block, and four items exceed the cases (2), the limit (3) and any
count. A pool of four for a suite of three forces a choice, and four rivals can need more
inputs than the suite has room for. Three orders and three probes
leave candidates ambiguous, constant or identified early; four inputs let private draws repeat
examples and each other. Two candidates let the first be dropped and the second
accepted or the budget be used up. Three blocks of four words let rejections
cross a block boundary.

Symmetry is used only in runs without liveness properties. The Gate runs use
`VIEW View`, which leaves out `reply` and `answer`. No guard reads them; they
are outputs that action properties look at on each transition, and TLC
evaluates an action property on every transition it generates. No invariant
mentions them.

The Issuance run takes the families that use a residue with three moduli, and
the ones that use a threshold or a width with the ends and the middle of both.
The two families with boundary cases of their own get every width and every third
threshold, and the residue is then always the last one. Compositions have
three stages, with every operation in each place, every kind of condition and
three settings of the predicates; one has six stages and reaches the largest
sum a composition can have, so the limit in `OutputsAreExact` is exact.

`CHECK_DEADLOCK FALSE` appears in the Decode, Execution, Issuance and Generation runs, whose
behaviours end with the answer, and in RandomStream, whose blocks are bounded. That an
execution ends is what `CallReturns` checks, and `GenerationEnds` that a search does.

### Fairness

- `Gate!FairSpec`: weak fairness of `Continue(t)` for every thread. A thread inside
  a call is scheduled, and a worker that was started ends: section
  Execution derives this from the parent's deadline. No fairness for `Begin`
  (nobody has to call) nor for the clock, which may stand still.
- `Execution!ThreadSpec`: weak fairness of each of the three threads of the parent;
  nothing is assumed of the worker, and faults are separate actions, so a call
  that waits is not saved by something failing. Each liveness property names what else it
  needs: `CallReturns` that time passes, with the worker free to hang anywhere;
  `PipesNeverBlock` that the worker goes on, with the deadline free never to come.
- `Generation!Spec`: weak fairness of `Next`. A search is one sequential
  computation; which candidates it meets is not assumed.

## 4. Proofs

All theorems hold for every value of the constants that satisfies the named
assumptions: `StoreAssumption`, `PermitAssumption`, `GateAssumption`,
`AnswerAssumption`, `ResponseAssumption`, `DecodeAssumption`, `ExecutionAssumption`,
`StreamAssumption`, `LoopAssumption`, `ScreeningAssumption`, `OrderAssumption`,
`IssuanceAssumption`, `DrawAssumption`, `PoolDrawAssumption`, `HoldoutDrawAssumption` and
`SelectionsAssumption`. Most say that bounds are naturals, that special values are not
members of the sets they are told apart from, and that a set is finite where its
members are counted. `IssuanceAssumption` says that what is drawn is a task or a
composition, the three draw assumptions that a draw stays below its bound, and
`SelectionsAssumption` that a selection has the 20 inputs the suite needs. TLC evaluates
all of them in the runs.

**GateProofs** has two parts, for the store and for the Gate that extends it.

The store. `StoreInvariant` proves `IndInv`. The properties alone
are not inductive. That a completion does not accept a second time, for
example, needs that a consumed entry holds no lease, that a token which was
never granted has no outcome, that an accepted claim belongs to a challenge that is
consumed or gone, and that an id never inserted has no claim. `IndInv` is the conjunction of
these with the type, the budget and the lease, one lemma per operation. From
it follow `StoreAttemptBudget` (the counter is what was charged plus the one in
flight, so the refund never decrements zero), `StoreNoLeaseStealing`,
`StoreOnePass`, `StoreBounded`, `StoreInsertsSpareTheLive` (an entry is changed only by the
claims on it, and goes only in an insert by whose own clock it has expired),
`StoreRefusalsAreHarmless` and `StoreImplementsLifecycle`: under the refinement mapping, each operation is a step of
ChallengeLifecycle or a stutter.

**ReservePermitProofs.** `PermitInvariant`: the counter equals the number of
permits out. `ReserveImplementsPermits`: the loop refines the semaphore. The
load that sees the full counter is the abstract `Refuse`, so giving up later is
only its `Return`.

The Gate. `GateUsesStore`: seen through `storeVars`, the Gate's behaviours are
behaviours of the store. The content is that the arguments are what the
store expects (typed ids and scopes, readings inside `Times`, a fresh token, an id
nobody has), by the invariant `CallsAreTyped`. What is proved of the store therefore
holds inside the Gate: `GateStoreIsSafe` for its budget, lease, single pass and bound, the
live entries its inserts spare and the refusals that take nothing, and
`GateKeepsLifecycle` for the contract, so the whole composition implements
ChallengeLifecycle. The contract lets an entry retire at any time; that none is
evicted too early is what `StoreInsertsSpareTheLive` adds.

The safety of the composition follows from a second invariant, `GateInv`. The
properties alone are not inductive: that no worker is started a third time needs
to know what the counter of an entry stands for while calls are under way and
after the entry is gone. `GateInv` says, for each call between its claim and its
completion, that it is the one its token was granted to, that the claim is
undecided, and that the entry is leased to it or gone (`ClaimsInHand`); that no
other call holds that challenge (`OneHolderPerChallenge`); that the claims which
started a worker or still may are covered by the counter of the entry
(`Charged`, `BudgetIsCounted`); that a claim about to be refunded started none
(`RefundedIsUnstarted`); and that late work is still late by the reading it will be
completed with (`LateStaysLate`). There is one lemma for the steps that touch no
claim (`QuietStep`), one for those a call takes alone while it holds one
(`WorkStep`), and one each for the granted claim, the completion, the completion
without a clock and the clock itself. `OneExecution`, `Budget`, `LateWork`, `NoOrphan` and
the action property `PassedIsAccepted` follow, for any number of callers, ids
and tokens, with clocks that step back. `PermitsMatch` has an invariant of its own.

**DecodeResponseProofs.** `LoopInv` says that the loop has passed only items
that do not stop it, and recorded the mark of the last one that left any.
`DecodeReturnsVerdictOf` follows for responses of any length, and from it
`DecodePassedIsComplete`.

**ExecutionProofs.** `ExecutionInv` says, for each point of `execute_reserved`, what
is known of the process, of the two threads and of the output (`Progress`).
The worker's steps, honest or not, touch nothing the parent knows except
through the pipes, so one lemma covers all of them. `ExecutionPassedIsEarned`,
`ExecutionRefundsOnlyUnstarted` and `ExecutionNothingLeftBehind` follow.
`ExecutionNoFalseAlarm` needs a second invariant, `HonestInv`, about a worker that keeps to
its program: until something ends it from outside (`Intact`), what the reader has
collected and what is still in the pipe are the header and one item for each
answer (`OwnReport`); it reports success only at the end of the request, when the
writer is done; and when the reader has finished, the pipe is empty and the
worker gone. The property is about executions whose reader thread was started and read to
the end; without that the call returns `WorkerFailure`, however well the worker did.

**RandomStreamProofs.** `StreamUnbiased`: for every word size and every bound the
accepted words fall into residue classes of equal size, and fewer than half are
rejected. The argument is that the number of accepted words is a
multiple of the bound, and that a value is given by one word in each of its
blocks, which a bijection counts. `StreamEveryWordOnce`: the words taken are the
first of the key stream, by an induction over cursor and counter.

**GenerationProofs.** `GenerationInvariant` has a part for each search. For the screening
it says what `masks` and `differs` know of each other at every point, that positions hold
different inputs, and that the selected ones contain the boundaries and stay within the
suite. From it `ScreeningSuiteDiscriminates`, for any pool, any number of rivals and
any greedy order; and `ScreeningSuiteIsNotConstant`, which needs the empty input in the
suite and the rival that returns nothing, not the rival for constants. For order synthesis
it is `ExamplesSayAll` with the candidate's shape: whatever probe was left out of the
examples excluded nothing the examples do not exclude. `OrderExamplesSayAll`,
`OrderIsIdentified` and `OrderCasesAreUnseen` follow for any table of meanings.

**TaskProofs.** `EvaluateIsAnswer`: for every task of each of the ten families, with every
multiplier, offset, modulus, residue, threshold, width and direction the generator
can draw, and for every finite sequence of integers, what `evaluate` computes is
what the sentences of the prompt describe. `ComposedIsDescribed`: the same for
every composition, stage by stage. The definitions recurse over the input, and the
library's induction principles cannot be instantiated here, so the inductions are
carried by a lemma about sets: a set of naturals that has 0 and with each number
below n the next one has all up to n (`UpTo`, from the least element a non-empty set has,
`Least`). `CourseExists` gives for every fold the function of its intermediate values,
and each family then has an invariant over that course: partial sums, the buckets, the
best run and the one that ends here (`RunInv`), the order and the multiset of the
values an insertion has placed. The filters rest on `KeepLists`: the k-th value
kept is the value at the position with rank k. The last section carries bounds through the
same iterators: `EvaluateIsWithin` and `ComposedIsWithin` say how large an answer can
become from m values within b. A composition has at most five stages that
multiply, because one of its at most six stages is a filter.

**IssuanceProofs.** `IssuanceInvariant`: what is known at each point of an issue. The
inputs put together so far have the promised length and range and are as many as the loop
counts; a shuffle rearranges them (`ShuffledRearranges`), so that none is lost or repeated;
`expected` is what the task gives on each. A pool holds inputs within its limit,
however many are drawn for it (`ExtraInputIsInput`, `InsertKeepsPool`). For the holdouts, `DrawnShows` says
which scale a value of each category has, `ValuesShow` that all of them are
in the prefix, and one lemma each that the prefix shuffle, the duplicates and the arrangement
keep them (`PrefixShuffleKeeps`, `DuplicatesKeep`, `ArrangedKeeps`). From it
`FitsTheRequestHolds`; `PromptIsKeptHolds` with TaskProofs; `OutputsAreExactHolds`
with the bounds there, where the limits are reached exactly for compositions; and
`HoldoutsAreMixedHolds`. `MistakesFailHolds` needs two things more. One is an invariant
of its own, `FixedAreKept`: a task's fixed cases are all in its suite from the moment
they are made until it is issued, past the random cases and the shuffle. The other is
a fixed case for each mistake (`FixedShowMistakes`), for every threshold and width: values
at the threshold for a strict bound, 64 large ones for a limit too large, two runs of the same
length for a tie, the differences on and beyond the limits, a window that sums to the
threshold. A mistaken task need not be one that can be drawn (its threshold
may be 21, its width 7), so what it answers is derived from `Resembles` and not from
`EvaluateIsAnswer`. All five theorems hold for every request, task, stream and
selection, where the run has a few of each.

Only model-checked:

- Liveness (`CallsReturn`, `LeasesEnd`, `CallReturns`, `PipesNeverBlock`,
  `GenerationEnds`): the prover has no rules for fairness and ENABLED.
- The finding of section 5, which is a property that fails.

## 5. What the code does and a document does not say

- **An attempt is spent although no worker was started** (run GateSpent).
  docs/design.md:65 says "Failure before starting a worker or unsupported
  platform: refund the attempt." `execute_reserved` returns `InvalidSubmission` for an
  empty source or one with a NUL byte before anything is spawned
  (runtime.rs:86-88), and `verify` maps it to `Rejected`. `ExecutionBudget` is not
  affected.

Met while modelling, and consistent with what the repository says, or not
stated anywhere:

- `verify` reads the completion time before `complete` takes the lock, so an
  acceptance may be recorded in the instant after the expiry. The result is
  still judged by a reading taken after the execution ended, which is what
  `LateWorkIsNotAccepted` states.
- If the clock cannot be read at completion, the lease stays until the challenge
  expires (`NoOrphanedLease` names this as the only way).
- A claim is answered `Exhausted` while the last attempt is in flight, although that
  attempt may still be refunded and the challenge be claimable again.
- The screen for constant outputs compares with the first input of the pool
  only. That a suite is not constant rests on another screen (`SuiteIsNotConstant`).
- A refused `insert` has already pruned. `RefusalsAreHarmless` says which changes a
  refused call may make, for every refusal there is: one that completes a claim after its
  challenge expired ends the claim and keeps the attempt spent.
- For stable_partition the fixed cases do not always tell A-then-B from
  B-then-A (modulus 7, residue 5: no fixed case need have a value of that residue
  beside another). The random cases decide there, so `MistakesFail` claims nothing
  for that family, nor for the remaining residue families.
- A host that ignores SIGCHLD makes `try_wait` fail, which ends the execution as
  `ResourceLimit` without having polled the deadline (`Faults` in `GiveUp`).

## 6. Not modelled, and why

- Lock poisoning in the store: it takes a panic under the lock. The only
  arithmetic there is the counter, which `AttemptBudget` shows stays in range.
- `reference_solution`, a development aid, and the wording of prompts.
- Derivation of seeds and ids, hex encoding, JSON parsing: their results are
  classified (fresh, malformed, right, unexpected) where a property tells them apart.
- Isolation of the worker (seccomp, limits, the arena): one step that succeeds or fails. What
  it prevents is assumed about the operating system.
- What the screening's rivals compute: `reference` programs with a stage deleted, a
  condition dropped or moved, and the list of shortcuts. A rival is the set of
  inputs it differs on, so the screens hold for any list; whether the list is the
  right one is a question about the experiment.
- Counters and reports kept for the evaluator by both searches, and the rewording of
  prompts in order synthesis.
- The JavaScript engine and its table of builtins, the build script of the worker,
  the evaluation and solver scripts, and the vendored mquickjs.
- Crashes of the host: the state is in memory and ends with the process.

## 7. Plan

The plan followed this order, and its items are done.

1. ChallengeLifecycle, InMemoryStore and their proofs.
2. WorkerPermits, ReservePermit and their proofs.
3. Gate over the store, with the liveness run.
4. Response and DecodeResponse.
5. Execution with the worker.
6. Tasks and Issuance.
7. Composition: stages, guards and `generate`, against the prompt.
8. RandomStream, with the count of accepted words as a theorem.
9. Screening: the search, the selection, the holdouts.
10. Order synthesis.
11. The safety of the Gate, the two searches and the refusals of the store as
    theorems.
12. The task families, the compositions, the hidden cases and the holdouts as theorems
    for every task, input and stream; the lifecycle through the Gate; that an honest
    worker is never failed.

What remains worth doing: the isolation of the worker step by step
(worker.c:`isolate`), which needs a model of what the kernel enforces; the rewording of the
prompts in order synthesis; and the quota and pruning of a shared store, once
there is one beside `InMemoryStore`.
