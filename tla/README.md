# Verification of the LLVM passes

TLA+ modules, TLC configurations and TLAPS proofs about the passes of this
repository. A pass is interesting twice: what it does to a function when it
runs in the compiler, and what the code it inserted does when the program runs.
The modules here cover both, and state the second as properties of the
instrumented program, in whatever surroundings (threads, signal handlers,
longjmp, failing system calls) such a program meets. The two services the
analyses are tried on are modelled as well: they are most of the C code here.

## 1. The system

Every pass is a shared object that `clang -Xclang -load` takes, without `-O`:
the code a pass sees is what clang emits at -O0, every variable in memory, and
code generation is LLVM's fast, unoptimising one. Passes do not call each other;
what connects those that are loaded together is the IR they read and write.
T-fuzz and the magic value extraction look at the same branches and are modelled
as loaded together, in either order; every other pass is modelled alone.
Function and basic-block passes are run by the legacy pass manager, one function
at a time on one thread. Concurrency enters with the inserted code only, which
keeps its state in globals of the program.

| Component (under `src/`) | State | Operations | What is hard |
|---|---|---|---|
| Shadow stack `separated-call-stack/shadow-stack-llvm6/pass.cpp` | compiler: list of returns. Run time: `__shadow_stack_pointer`, `__shadow_stack_base`, a mapped page | main's prologue maps the page; other prologues push, epilogues check and pop | globals shared by all threads and handlers; frames that vanish by `longjmp`; the page's end; a failed `mmap`; code that runs before main |
| AFL maybe-log `afl_maybe_log/pass.cpp` | `__afl_area_ptr`, `__afl_global_area_ptr`, `__afl_setup_failure`, thread-local `__afl_prev_loc`, the shared bitmap | ten blocks put before each basic block: set-up of the segment, counter update, previous location | set-up raced by threads; failure of `getenv`/`shmat`; lost and wrapped counters; colliding indices |
| Compare splitting `cmp_reduce/pass.cpp` | the function's blocks and phis | each equality test of an integer of 4 bytes or more becomes a chain of byte tests | the word is read once, its bytes one by one and later; sign extension; which way the last byte branches; blocks the pass makes and then visits |
| Stack guard `stackguard/pass.cpp` | global `canary`, a canary slot per frame | load and store in the prologue, load and compare before *the last* return | which return gets the check; the global changing while frames live |
| T-fuzz `t_fuzz/pass.cpp` | the function's branches | swaps the successors of equality branches | loaded together with the extraction, in either order |
| Magic value extraction `magic_value_extract/pass.cpp` | `magics` | collects the non-zero constants of equality tests | what another pass has done to the block before |
| GEP analysis `gep_analysis/pass.cpp` | `bt_visited`, the recursion, the list of allocas, `expanded` | depth-first search from each GEP to the allocas, then one forward sweep per alloca | cycles through phis; the visited set outlives each search; one sweep misses flows through loops |
| LEA analysis `lea_analysis/pass.cpp` | a list of GEPs | filters GEPs with a non-constant operand | - |
| Function counter `simple_pass/globvar/pass.cpp` | `func_count` | load, add, store, load again for `printf` | a data race between threads |
| Block counter `simple_pass/module_pass/pass.cpp` | `bb_count` | load, add, store in every block | the same race |
| Operator replacement `simple_pass/only_operator_multiply/pass.cpp` | use lists | redirects the uses of an operator to a product | it walks a use list while it empties it |
| Call utility `simple_pass/irbuilder_util/pass.cpp`, store reference `simple_pass/reference/pass.cpp` | a list of calls / - | insert a call to `puts` / `printf` after each call / store | inserting while iterating |
| Message service `gep_analysis/cgc/cromu_001.c` (and its copy under `lea_analysis`) | linked lists of users and of each user's messages, counters, who is logged in | create, log in, send, read, list, delete, log out | numbers after deletions; a counter of eight bits; lines left half read |
| Draft service `gep_analysis/cgc/cromu_041.c` (and its copy) | users, an array of messages each, flags and counters beside it | create, log in, draft, send, delete, log out, reset a password | three ways to count the same messages; slots that are reused; full arrays |
| IR decoder, template, drafts, build files | none | print, or nothing | - |

What makes each correct:

* *shadow stack*: a function whose saved address was replaced does not return,
  and one whose address is intact is never stopped; what a prologue recorded
  stays recorded until its epilogue; only what runs before the mapping, or without
  one, faults; the page holds a frame per word.
* *AFL*: a counter belongs to a directed edge of one thread's path; the bitmap
  holds how often each was taken, short only of increments that overlap; set-up
  happens once, whatever fails, and no block goes through a pointer that is not
  set, until two threads are in the set-up at once; the program always goes on.
* *compare splitting*: the chain decides as the comparison did; control never
  reaches the block that ends in `unreachable`; no wide test is left.
* *stack guard*: the check is at the last return, whatever the function looks
  like; a function that has only that one does not come back with a changed
  canary; the check fails only when somebody wrote to slot or global.
* *T-fuzz and extraction*: in either order each test is inverted once and its
  constant noted, and of other equality comparisons neither or only the inversion.
  *GEP*: the allocas listed are exactly those an address comes
  from, each once, and a report has exactly what an alloca goes to along the
  function. *LEA*: an index that comes from a reported alloca is listed.
* *Counters*: exact while no two entries overlap, never too high.
* *Inserting passes*: one instruction per target, and the walk ends. *Operator
  replacement*: all uses of an operator move to its product, and none that another
  operator has.
* *Message service*: numbers ascend and are never given twice; every message is
  found by its number; prompts show all that is unread; only owners delete.
* *Draft service*: all counts agree with the lists; drafts lie with their
  author, received messages with their addressee; each draft arrives once.

`PROJECT.json` lists every component with its state of modelling, and every
hazard at the line where it bites.

## 2. Modules

### Shadow stack: `ShadowStack`, `GuardedCalls`, `ShadowStackProofs`

`ShadowStack` is an instrumented program at run time. `sp`, `bound`, `shadow` are
the two globals and the mapping, `stack[t]` the native stack of thread t: frames
with their saved return address `ra`, the registers of the inserted code (`got`,
`reg`) and a `pc`. `Init` is the process before main; the actions are, in the
order of the code,

* `MapShadow`, `SetBase`: `createAllocationPrologue` (lines 37-79);
* `LoadForPush`, `Decrement`, `ReloadForPush`, `StoreRetAddr`:
  `createShadowStackPrologue` (102-127), one action per access to a global;
* `LoadForCheck`, `Compare`, `LoadForPop`, `Increment`, `Ret`:
  `createShadowStackEpilogue` (147-184);
* `StartMain`, `StartRoutine`, `Call`, `Signal`, `Overwrite`, `Longjmp`, `Exit`,
  `MainReturn`: the program, which may do any of these at any moment that `Env`
  allows.

The last group has no lines in the repository: it is the environment. `Env`
names what a program may do beyond calling and returning, so that every property
is checked in exactly the surroundings in which it should hold. `orig` and
`entry` in a frame are history (what the call pushed, where the shadow stack
stood); only `Ret` reads them, to tell a return to the caller from any other.
`mmap` is declared to return `i8*`, so the GEP by 0x1000 - 8 in main's prologue
moves by bytes and `Base` is the last word of the page; `__shadow_stack_pointer`
is loaded as `i64*`, so the GEPs by 8 move by elements and a push takes eight
words (`Stride`), where the comment at line 118 says one pointer. A page of 512
words therefore holds 63 guarded frames. Prologue and epilogue agree on the
stride, so only the capacity suffers. `WordPerFrame` says what the comment does and
is violated (`ss_capacity`); `Capacity`, with the code's stride, is a lemma of the
proofs.

A push without a mapping, whether `mmap` failed or main has yet to call it, faults and
ends the process. `FaultsAreEarly` says that this is where the damage ends: no
function entered without a mapping comes to its body, and with a mapping no push
or check faults, wherever handlers and longjmp leave the pointer.

`GuardedCalls` is the abstract promise, without a shadow stack: calls are
entered, tampered with, left when intact, stopped when not. `GuardsCalls` maps
the one-threaded process to it (main's own frame, which gets no epilogue, is not
a guarded call).

### AFL: `AflMaybeLog`, `AflMaybeLogProofs`

One action per inserted block, or several where a block accesses shared memory
more than once: `MaybeLog` to `Fail` are `afl_maybe_log` ... `afl_fail` (lines
86-240), `Store`, `LoadCounter`, `WriteCounter`, `SetPrev` are `afl_store`
(198-232), `Visit` is the program entering a block. A location is a vector of
bits, so that xor, shift and halving are those of machine words of any width.
`hits`, `last` and `attempts` are history, as are `overlapped` (a counter was stored
over an increment of another thread) and `raced` (two threads were in the set-up
at once); the properties that only orderly programs have name them. `visits`, the
number of visits of all threads, is the bound. The segment may be attached twice by
two threads; both addresses show the same bytes and are one value, "segment".

`afl_shm_success` also loads through the global before it stores it (line 189).
The value is unused and the unoptimised build emits no instruction for a dead
load, so the model has none; the hazard list has the line, without a property.

### Compare splitting: `IRFunction`, `SourceFunction`, `CmpReduce`, `CmpReduceProofs`

`IRFunction` is the data: blocks ended by a test of a loaded integer against a
constant, or by something else. `SourceFunction` is how a function behaves as it was
compiled: load, perhaps a store to the variable, compare, branch. `CmpReduce` has
two phases. `Rewrite` and `Leave` are `runOnBasicBlock` (lines 29-150) on the next
block the pass manager visits, splits, branches, phi updates and all; `Load`,
`Store`, `CompareWord`, `CompareByte`, `Jump` run the code that is left, and `Write`
is a thread or handler that shares the variable. `<<b, 0>>` is block b of the
source, `<<b, k>>` the block of its k-th split. `Order` is the order of the visits,
in which every block has its turn (`PassAssumption`). `Refines` maps the run to
`SourceFunction` with block := the source block of the label; the chain's inner
steps stutter. The magic number is kept in a `uint32_t`: for an eight-byte variable
the upper constants are shifts by 32 or more, undefined, and therefore any bytes
(`MagicBytes`).

### Stack guard: `StackGuard`, `StackGuardProofs`

`Pick`, `WalkBack` and `Insert` compile each function (lines 60-104): load, alloca
and store are put first (`Body`), then `function_back` walks from the last
instruction to a return, or to the first instruction. Then the program runs. `Call`
to `Compare` are a frame's life, one action per load and store of the inserted code;
`Smash` and `Rekey` are stores of the program, of anybody to a slot or to the
global, and have no lines in the repository; `Stop` is `exit`. In a function without
a return the check comes before the prologue (`CheckFirst`) and reads a slot that
was never written: any word. `touched` is history. `GuardsFrames` maps the frames of
functions with one return to `GuardedCalls`, the abstract specification of the
shadow stack. What is saved of a frame is whether its canary agrees with the
global's, in whichever of slot and registers the code will read next (`Saved`); a
call before its prologue, and a function whose returns are not all checked, counts
as intact. A store between the two loads of the check is the one thing that gets
past it, and `GuardedReturn` says so.

### Small passes: `Instructions`, `GepAnalysis`, `LeaAnalysis`, `AddressAnalyses`, `InsertingPasses`, `BranchPasses`, `Counters`, `GepAnalysisProofs`, `SmallPassesProofs`

* `Instructions` is a function as the walking passes see it: numbered
  instructions, each with a kind and operands.
* `GepAnalysis` has the recursion `backtrackToAlloca` as a stack of calls
  (`Visit`, `Operand`, `Return`, lines 32-62), the search of all GEPs (`Meet`) and
  the reports (`NextAlloca`, `Report`, lines 86-106), one instruction a step.
  What it should compute is said without a search: an alloca is where an address
  `ComesFrom` when it is in every set that has the GEPs and is closed under
  operands.
* `LeaAnalysis` is the filter of lines 25-51 (`Examine`). `AddressAnalyses` has both
  analyses go over one function, one after the other.
* `InsertingPasses` walks LLVM's instruction lists and use lists as they change:
  `it` is the iterator, `uses` the linked lists, `NextUse` the iterator over them
  after `setOperand` has moved its element (lines 25-28 of
  `only_operator_multiply`). A use list begins in the order of age, newest
  first or oldest first (`ByAge`). Operators are what clang emits at -O0: two
  operands, listed before them, not both constants (`OperatorsAssumption`), so
  that `CreateMul` makes an instruction and never folds. `ProductsFollow` says that a
  multiplication stands behind its operator and only takes uses that were the operator's
  own; `EveryUseMoves`, that it takes all of them, is violated
  (`multiply_uses`).
* `BranchPasses` gives each block to T-fuzz and to the extraction, in the order
  they were loaded. Its functions are those of `IRFunction`, and blocks that branch on
  another comparison (`Comparison`): T-fuzz also exchanges the successors of an
  equality of two variables or of floating-point numbers, the extraction looks at
  the constants of integer equalities only.
* `Counters` is the program that the two counting passes leave. Their
  counters have common linkage and the initializer 1337, which the IR verifier
  would reject and an object file would not carry; the start is a constant
  (`Leet`), and nothing depends on which.

### Sample programs: `ServiceInput`, `MessageService`, `Mailboxes`, `DraftService`, and their proofs

`MessageService` is `cromu_001.c`: `users` is the list from `init_users` on,
newest first, each with its list of messages; one action per choice of the two
menus, which includes the prompt that `handle_loggedin` comes back to (it lists
unread messages and marks them). Lines are empty, a name or a text. `receive_until`
stops when the field is full and the rest of the line stays in the input (`left`): the
next read takes it for a line, and it may be only the newline, or a line that fills a
field again, and so on. At the menu an empty choice ends the process. The counter of
`list_unread_messages` is an `unsigned char`, `Wrap` its number of values.
`Mailboxes` promises the same without lists: sets of numbered messages, numbers
never given twice, deletion by the owner only, prompts that show everything or
nothing. `KeepsMailboxes` is the refinement.

`DraftService` is `cromu_041.c`: `listOfMessages` is the array by user and slot,
used or not (`match`); `add_draft` (the source's `add_message`),
`print_draft_for_send`, `print_draft_for_del`, `create_account` (`create_user`)
and the counting and listing functions are operators, the menus' choices are
actions. `MAX_MESSAGES` and `MAX_MESSAGES_LOGIN` are the source's, `DraftTexts`
what a message may say. Clearing a slot keeps its `is_draft`, sending and
deleting do not look at `match`, and the counts do not either, as in the
source. `add_message` has two ways to write behind the array, which the comments
in it describe; the model stops before both (`MayDraft`). With
`PATCHED` defined (`Patched`), a full array refuses the draft; the run checks that build,
whose behaviours include the other's up to there.

### For TLC

The MC modules give constants their values, and `MCPrograms` puts the small passes
and the services side by side by extending their modules: one of them runs, the
others stay as they began. A definition whose name has a suffix after an underscore
(`Half_Identity`) is a plausible wrong version of the one it stands before; no
specification uses it, `PROJECT.json` pairs it with the property that tells the
difference.

## 3. Runs

All runs are exhaustive. "States" are distinct states.

| Run | What it asks | Instance | States |
|---|---|---|---|
| `ss_interrupts` | Do handlers, joined threads and constructors ever move the pointer from where a function expects it, and is a recorded word written over, longjmp included, and what faults? | 2 threads, 32 words, depth 3; handlers and longjmp; constructors; `mmap` may fail | 1472487 |
| `ss_overwrite` | When saved addresses may be replaced, does only main return to one, are alarms true, does the original stay recorded, and is `GuardedCalls` implemented? | 1 thread, 32 words, depth 5, `mmap` may fail | 8479 |
| `ss_concurrent` | Is an alarm false with two live threads? (It is.) | 2 threads, depth 3 | until violated |
| `ss_capacity` | Does the page hold a frame per word? (It does not.) | 1 thread, 10 words, depth 12 | until violated |
| `afl` | Do counters count directed edges of one thread's path, losing only what overlaps; does set-up happen once and never crash in an orderly program; does every visit come back? | 2 threads, 2 blocks, all placements up to exchanging the blocks, 4 visits | 511468 |
| `afl_setup` | Does `afl_setup` "simply load the global"? (It does not.) | as `afl` | until violated |
| `cr_refines` | Is the rewritten function the source, decisions that must come included? | 2 chained tests or a retry loop; bytes of 3 values, words of 2 | 48384 |
| `cr_rough` | What survives concurrent writers, stores in between, sign bits, wide variables? | 1 rough test and a plain one, up to 3 bytes where a word has 2 | 33928 |
| `cr_signed` | Does the chain decide as the comparison does with sign bits? (It does not.) | as `cr_refines` | until violated |
| `sg` | Where is the check, are alarms true, what comes back unchecked, and are functions with one return guarded calls? | 2 functions of 0, 1 or 2 returns, 2 words, 2 frames | 130746 |
| `programs` | Do searches, walks and counters do what they should on every function of the set, and do the services keep what they show and count? | 5 instructions with loops, or with operators, calls and stores; 2 chained branches; 2 threads, 5 entries; 2 users, 4 messages, counter of 2 values; 2 slots per user, 2 drafts per session | 317667 |
| `multiply_uses` | Do all uses of an operator move to its product? (They do not.) | as `programs` | until violated |

Why the bounds are enough:

* *Shadow stack.* 32 words hold three guarded frames (offsets 23, 15, 7). With depth
  5, main and four callees, the fourth push leaves the page, which is the one case
  that more words would not change; a handler counts as a frame. Two return
  addresses are enough to tell an intact one from a replaced one. Depth 3 in the
  two-threaded run lets a handler or callee run above a function that is itself
  above main, on both threads, and lets longjmp skip a frame, in a handler as well.
  Symmetry permutes addresses, which no property tells apart, and is used in this
  run only. In `ss_capacity`, 10 words have room for nine frames of a word and for
  one of eight.
* *AFL.* Two bits of location make four counters; the first two are read as the word
  that `afl_setup` takes for a pointer. Two values of a counter make it wrap at the
  second hit, and four visits of one thread take the same edge three times, so it
  wraps and goes on. Two blocks already give all four kinds of edges (A-A, A-B, B-A,
  B-B). The visits are shared out in every way: two of each thread let one set up,
  count and publish while the other is anywhere in its own set-up and comes by a
  second time, after an orderly set-up or a raced one.
* *Compare splitting.* Two bytes stand for four: the chain has a first byte, which
  opens it, and a last one, which closes it, and those in between are like the
  first. Bytes need a value below the sign bit that is not the magic one and one
  above. Three bytes where a word has two stand for the variable of eight. The rough
  test always has a byte with a sign bit, so it never matches in `cr_rough`; that a
  match rests on bytes seen is for the plain test there, and for both by
  `DecisionsRestOnBytesSeen`. The second test makes chains follow one another, both
  branches meet in one block (for the phis), and the retry loop runs a chain again
  and again.

* *Stack guard.* The three layouts have no return, one that is not the last
  instruction, and two; two functions and two frames have every pair of them
  call one another, with a store at every moment. Two words tell right from wrong.
* *Small passes.* The functions with loops have a phi of any two values, so an
  operand may come before, after, or be the instruction itself; the search then
  meets visited instructions on the stack, off the stack, and allocas twice. They
  have one getelementptr; that the visited set serves several searches is covered by
  the proof (`AllocasAreFound`). The
  straight ones have operators used up to three times, by one another, by
  calls and by stores, next to one another and at the end. Two entries can overlap
  in every way with two threads; five let a thread lose several.
* *Services.* Two users write to themselves and to each other. Three messages let the
  first, a middle and the last one be deleted before another comes; with a
  counter of two values the second unread message makes it wrap. Four messages in all
  have an owner delete one and still be sent another after the next. Two slots
  and two drafts fill an array from both sides, own drafts and received messages.

Fairness. `AflMaybeLog!FairSpec` has WF for the instrumentation of each thread: the
inserted blocks contain no lock and no loop, and the operating system's scheduler
runs every runnable thread; nothing is assumed of `Visit`, so the program may stop.
`Returns` under it says that no path through the ten blocks circles or hangs.
`CmpReduce!FairSpec` has WF for the pass (the compiler finishes) and for the
function's own steps (it is running); `Write` has none. It implements the fairness
of `SourceFunction`: whenever the source would decide, the chain does, after
finitely many bytes. The other specifications have no fairness: their properties are
safety. Done steps stand for a stopped process in ShadowStack and AflMaybeLog, so
that TLC's deadlock check is on in their runs; the others switch it off, since a
function ends, a pass finishes, a guard or a service stops the process.

Each property is paired in `PROJECT.json` with a wrong version of a definition
that it rejects: a pop of one word where a push takes eight, a load hoisted over
the store, swapped successors missing for `!=`, a last byte that falls through, a
failure flag that is not stored, a previous location shared by threads.

## 4. What the runs found

* **False alarm with threads** (`ss_concurrent`). The pointer is one global, moved
  in three instructions: two prologues share a slot. With threads that are joined at
  once, and with handlers, whose pushes and pops nest, no alarm is false
  (`OnlyLongjmpUnlinks`).
* **`afl_setup` stores the wrong pointer** (`afl_setup`). The block loads the
  global, then eight bytes of the bitmap through it, and stores those. No thread gets
  there, and none crashes, until two are in the set-up at once (`SetUpInv`, proved
  for any number of threads); then the pointer becomes null or wild.
* **A push takes eight words** (`ss_capacity`). The comment subtracts the size of a
  pointer, the GEP that many elements. Nested calls leave the page when it has
  room for seven times as many and more; `CapacityIsUsed` proves what the page does hold.
* **Bytes with a sign bit never match** (`cr_signed`). The byte is sign-extended
  and its constant zero-extended. Equal integers take the branch for a mismatch.
* **One use of an operator moves** (`multiply_uses`). Giving the use to the
  multiplication moves it to another list, in which the walk over `op->uses()` goes on and
  ends; the other uses keep the operator's value (`OneUseMoves`, proved, says so exactly).

Seen while modelling, and part of the models rather than of the findings:
`PhisFollowSplits`, which states that after a rewrite the phis of the successors
list the `unreachable` block and none of the chain's branches (clang at -O0 emits
phis for `&&`, `||` and `?:` only); eight-byte magic numbers compare their upper
bytes with undefined constants; main has no epilogue; longjmp leaves words on the
shadow stack, so the next epilogue raises an alarm (`OnlyLongjmpUnlinks` allows this
step and no other), and after one inside a handler the interrupted prologue pushes
to another word than the one it took; `if (x++ == m)` compares the incremented
variable, since the bytes are loaded at the comparison; of the stack guard, that
only the last return is checked, and that a function which never returns is checked
before its canary is stored; of AFL, that a counter wraps (`CountsEdges` is stated
modulo its width, so a taken edge may show as zero); of the GEP analysis, that a
report misses what an alloca reaches only through a back edge (`ReportsAreWhole` and
`IndexesAreListed` are stated with the order of the instructions); of the message
service, that 256 unread messages are not shown, as its comment says
(`PromptShowsAll` allows this case and no other). The `doInitialization` of five
passes and the `doFinalization` of two promise a value and have no return statement;
the models let them return.

## 5. What is proved

`tlapm` checks every theorem for all values of the constants.

*ShadowStackProofs.* `TypeCorrect` needs no condition. The rest is under
`Disciplined`, except `FaultsComeEarly`: one thread, nothing instrumented before
main, no longjmp, and no handler in a program whose stores go astray (a handler
between the check and `ret` defeats any check). "Alarms are true" and "returns are
guarded" are not inductive: they say nothing of where the pointer is. `IInv` adds
that every frame starts where the frame below has left the pointer (`LinksOK`, with
`After` for where a frame at a given instruction leaves it), that the frames below
the top are in their bodies where it matters (`BelowOK`), that slots descend
(`DescentOK`), so that a push writes below every recorded word, and by at most the
stride (`DepthOK`), which yields `Capacity`. `FunOK` says what the registers hold at
each instruction. The step lemma has one case per action. From `Invariance` follow
`AlarmsAreTrue`, `ReturnsAreGuarded`, `CapacityIsUsed` and `AddressesStayRecorded`,
for any page, depth and addresses. `FaultsComeEarly` holds of every process,
whatever its threads, handlers and longjmp do: `MappedInv` says that while main maps
the page there is no frame but its own, and that at any other time the pointer, and
every register that has a copy of it, points into the mapping or, without one,
nowhere. `CallsAreGuarded` is the refinement: of the steps, a call or handler enters
(`PushEnters`), a stray store tampers, `Ret` leaves, and `Compare` raises the alarm
only on a call that was tampered with, by `IInv`; all others leave the calls as they
are.

*AflMaybeLogProofs.* `EdgesAreOwn` for any number of threads and any interleaving:
`OwnEdges` is inductive with the types, since `prev`, `last` and the registers
belong to one thread. `EdgesAreDirected` rests on `SwappedEdge`: if the edges a-b
and b-a had one index, then a xor a/2 = b xor b/2, and since that map is the Gray
code, which is injective (`GrayCode`, by the highest bit in which a and b differ), a
= b. For any number of threads of which no two are in the set-up at once (`raced`),
`SetUpInvariance` shows `SetUpInv` inductive (why: the two pointers are set
together, a started set-up leaves a mark, and only one thread is between the two),
and `SetUpHappensOnce` and `OrderlySetUpNeverCrashes` follow. `BitmapCountsEdges`,
for any finite number of blocks and any counter width: a counter holds, modulo its
width, the sum of the hits of the edges that share it. This holds for any number of
threads while no increments overlap: what a thread has loaded is then what the
counter still holds. A sum over a set is any function that adds up the set's subsets
(`AddsUp`); there is one (`OneSum`), and a hit more of an element is one more for
the subsets that have it (`SumGrows`).

*CmpReduceProofs.* `Invariance` proves `IInv` for any function and any writer:
`CodeInv` says that each label holds the source's terminator, a byte of its
chain, or the rest of the last split; `RunInv` that control at byte k has seen bytes
0 .. k-1 match. `UnreachableIsNotReached`, `EveryTestIsReduced`, and
`DecisionsRestOnBytesSeen` follow. `PhisAreRenamed` needs one thing more
(`PhisInv`): while the pass is at work, each phi names its predecessors as they
are called by then, which depends on the blocks that have been rewritten, and
only wide tests are. Under `Handled` (not shared, no store in
between, no sign bit, at most a word) the variable stands still during a test
(`StillInvariance`); hence `BranchesAreTheSame`, and `Implementation`: every
behaviour of the rewritten function is one of the source, the safety part of
`Refines`. `cr_signed` shows that the condition on sign bits is needed.

*StackGuardProofs.* `Invariance`, for functions of any length: `IInv` says that no
return lies behind the walk (`LastReturnsAreChecked` follows when it stops), and for
each frame how its registers, slot and the global agree depending on where it is and
whether a store came in between (`FrameOK`), which gives `AlarmsAreTrue`.
`ReturnsAreGuarded` adds that the last return is the only one (`OneReturn`).
`FramesAreGuarded` is the refinement `GuardsFrames`, for any functions: every store,
to a slot or to the global, tampers with some calls; the check compares what the
mapping calls saved, and a frame that is left was intact (`LeftIntact`).

*GepAnalysisProofs.* `Invariance`, for functions of any length with any cycles.
`SearchInv` says that what is visited or waits is in every closed set, and that each
operand of a visited instruction is visited, or on the stack, or still to come in a
call that waits; no two waiting calls have one instruction (`RecursionsAreBounded`),
because an instruction is marked before its operands are looked at. When the stack
is empty the visited set is itself closed, so it is the least one:
`AllocasAreFound`, in both directions. `ReportsAreComplete` is the same argument for
the sweep, with "closed up to this line" (`ReportInv`). `TheAnalysesAgree` joins it
with the filter (`LeaInv`): a getelementptr that a report has though its base is not
in it has an index from there, which is no constant, so the filter, which has passed
by every instruction, has it.

*SmallPassesProofs.*
* Counters. `EntriesAreCounted` for any number of threads: a value loaded was once
  the counter's, and still is when no entry overlaps (`CtrInv`).
* Branches. `BranchesTurn`, for any blocks, widths and either order of the passes.
  `BrInv`: of the blocks looked at, the tests are exchanged and their values noted,
  other comparisons for equality are exchanged, the rest is as compiled, so that no
  branch is exchanged twice.
* Insertions, for any function. "Each target gets one" is not inductive: it
  says nothing of the time in between. `InsInv` names the targets served so far
  (`Served`: those the iterator has passed by, or, in the second walk of `puts`, those no
  longer collected) and says that beside each of them, and of no other, stands one new
  instruction (`ServedOnce`); that the collected calls are the calls passed by, each
  once (`CallsOnce`); and, for the operator replacement, that what has not been passed
  by has all its uses, in its own list, while of the uses of what has been passed
  by exactly one has moved (`UsesMoved`). The operands of an operator come before
  it, so `CreateMul` adds uses to lists that the walk has done with. The lemmas on
  lists (`ListedAt`, `AfterIs`, `InsertIs`) say where an instruction stands after one
  was put in. `TargetsAreServedOnce`, `OwnProductsFollow` and `OneUseIsMoved` follow from
  `InsertInvariance`.

*MessageServiceProofs.* `Invariance` for lists of any length: numbers ascend
below the count, names are unique, and a user who is at a prompt has no
unread message or as many as the counter has values. `NumbersAscend`,
`NamesStayUnique` and `PromptsShowAll` are its parts; `ListsAreWhole` follows since
an ascending list has one message per number (`OnlyHit`). `MailboxesAreKept` is the
refinement `KeepsMailboxes`. Its lemmas say what the list functions do to the set of a
list's messages (`MarkedSet`, `ListedSet`, `AddedSet`, `DeletedSet`), then what a
changed user does to the mailboxes (`MappedUpdate`), then one case per action with
its closing prompt.

*DraftServiceProofs.* `RowsInvariance` for any number of users and slots: names are
unique and never empty (`NamesOK`), so a user is found at the own position; a slot
not in use has no author (`SlotsOK`), so although sending does not look at
`match`, what it selects is in use. `RowsStayOwn` is a part of it;
`DraftsAreSentOnce` follows from what the three steps that write (`CreateMessageWrites`,
`SendMessageWrites`, `DeleteDraftWrites`) put where. `Invariance` adds `CountsOK`:
a user's counter is the number of messages in the arrays that the user wrote, wherever
they lie, and each writing step changes that set by at most one message.
`CountsStayRight` compares the three ways to count: an array splits into drafts and
received messages, and the sum over the users, in the order the code adds them up,
counts each message at its one author (`WrittenIsASum`).

Only model-checked: `Returns` and the fairness part of `Refines` (liveness is
beyond the prover); `OnlyLongjmpUnlinks` and `WordsAreKept`, whose longjmp,
constructors and joined thread are outside `Disciplined`. Every other property of a
passing run is a theorem.

## 6. What is not modelled

The IR decoder and the template only print; the drafts are straight-line C that no
pass uses; the LLVM 10 directory has no pass; build files. Debug output everywhere.
In the shadow stack, calls of main by the program and functions without a return; in
AFL, the fork server (a TODO, line 192), handlers that interrupt a counter's update,
and the dead load of line 189, which another code generator could emit; in compare
splitting, comparisons that stand in another block than their branch or have further
uses (not at -O0), alignments, the erasing of the two instructions, and the `strcmp`
case, which only prints. In the services, passwords (whoever is at the terminal may
know one or not), a failed `malloc`, the formatting, writes behind an array (the
model stops before), and in the draft service the end of the input, at which `while
(l < 1)` reads on for ever without changing anything. The copies under
`lea_analysis/cgc` are the same programs and are not mapped a second time. LLVM
itself is modelled by what the passes make it do: `splitBasicBlock` moving phi
entries, the pass manager visiting new blocks, use lists whose elements move.

## 7. Plan

What is left is proof: `WordsAreKept` and `OnlyLongjmpUnlinks` for a process with
longjmp, constructors and a joined thread. They need an invariant that does not
say where the pointer is but bounds it: below the word of every function
that still runs.
