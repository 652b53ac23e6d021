# smatch, specified

smatch walks the syntax tree of a C function and keeps, for the path it is on,
a map from variables ("trackers") to states.  Where paths part it puts maps on
stacks, where they meet it merges them.  Everything that its checks report
rests on a few things: that a map is what its holder thinks it is, that every
push has its pop, that a merge loses nothing, that a range of values holds every
value the variable can have, and that what one condition implies for another
variable is true.  Under smatch lies sparse, whose back end turns functions into
linear code and optimizes it.  These are the subject of this directory: TLA+
modules of the core of smatch and of the optimizer of sparse, configurations
that check them with TLC, and proofs checked by TLAPS.

## The system

| part | source | state | operations | what is hard about it |
|---|---|---|---|---|
| **stree** | `avl.c`, `avl.h` | trees shared by reference count, `has_states` bytes, ids, iterators | insert, remove, clone, free, loops that tolerate writes | a write through one pointer must not show through another; null means *unreachable* |
| **ptrlist** | `ptrlist.c`, `ptrlist.h` | a ring of blocks, deleted entries | add, pop, split, pack, copy, loops that edit | blocks split and empty under a loop |
| **state lists** | `smatch_slist.c` | stacks of strees | merge, overwrite, filter, and/or of stacks | merging differences taken from different starting points; out of memory |
| **states** | `smatch_states.c` | `cur_stree` and 13 stacks | branch, loop, switch, goto, save, restore | every push has one pop on every path, also when the walk gives up |
| **conditions** | `smatch_conditions.c` | the call stack | `&&`, `\|\|`, `!`, `?:`, statement expressions | the "fake" trees that record what a condition sets |
| **walk** | `smatch_flow.c` | the call stack, loop numbers, the bail flag | one per statement kind, inlining | code no path reaches, code every path reaches |
| **implications** | `smatch_implied.c` | histories and pools of merged states | split by a condition, filter, fake histories | histories shared by many states; limits of depth and time that stop a search halfway |
| **values** | `smatch_sval.c`, `smatch_ranges.c` | range lists over typed numbers | union, intersection, casts, comparisons, arithmetic | signs, widths and overflow at the ends of ranges |
| **back end of sparse** | `linearize.c`, `flow.c`, `flowgraph.c`, `dominate.c`, `ssa.c`, `memops.c`, `simplify.c`, `cse.c`, `liveness.c`, `optimize.c` | blocks, instructions, lists of users, dominators, liveness | the passes of `optimize()` | passes that run on what other passes left stale; loops until nothing changes |
| checks | `check_*.c`, `smatch_locking.c`, `smatch_free.c` ... | states of their own in the stree | hooks | not modelled |
| database | `smatch_db.c` | SQLite tables | | not modelled |
| sparse front end | `tokenize.c` ... `evaluate.c` | syntax trees | | not modelled |

`PROJECT.json` lists all parts with the reason for each that is left out, the
lines of the source that every definition stands for, and the hazards: the
places where this code can go wrong in ways a test would hardly reach.

smatch is one thread and keeps nothing between functions but its database, so
there are no interleavings and no crashes here.  Its long sequences of legal
calls are what is hard: a stack one level off, or a count one too low, shows
many statements later as a wrong warning.

## Modules

    StateMaps      what a pointer to an stree promises: a private map
      Stree        shared trees, counted and copied on write   --> StateMaps
        Stree_proofs
    Avl            the balanced tree inside an stree
    Lists          what a ptrlist promises: a sequence and a loop over it
      PtrList      a ring of blocks                            --> Lists
    Slist          operations on whole maps and stacks of maps
      States       cur_stree and its stacks
        Levels, States_proofs, Calls_proofs
        Conditions splitting a condition
          Conditions_proofs
          Flow     walking a function
            Statements_proofs, Flow_proofs
    Implied        what a condition on one variable implies for another
    Sval           numbers with a width and a sign
      Ranges       lists of ranges: union, intersection, casts
        RangeMath  comparisons and arithmetic on them
          Values   two variables under a sequence of operations
    Ir             instructions, pseudos and their users, blocks
      Flowgraph    postorder, dominators, iterated frontiers
        Ssa        conversion to SSA
          Memops   removal of loads and stores
            Simplify   instructions, branches, common subexpressions
              Liveness   liveness, and the flow optimizations that use it
                Optimize   the main loop, and a reference semantics
    MC*            instances for TLC

**Stree.**  A handle is a variable, stack slot or pool that holds a `struct
stree *`.  `ptr` says where handles point; `refs`, `map`, `has_states` and
`stree_id` are the fields of the trees.  One action per function:
`avl_insert`, `avl_remove` (with their copies, and the release of a tree that
becomes empty), `clone_stree`, `free_stree`, `set_stree_id`, the moves that
push and pop make, and the three parts of a `FOR_EACH_SM_SAFE` loop, between
which the body of the loop is any of the others.  `set_stree_id()` copies a
tree without dropping its reference, as the code does: a count may exceed the
number of handles and never falls below it.

**Avl.**  A tree is a value; the functions of `avl.c` that update `*p` return
the new subtree next to their result.  Rotations, the balance fields, removal
by the neighbour in the higher subtree, and the iterator with its stack are as
in the source.

**PtrList.**  `list` is the ring from the head on, a sequence of blocks with
their `rm` count; `cur` is `__list` and `__nr` of a loop.  No list is used with
all operations (a stack is popped with `delete_ptr_list_last()`, an edited list
with `undo_ptr_list_last()`), so `kind` fixes the use a list is put to.  `due`
is history: what the loop has still to visit.

**Slist, States.**  Since `Stree` implements private maps and the null pointer
is the empty one, a tree is from here on a function, and every operation of
`smatch_states.c` a function on the record `s` of all its statics.  A state is
its set of possible states; a leaf is told from any other by the number it gets
when it is set.

**Conditions, Flow.**  The walk is recursive.  `todo` is its call stack,
innermost call first, and an action is the code between two recursive calls.
The program is not given: a statement is chosen when the walk comes to it, so
the behaviours are the walks over *all* functions of up to `MaxNodes`
statements of a `Grammar`.  What the checks do in their hooks is chosen too: a
leaf of a condition may set the tracker `x` before, after, or on both sides of
it.  One tracker is enough because no operation of these files lets one tracker
influence another; the second key, `unnull_path`, is the one by which the code
keeps a reachable path from being null.

The walk is followed by a reference semantics that the analysis never reads:
`reach` is the set of states that `x` really has on the paths to this point,
`ref` the same for the paths that wait elsewhere.

**Implied.**  `h` is the heap of `sm_state`s: a leaf with its values, or a merged
state with its left and right side, and for each the pool (the tree it was in
when it was merged).  `cur` is the current tree; `frames` are the branches that
are open.  The actions assign a set of values, branch on a comparison with a
constant, go to the other branch, merge, and take a `switch` case.  A condition
does what `get_tf_states()` does: it sorts the leaves of the tested variable
into true and false stacks (`separate_pools()`), splits leaves that are partly
true with a fake history, and filters all other variables by these stacks
(`filter_pools()`).  The clock is a choice: a search may be over in time, or
reach the first or the second time limit; `RecurseLimit` is the limit of depth.
The reference is the set of real pairs of values on the paths to the point.

**Sval, Ranges, RangeMath, Values.**  A number is its bits and its type, as in
`sval_t`; `Meaning` is the integer it stands for, and only the reference side
uses it.  The functions of `smatch_ranges.c` keep their names and their early
returns.  `Values` has two variables with their range lists and the sets of
numbers they can really have by the rules of C; a step is a merge, a filter, an
intersection, a cast, a branch on a comparison, a limit, or an assignment of
`x op y`.  The operations are constants of `Values` that `Values.cfg` binds to the
functions of `Ranges` and `RangeMath`.  `trust` remembers how much the steps so far promise: exact lists,
lists that hold every value, or only a bound.

**Ir to Optimize.**  `f` is a function as `struct entrypoint` has it: the order of
the blocks, their parents, children and instructions, and for each instruction
its block (none when it is killed), target and operands; `users()` reads the
user lists off the operands.  A pass is a function from `f` to `f`, and an action
of `Optimize` runs one pass of `optimize()` (`phase` is the place in its loops).
Whether instructions that differ share a bucket of `insn_hash_table` depends on
addresses, so `Eliminate` takes the buckets with and without collisions.
Afterwards `ref`, the function as written, and `opt`, the function as optimized,
run side by side with the same answers from the functions they call.

## What is checked

| run | distinct states | time | shows |
|---|---|---|---|
| `stree` | 54,439 | 20 s | private maps, covered references, null = empty, complete lookups, safe loops |
| `avl` | 54,761 | 80 s | balanced, ordered, traversed completely, a map |
| `ptr_list` | 66,803 | 30 s | a sequence with a loop, truthful queries, every entry visited |
| `conditions` | 714,553 | 60 s | nested `&&`, `\|\|`, `!`, statement expressions, conditions as values lose no state |
| `control` | 857,820 | 90 s | branches, loops, switches, jumps together, with conditions that may be known |
| `expr_stmts` | 933,241 | 80 s | the fake tree is what the statements changed |
| `interrupted` | 1,062,431 | 80 s | giving up, out of memory, inlining: balanced, transparent; dead code is null, live code is not |
| `values` | 12,905 | 70 s | range lists are in order, lose no value, compare rightly |
| `implied` | 358,054 | 60 s | implications are true and as precise as the histories allow |
| `optimize` | 264,074 | 100 s | every pass keeps what the function does and what the next pass relies on; the passes end |
| `v_break`, `v_store` | | | two disagreements, below |

The properties, in the words of the code:

* `StacksBalanced`: `clear_all_states()` finds every stack empty at the end of
  every function ("stack not empty" is never printed).
* `Sound`: the states of `x` on the paths to a statement are among its possible
  states there, and a statement some path reaches is not unreachable.  It is
  stated for one pass, in which a loop is gone through at most once.
* `DeadCode`, `LiveCode`: code that no path reaches has a null `cur_stree`, and
  code that some path reaches has not.
* `FakeIsCurrent`: what a statement expression changed is what its fake tree
  says it changed.
* `InlineTransparent`: `restore_all_states()` gives the caller back all it had,
  although fourteen things go through one untyped list by position.
* `PrivateMaps`, `ListSpec`: the implementations refine the promises.
* `Canonical`, `Sound`, `Exact`, `Bounded` of `Values`: a range list is sorted and
  its ranges do not touch; it holds every number the variable can have; after
  set operations and comparisons of one type it holds no other; after `%` and `|`
  its maximum is a bound.  `Bridged` of `MCValues` has the lists of the FIXME in
  `add_range()` (below).  `ComparisonsRight`: `possibly_true_rl()` and
  `possibly_false_rl()` never exclude what can happen.
* `Sound` of `Implied`: every real combination of values survives the filter on
  its branch, whatever limit stopped the search.  `Precise`: if nothing was given
  up, the values left are the real ones.  `HistoriesFit`: the sides and pools of
  a merged state belong together.  `SplitCovers`: the trees that a return is
  split into cover every path.
* `SameBehaviour`: the optimized function makes the same calls with the same
  arguments and ends alike.  `FlowConsistent`: parents, children and targets of
  branches agree.  `DominatorsRight`, `FrontierRight`, `LivenessRight`: what
  `domtree_build()`, `idf_compute()` and `track_pseudo_liveness()` compute is
  what the definitions over paths say.  `Terminates`: `optimize()` returns.
* `DefsDominateUses`: a register is defined before it is used, on every path, and
  a phi node that is used has a source in every parent of its block.  This is
  less than SSA form, see the disagreements below.

### Bounds

* `stree`: three handles are two users and the copy of a loop, or three aliases
  of one tree, so that a count of two, and of one too few, both occur; one
  tracker of a check and `unnull_path`, which has no `has_states` byte.  Handles
  and addresses are symmetric: nothing orders them, and only safety is checked.
  `MaxRefs` and `MaxId` bound the leak and the ids.
* `avl`: the smallest trees in which a removal rotates at two levels have twelve
  nodes.  There is one state, so that the trees are told apart by shape only.
* `ptr_list`: blocks of three (odd, as 13 and 29 are, so that halves differ),
  five entries, up to four blocks.
* walks: 2 to 4 statements, chosen so that each construct occurs inside and next
  to each other.  Conditions have up to three operands.  `control` has one case
  value (a second one tells apart only duplicate cases, which the parser
  rejects).  `interrupted` has no jumps but `break` and `return`; the
  others are in `control`.
* A check has an effect on both sides of a condition or on none (`BothOrNone`).
  One-sided effects lose states in `a && (b && c)`: `or_stree_stack()`
  completes one side from the states before the condition and the other from the
  current ones, and drops what equals the former.
* `control` starts with a known `x`: after `for (;; x = 1)` with a
  break `__merge_stree_into_cur()` takes the state over as it is when the breaks
  know nothing of `x`.
* `expr_stmts` has assignments, branches and conditional assignments inside a
  condition.  Loops, switches and `f(a && b)` merge around the fake tree, so that
  `FakeIsCurrent` does not hold for them.
* Gotos go forward.
* `values`: `char`, `int` and `long long` of 2, 4 and 6 bits, signed and unsigned.
  These keep the order of the widths, the promotion of `char` and a type wider
  than `int`, which is what the code distinguishes.  `TypePairs` has both orders of width and
  sign for operands that differ.  Ranges end at the limits of
  the type and around zero; `Many` has enough ranges for the path without parts
  (`l_count * r_count > 6`), `Sequences3` three operations in a row.
* `values` leaves out the operands of `Simplified` (the code answers with a guess)
  and casts of signed numbers to narrower signed types (below).
* `implied`: two variables of three values, five steps, two open branches.  A
  variable can then be assigned on both sides of a condition on the other, merged
  and tested again, which takes a fake history when a leaf is `{0, 2}`.
* `optimize`: all functions of three blocks over one variable that is a scalar, a
  struct, a static or has its address taken; four shapes of six blocks (two
  diamonds, a loop with a branch, crossed branches, an irreducible loop) with all
  bodies over one variable, three of them over two variables as well (so that a
  block has a phi node besides the one its branch depends on); two variables that
  swap in a loop.  Calls give back 0 or 2.

### Fairness

The walk needs none: it is sequential and recursive and makes every step it can,
and that it ends follows from the finite tree it walks, which here is the bound
`MaxNodes`.  TLC checks for deadlock in those runs, so that every call returns
and the walk of the next function begins.

`Optimize` assumes weak fairness of `Advance`, the step to the next pass: the
passes are called one after the other by one thread, and nothing else can keep
the next one from being run.  What is not obvious is that the loops of
`optimize()`, which repeat while `repeat_phase` is set, end; `Terminates` says so.
`values`, `implied` and `optimize` may stop (their last step is taken, or the
function has ended), so deadlock is not checked there.

### Disagreements

* `v_break`: a `break` inside a statement expression of a condition, in a loop
  that begins outside of it, leaves a tree on `fake_break_stack`.
  `__push_breaks()` and `__merge_breaks()` run without a fake tree,
  `__process_breaks()` with one.
* `v_store`: `kill_dominated_stores()` searches the parent of a block from its
  first instruction on.  In `if (c) { s = 2; f(); } s = 0;` it meets `s = 2` before
  the call of `f()` that reads it, and removes it.  `validation/kill-store.c:10`
  wants "stores are optimized away but only when needed: - bb unreachable."; this
  block is reachable.

Two remarks in the repository say that something checked here does not hold:

* `Documentation/TODO.md:6`: "SSA is broken by simplify_loads() & branches
  rewriting/simplification".  That is so.  When `try_to_simplify_bb()` redirects a
  parent past a block it kills the source of one phi node; the nodes of other
  variables keep a source in a block that is no parent any more.  A node that
  `memops.c` makes of a load has its sources where the stores were.  So
  `DefsDominateUses` asks that sources are parents only with one scalar variable;
  with two TLC refutes it.  What the rest of the back end needs holds all the same:
  every parent has its source, registers are defined first, and behaviour is kept.
* the FIXME in `add_range()` (`smatch_ranges.c:1059`): `min-0,3-max` and `1-2` give
  "min-2,3-max instead of just min-max".  That is out of date: `check_next` is set
  when a range is extended, and line 1068 joins the next one.  (`NeverTouches` in
  `Ranges` is the code as the FIXME has it; TLC finds that it breaks `Canonical`.)

Other disagreements are listed as hazards, each with the instance that shows it:

* a `return` inside a statement expression makes `nullify_path()` throw away the
  fake tree (`InCondition <- InsideReturn` in `ExprStmts.cfg`);
* in `if (a ? b : c)` a side that changes nothing is not merged, unlike in
  `(a && b) || (!a && c)` (`Conds <- Selects` in `Conditions.cfg`);
* `simplify_select()` falls from `OP_SEL` into `OP_AND` (`Programs <-
  SelectPrograms`, `Inputs <- OtherInputs` in `Optimize.cfg`);
* a cast of a signed range to a narrower signed type loses values (`Starts <-
  CastStarts`, `Casts <- Narrowing` in `Values.cfg`).

Two limits of ptrlists are not met by any caller.  Deleting in a reverse loop skips
an entry; the one such loop, in `simplify_cfg_early()`, walks blocks in reverse
postorder, where the block merged away comes after the one it is merged into and is
not met again.  `delete_ptr_list_last()` removes nothing when `undo_ptr_list_last()`
has emptied the last block; no list is used with both, and the kinds `stack` and
`list` of `PtrList` keep them apart.

## What is proved

`Stree_proofs` holds for any finite set of handles and any trees, trackers,
states and bounds, under the assumptions named in `Stree` (null is no tree, "no
state" is no state, every tracker has an owner).

    Invariance       Spec => []IInv
    TypeCorrect      Spec => []TypeOK
    RefsCover        Spec => []RefsCoverHandles
    NullPaths        Spec => []NullIffEmpty
    Lookup           Spec => []LookupComplete
    IterationIsSafe  Spec => IterSnapshot
    Refinement       Spec => PrivateMaps

`IInv` is the conjunction of the invariants and `IterOK`.  It is needed because
none of them is inductive alone.  That a write in place is private (the copy is
made only when `references > 1`) follows from `RefsCoverHandles`: a tree with
one reference has one handle (lemma `Exclusive`, by counting).  That the count
still covers the handles after a step is lemma `Repoint`, what moving one
pointer does to the two counts.  That a removal may free the tree it empties
needs that nobody else holds it, and `NullIffEmpty` that copies are made of
trees with states.  The end of a loop drops the reference of its copy, which
`IterOK` says is the tree under the iterator.  The refinement has one lemma per
kind of step: a write changes the view of its handle only, because the tree
written to is private (`TargetIsPrivate`), and copies, moves and releases change
the views they should.

`Flow_proofs` holds for any grammar, conditions, checks, hooks and bounds, with one
assumption: `"break" \notin InCondition`, no statement expression inside a
condition breaks out of it.  (Without it the stacks do get out of step: that is
the run `v_break`.)

    FlowInvariant          Spec => []FlowInv
    StacksAreBalanced      Spec => []StacksBalanced
    InliningIsTransparent  Spec => InlineTransparent

`StacksBalanced` speaks of the end of a function only, so the inductive invariant
has to say, for every call in `todo` that has not returned, how deep it relies on
every stack to be.  A *level* (`Levels`) is a depth for each of the stacks.  A
*place* is a point between two calls: its level, what the callers of inlined
functions saved there, and the names of the calls of this function.  `Rel(fr,
a, b)` says that the call `fr`, entered at place `a`, returns at place `b`: a
pending `if` is one level of false states deeper than its caller, the right side
of `&&` one level of both condition stacks and of `pre_cond_stack`, an inlined
function begins at level zero with the caller's stacks on the backup.  `Chain`
links the places of all calls down to the end of the function, and `Fits(todo, s)`
says that the depths of `s` are those of the innermost place and that no
`sm_perror()` was printed.

`States_proofs` shows what each operation of `smatch_states.c` does to the level,
and in particular that no pop finds its stack empty; that needs the depth, so the
lemmas have it as a hypothesis and the chain provides it.  `restore_all_states()`
inverts `save_all_states()` because the backups are pushed and popped in opposite
orders (`SaveOrder`).  `Calls_proofs` shows how the chain changes when a call
returns, is replaced by another, or makes up to three calls.  Then there is one
lemma per action: `Conditions_proofs`, `Statements_proofs` and `Flow_proofs`.
The actions that give up (`__bail_on_rest_of_function`, out of memory) leave the
depths alone, which is why giving up is no case of its own.

`Slist` defines `Last` and `Front` itself, since all the definitions of
`SequencesExt` in the context of every obligation make these proofs three times
as long.

Only model-checked: everything about `Avl` (recursive operators), `PtrList`,
the soundness of the walk (`Sound`, `LiveCode`, `DeadCode`, `FakeIsCurrent`: these
relate the trees to the reference semantics through every pending call),
values, implications and the optimizer.  Liveness, ENABLED and what recursive
definitions compute are out of the prover's reach.

## Not modelled

Within the modelled parts: `base_stree` of a tree; the merge functions, hooks and
limits of the checks (a merged state keeps all its possible states, the code at
most 100); `fast_overlay` and `read_only`; a switch on a known value
(`split_known_switch()`); the two-pass mode, in which a second pass starts loops
with the states saved under their label; backward gotos at the end of a
function; scope hooks; comma and the special forms of conditions; tagged
pointers and loops over two lists.  Answers of `smatch_implied.c` that the walk
uses are arbitrary but sound; `Implied` checks on its own that they are.  In
`Implied`: conditions that compare two variables, stored conditions and
implications borrowed from equivalent variables.  In `Ranges`: `&` and `^` of two
lists, pointers, floating point, the relations and fuzzy maxima of estates.  In
the back end: switches and computed gotos, inline assembly, accesses of
different sizes, and the algebraic rules of `simplify.c` for opcodes that loads,
stores, calls, branches and phi nodes do not lead to.

Parts as a whole: the front end (tokenizer, preprocessor, parser, type
evaluation) and the linearizer's walk over expressions are long recursive
functions on syntax trees, whose correctness is a matter of the C standard and
not of states and steps.  The some 145 `check_*.c` match patterns and keep what
state they have in the core.  The database is SQLite.  `unssa.c` is used by
example programs only.

## Plan

1. `SortList` (`sort.c`): the merge of blocks in place, against a stable sort.
2. The two passes of the walk, and `Sound` for two iterations; switches on known
   values; scope hooks as one more stack of `Flow`.
3. The merges of the locking and free checks; what the database sets on return
   paths.
4. sparse: the allocator, scopes, switches in the back end.
5. Proofs: lemmas on `Slist` (a merge is an upper bound, `and`/`or` of stacks) and
   from them `Sound`; queries and loops of `PtrList`; `Canonical` of `Ranges`.
