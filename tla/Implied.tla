------------------------------ MODULE Implied ------------------------------
(***************************************************************************)
(* smatch_implied.c: what a condition on one variable says of the others.  *)
(*                                                                         *)
(* When two paths meet, every state that differs remembers the tree of its *)
(* side, its pool, and the merged state remembers the two.  A condition    *)
(* sorts the pools of its variable (the gate) into those in which it is    *)
(* true and those in which it is false, and takes what came from the false *)
(* ones out of the histories of all other variables.                       *)
(*                                                                         *)
(* Here the sm_states are objects: pools are compared by address, and      *)
(* states in trees, in pools and in the histories of others are shared and *)
(* changed in place.  An estate is the set of its values, which module     *)
(* Values justifies; all variables have one type.                          *)
(***************************************************************************)
EXTENDS Naturals, Sequences, FiniteSets, SequencesExt

CONSTANTS
    VarOrder,       \* the variables, in the order of the trees
    Values,         \* the values of their type
    Assigned,       \* what an assignment may give a variable: sets of values
    Tests,          \* the comparisons with constants, <<op, constant>>
    Limits,         \* what a call may require of its argument
    RecurseLimit,   \* RECURSE_LIMIT of filter_pools()
    Clocks,         \* <<after how many comparisons one second has passed,
                    \*   how many variables are filtered in three>>
    MaxSteps, MaxDepth

Vars == Range(VarOrder)
None == 0
Empty == [v \in {} |-> None]
Never == 1000

ASSUME ImpliedAssumption ==
    /\ Assigned \subseteq SUBSET Values /\ {} \notin Assigned
    /\ RecurseLimit \in Nat /\ Clocks \subseteq (0..Never) \X (0..Len(VarOrder))

VARIABLES
    h,          \* sm: the sm_states; pool: the trees kept as pools
    cur,        \* the path the walk is on: its cur_stree, and the values
                \* that the variables can really have on it
    frames,     \* the statements the walk is inside of, innermost first
    exact,      \* nothing has been given up, for want of time or otherwise
    steps

vars == <<h, cur, frames, exact, steps>>

\* ---- sm_states and trees

Sm(hp, i) == hp.sm[i]
NewId(hp) == Len(hp.sm) + 1
Alloc(hp, rec) == [hp EXCEPT !.sm = Append(@, rec)]

alloc_sm_state(hp, v, vals) ==
    Alloc(hp, [var |-> v, vals |-> vals, merged |-> FALSE, leaf |-> FALSE,
               pool |-> None, left |-> None, right |-> None,
               possible |-> {NewId(hp)}])

\* A clone keeps the history and has no pool.
clone_sm(hp, i) ==
    Alloc(hp, [Sm(hp, i) EXCEPT !.pool = None, !.leaf = FALSE])

is_leaf(hp, i) == ~Sm(hp, i).merged \/ Sm(hp, i).leaf

\* The possible states of the result are those of both and itself.
merge_sm_states(hp, one, two) ==
    Alloc(hp, [var |-> Sm(hp, one).var,
               vals |-> Sm(hp, one).vals \cup Sm(hp, two).vals,
               merged |-> TRUE, leaf |-> FALSE, pool |-> None,
               left |-> one, right |-> two,
               possible |-> Sm(hp, one).possible \cup Sm(hp, two).possible
                            \cup {NewId(hp)}])

overwrite(from, to) ==
    [v \in DOMAIN from \cup DOMAIN to |->
        IF v \in DOMAIN from THEN from[v] ELSE to[v]]

Put(tree, v, i) == overwrite([u \in {v} |-> i], tree)

\* Allocate a state for each variable of V and put it into the tree.
InsertEach(hp, tree, V, New(_, _)) ==
    FoldLeft(LAMBDA r, v :
                 IF v \in V
                 THEN [hp |-> New(r.hp, v), tree |-> Put(r.tree, v, NewId(r.hp))]
                 ELSE r,
             [hp |-> hp, tree |-> tree], VarOrder)

\* The unmatched state of a variable that only the other side knows.
match_states_stree(hp, tree, other) ==
    InsertEach(hp, tree, DOMAIN other \ DOMAIN tree,
               LAMBDA g, v : alloc_sm_state(g, v, Values))

clone_pool_havers_stree(hp, tree) ==
    InsertEach(hp, tree, {v \in DOMAIN tree : Sm(hp, tree[v]).pool # None},
               LAMBDA g, v : clone_sm(g, tree[v]))

\* A bug: each state gets the tree of the other side.
PoolsSwapped(r, one, two, p) ==
    LET pooled == [r.hp EXCEPT !.sm[one].pool = p + 1, !.sm[two].pool = p]
    IN [hp |-> merge_sm_states(pooled, one, two),
        tree |-> Put(r.tree, Sm(pooled, one).var, NewId(pooled))]

\* One variable of the merge.  A state that both trees share has no pool.
MergeState(r, one, two, p) ==
    IF one = two THEN [r EXCEPT !.tree = Put(@, Sm(r.hp, one).var, one)]
    ELSE LET pooled == [r.hp EXCEPT !.sm[one].pool = p, !.sm[two].pool = p + 1]
             res == NewId(pooled)
         IN [hp |-> [merge_sm_states(pooled, one, two) EXCEPT
                        !.sm[res].possible = @ \cup {one, two}],
             tree |-> Put(r.tree, Sm(pooled, one).var, res)]

\* s: the heap and the two trees, to which a step gives the heap and one of
\* the trees that it returned.
Into(s, side, m) == [s EXCEPT !.hp = m.hp, ![side] = m.tree]
MatchSide(s, side, other) ==
    Into(s, side, match_states_stree(s.hp, s[side], s[other]))
CloneSide(s, side) == Into(s, side, clone_pool_havers_stree(s.hp, s[side]))

\* The two sides become the pools of the states that differ.
MergeSides(s) ==
    FoldLeft(LAMBDA r, v :
                 IF v \notin DOMAIN s.one THEN r
                 ELSE MergeState(r, s.one[v], s.two[v], Len(s.hp.pool) + 1),
             [hp |-> [s.hp EXCEPT !.pool = @ \o <<s.one, s.two>>], tree |-> Empty],
             VarOrder)

merge_stree(hp, to, stree) ==
    MergeSides(CloneSide(CloneSide(
        MatchSide(MatchSide([hp |-> hp, one |-> to, two |-> stree],
                            "one", "two"), "two", "one"), "one"), "two"))

\* ---- separating the pools of the gate

Compares(op, a, b) ==
    CASE op = "==" -> a = b
      [] op = "!=" -> a # b
      [] op = "<"  -> a < b

\* PARAM_LIMIT asks whether the value is one of the limit.
possibly_true_helper(vals, op, rl) ==
    IF op = "limit" THEN vals \cap rl # {}
    ELSE \E a \in vals, b \in rl : Compares(op, a, b)

possibly_false_helper(vals, op, rl) ==
    IF op = "limit" THEN vals \ rl # {}
    ELSE \E a \in vals, b \in rl : ~Compares(op, a, b)

WhenTrue(vals, op, rl) == {a \in vals : possibly_true_helper({a}, op, rl)}
WhenFalse(vals, op, rl) == {a \in vals : possibly_false_helper({a}, op, rl)}

\* A part of the leaf s, with a copy of its pool in which the variable is it.
FakeHalf(hp, s, vals) ==
    [sm |-> Append(hp.sm, [s EXCEPT !.vals = vals, !.pool = Len(hp.pool) + 1,
                                    !.possible = {NewId(hp)}]),
     pool |-> Append(hp.pool, Put(hp.pool[s.pool], s.var, NewId(hp)))]

\* A leaf that may be either becomes a merged state of two that are not.
create_fake_history(hp, i, op, rl) ==
    [FakeHalf(FakeHalf(hp, Sm(hp, i), WhenTrue(Sm(hp, i).vals, op, rl)),
              Sm(hp, i), WhenFalse(Sm(hp, i).vals, op, rl))
        EXCEPT !.sm[i].leaf = TRUE, !.sm[i].merged = TRUE,
               !.sm[i].left = NewId(hp), !.sm[i].right = NewId(hp) + 1]

\* A bug: only variables that are true or false on every path are split.
NoFakes(hp, i, op, rl) == FALSE

CanFake(hp, i, op, rl) ==
    /\ Sm(hp, i).left = None /\ Sm(hp, i).right = None
    /\ op = "limit" \/ Cardinality(rl) = 1

add_pool(hp, stack, i) ==
    IF \E j \in stack : Sm(hp, j).pool = Sm(hp, i).pool THEN stack
    ELSE stack \cup {i}

\* r: the heap, the three stacks, "mixed", what was checked, the time left.
SplitLeaf(r, i, op, rl) ==
    IF \/ r.mixed \/ Sm(r.hp, i).merged
       \/ ~possibly_false_helper(Sm(r.hp, i).vals, op, rl)
       \/ ~possibly_true_helper(Sm(r.hp, i).vals, op, rl) THEN r
    ELSE IF CanFake(r.hp, i, op, rl)
    THEN [r EXCEPT !.hp = create_fake_history(@, i, op, rl)]
    ELSE [r EXCEPT !.mixed = TRUE]

Push(r, i, istrue, isfalse) ==
    CASE istrue -> [r EXCEPT !.true = add_pool(r.hp, @, i)]
      [] ~istrue /\ isfalse -> [r EXCEPT !.false = add_pool(r.hp, @, i)]
      [] OTHER -> [r EXCEPT !.maybe = add_pool(r.hp, @, i)]

do_compare(r, i, op, rl) ==
    IF Sm(r.hp, i).pool = None THEN r
    ELSE Push(SplitLeaf(r, i, op, rl), i,
              ~possibly_false_helper(Sm(r.hp, i).vals, op, rl),
              ~possibly_true_helper(Sm(r.hp, i).vals, op, rl))

Tick(r) == [r EXCEPT !.mixed = @ \/ r.time = 0,
                     !.time = IF @ = 0 THEN 0 ELSE @ - 1]

RECURSIVE __separate_pools(_, _, _, _), SeparateBelow(_, _, _, _)
__separate_pools(r, i, op, rl) ==
    CASE i = None -> r
      [] i # None /\ i \in r.checked -> Tick(r)
      [] OTHER -> SeparateBelow(do_compare([Tick(r) EXCEPT !.checked = @ \cup {i}],
                                           i, op, rl), i, op, rl)
SeparateBelow(r, i, op, rl) ==
    __separate_pools(__separate_pools(r, Sm(r.hp, i).left, op, rl),
                     Sm(r.hp, i).right, op, rl)

\* A pool that may be either, or that is both, is in neither stack.
OnlyInOne(r) ==
    LET Pools(stack) == {Sm(r.hp, j).pool : j \in stack}
        Without(stack, P) == {j \in stack : Sm(r.hp, j).pool \notin P}
    IN [r EXCEPT !.true = Without(@, Pools(r.maybe) \cup Pools(r.false)),
                 !.false = Without(@, Pools(r.maybe) \cup Pools(r.true))]

separate_pools(hp, i, op, rl, mixed, time) ==
    OnlyInOne(__separate_pools(
                 [hp |-> hp, true |-> {}, maybe |-> {}, false |-> {},
                  mixed |-> mixed, checked |-> {}, time |-> time], i, op, rl))

\* ---- filtering the histories of the others

pool_in_pools(hp, p, stack) ==
    p # None /\ \E j \in stack : Sm(hp, j).pool = p

sm_in_keep_leafs(hp, i, keep) ==
    \E j \in keep : /\ is_leaf(hp, j)
                    /\ Sm(hp, i).var \in DOMAIN hp.pool[Sm(hp, j).pool]
                    /\ hp.pool[Sm(hp, j).pool][Sm(hp, i).var] = i

\* f: the heap, the state returned, *modified, *recurse_cnt and *skip.
\* The state ret of the heap g takes the pool of i and is returned.
WithPool(f, g, ret, i) ==
    [f EXCEPT !.hp = [g EXCEPT !.sm[ret].pool = Sm(f.hp, i).pool], !.ret = ret]

\* What is left of a state of which something was removed.
Partial(f, i, left, right) ==
    CASE left = None \/ right = None ->
            WithPool(f, [clone_sm(f.hp, IF left = None THEN right ELSE left) EXCEPT
                            !.sm[NewId(f.hp)].merged = TRUE,
                            !.sm[NewId(f.hp)].left = left,
                            !.sm[NewId(f.hp)].right = right], NewId(f.hp), i)
      [] left # None /\ left = right -> WithPool(f, f.hp, left, i)
      [] OTHER -> WithPool(f, merge_sm_states(f.hp, left, right), NewId(f.hp), i)

\* Both sides are filtered.
Filtered(f, i, left, modified) ==
    IF f.skip THEN [f EXCEPT !.ret = None, !.modified = modified]
    ELSE IF ~f.modified THEN [f EXCEPT !.ret = i, !.modified = modified]
    ELSE IF left = None /\ f.ret = None THEN f
    ELSE Partial(f, i, left, f.ret)

RECURSIVE filter_pools(_, _, _, _), FilterRight(_, _, _, _, _)
filter_pools(f, i, remove, keep) ==
    IF i = None THEN [f EXCEPT !.ret = None]
    ELSE IF f.cnt > RecurseLimit
    THEN [f EXCEPT !.cnt = @ + 1, !.ret = None, !.skip = TRUE]
    ELSE IF pool_in_pools(f.hp, Sm(f.hp, i).pool, remove)
    THEN [f EXCEPT !.cnt = @ + 1, !.ret = None, !.modified = TRUE]
    ELSE IF \/ ~Sm(f.hp, i).merged
            \/ pool_in_pools(f.hp, Sm(f.hp, i).pool, keep)
            \/ sm_in_keep_leafs(f.hp, i, keep)
    THEN [f EXCEPT !.cnt = @ + 1, !.ret = i]
    ELSE FilterRight(filter_pools([f EXCEPT !.cnt = @ + 1, !.modified = FALSE],
                                  Sm(f.hp, i).left, remove, keep),
                     i, f.modified, remove, keep)
FilterRight(l, i, modified, remove, keep) ==
    Filtered(filter_pools(l, Sm(l.hp, i).right, remove, keep), i, l.ret, modified)

StoreFiltered(r, v, f) ==
    IF f.skip \/ f.ret = None \/ ~f.modified
    THEN [r EXCEPT !.hp = f.hp, !.skip = @ \/ f.skip]
    ELSE [r EXCEPT !.hp = f.hp, !.tree = Put(@, v, f.ret)]

\* The first n variables are filtered before the time runs out.
filter_stack(hp, pre, remove, keep, n) ==
    FoldLeft(LAMBDA r, v :
                 IF \/ v \notin DOMAIN pre
                    \/ ~Sm(r.hp, pre[v]).merged
                    \/ sm_in_keep_leafs(r.hp, pre[v], keep)
                 THEN r
                 ELSE StoreFiltered(r, v,
                          filter_pools([hp |-> r.hp, ret |-> None, cnt |-> 0,
                                        modified |-> FALSE, skip |-> FALSE],
                                       pre[v], remove, keep)),
             [hp |-> hp, tree |-> Empty, skip |-> n < Len(VarOrder)],
             IF remove = {} THEN <<>> ELSE SubSeq(VarOrder, 1, n))

Implications(mixed, t, f, time) ==
    [hp |-> f.hp, true |-> t.tree, false |-> f.tree, mixed |-> mixed,
     exact |-> ~t.skip /\ ~f.skip /\ time = Never]
FilterFalse(p, t, pre, time, n) ==
    Implications(p.mixed, t, filter_stack(t.hp, pre, p.true, p.false, n), time)
FilterBoth(p, pre, time, n) ==
    FilterFalse(p, filter_stack(p.hp, pre, p.false, p.true, n), pre, time, n)

\* A bug: the pools to remove and the pools to keep are exchanged.
Exchanged(p) == [p EXCEPT !.true = p.false, !.false = p.true]
RemovesKept(hp, i, op, rl, pre, mixed, time, n) ==
    FilterBoth(Exchanged(separate_pools(hp, i, op, rl, mixed, time)), pre, time, n)

\* What is implied where the comparison is true, and where it is false.
separate_and_filter(hp, i, op, rl, pre, mixed, time, n) ==
    IF Sm(hp, i).merged
    THEN FilterBoth(separate_pools(hp, i, op, rl, mixed, time), pre, time, n)
    ELSE [hp |-> hp, true |-> Empty, false |-> Empty, mixed |-> mixed,
          exact |-> TRUE]

\* ---- the walk

\* What smatch_extra knows of a variable.
Known(v) == Sm(h, cur.tree[v]).vals

\* A leaf has no implications: a condition on it only sets a state on each
\* side, as assignments do.
HasHistory(v) == v \in DOMAIN cur.tree /\ Sm(h, cur.tree[v]).merged

Step == steps < MaxSteps /\ steps' = steps + 1
Enter(frame) == Len(frames) < MaxDepth /\ frames' = <<frame>> \o frames

\* v = S, a constant or something unknown.
Assign(v, S) ==
    /\ Step
    /\ h' = alloc_sm_state(h, v, S)
    /\ cur' = [tree |-> Put(cur.tree, v, NewId(h)),
               reach |-> {[e EXCEPT ![v] = a] : e \in cur.reach, a \in S}]
    /\ UNCHANGED <<frames, exact>>

\* if (something that nothing is known of)
Fork ==
    /\ Step
    /\ Enter([kind |-> "else", path |-> cur])
    /\ UNCHANGED <<h, cur, exact>>

\* if (v op k): handle_comparison() or handle_zero_comparison(), the states
\* smatch_extra sets, and over them the implied states.  A condition whose
\* value is known has no implications.
Condition(v, op, k, time, n) ==
    LET rl == {k}
        set == alloc_sm_state(alloc_sm_state(h, v, WhenTrue(Known(v), op, rl)),
                              v, WhenFalse(Known(v), op, rl))
        Implied(r, tree) == [u \in {w \in DOMAIN tree : ~(r.mixed /\ w = v)} |-> tree[u]]
        Side(i, implied, P(_)) ==
            [tree |-> overwrite(implied, Put(cur.tree, v, i)),
             reach |-> {e \in cur.reach : P(e[v])}]
    IN /\ Step
       /\ HasHistory(v)
       /\ possibly_true_helper(Known(v), op, rl)
       /\ possibly_false_helper(Known(v), op, rl)
       /\ \E r \in {separate_and_filter(set, cur.tree[v], op, rl, cur.tree,
                                        FALSE, time, n)} :
             /\ h' = r.hp
             /\ exact' = (exact /\ r.exact)
             /\ cur' = Side(NewId(h), Implied(r, r.true),
                            LAMBDA a : Compares(op, a, k))
             /\ Enter([kind |-> "else",
                       path |-> Side(NewId(h) + 1, Implied(r, r.false),
                                     LAMBDA a : ~Compares(op, a, k))])

\* The else side, and a merge of both where they end.
Else ==
    /\ frames # <<>> /\ Head(frames).kind = "else"
    /\ cur' = Head(frames).path
    /\ frames' = <<[kind |-> "end", path |-> cur]>> \o Tail(frames)
    /\ UNCHANGED <<h, exact, steps>>

Join ==
    /\ frames # <<>> /\ Head(frames).kind = "end"
    /\ \E m \in {merge_stree(h, cur.tree, Head(frames).path.tree)} :
          /\ h' = m.hp
          /\ cur' = [tree |-> m.tree,
                     reach |-> cur.reach \cup Head(frames).path.reach]
    /\ frames' = Tail(frames)
    /\ UNCHANGED <<exact, steps>>

\* A call that only returns when v is in the limit.  The state of v is kept
\* when its history could be split, so that smatch_extra does not make a new
\* one.
ParamLimit(v, limit, time, n) ==
    LET Set(r) == IF ~r.mixed /\ v \in DOMAIN r.true THEN r.true[v] ELSE NewId(h)
    IN /\ Step
       /\ HasHistory(v)
       /\ Known(v) \cap limit # {} /\ Known(v) \ limit # {}
       /\ \E r \in {separate_and_filter(alloc_sm_state(h, v, Known(v) \cap limit),
                                        cur.tree[v], "limit", limit, cur.tree,
                                        FALSE, time, n)} :
             /\ h' = r.hp
             /\ exact' = (exact /\ r.exact)
             /\ cur' = [tree |-> Put(overwrite(r.true, cur.tree), v, Set(r)),
                        reach |-> {e \in cur.reach : e[v] \in limit}]
       /\ UNCHANGED frames

\* The path with which a case begins.
CasePath(r, v, i, rl, p) ==
    [hp |-> r.hp, path |-> [tree |-> Put(overwrite(r.true, p.tree), v, i),
                            reach |-> {e \in p.reach : e[v] \in rl}]]

__implied_case_stree(hp, v, rl, p, n) ==
    CasePath(separate_and_filter(alloc_sm_state(hp, v, rl), p.tree[v], "==", rl,
                                 p.tree, TRUE, Never, n),
             v, NewId(hp), rl, p)

\* switch (v) { case k: ... default: ... }.  A case gives v a new state, of
\* which the later conditions do not know where it is from.
Switch(v, k, n) ==
    /\ Step
    /\ HasHistory(v)
    /\ k \in Known(v) /\ Known(v) # {k}
    /\ \E c \in {__implied_case_stree(h, v, {k}, cur, n)} :
          /\ h' = c.hp
          /\ cur' = c.path
    /\ exact' = FALSE
    /\ Enter([kind |-> "default", path |-> cur, var |-> v,
              remaining |-> Known(v) \ {k}])

\* The tree of the default case, of the values that no other case has.
DefaultCase(n) ==
    __implied_case_stree(h, Head(frames).var, Head(frames).remaining,
                         Head(frames).path, n)

\* The case ends with a break: its path waits for the end of the switch.
DefaultAfterBreak(n) ==
    /\ frames # <<>> /\ Head(frames).kind = "default"
    /\ \E c \in {DefaultCase(n)} :
          /\ h' = c.hp
          /\ cur' = c.path
    /\ frames' = <<[kind |-> "end", path |-> cur]>> \o Tail(frames)
    /\ UNCHANGED <<exact, steps>>

\* The case falls through.
DefaultFallThrough(n) ==
    /\ frames # <<>> /\ Head(frames).kind = "default"
    /\ \E c \in {DefaultCase(n)} :
          \E m \in {merge_stree(c.hp, cur.tree, c.path.tree)} :
             /\ h' = m.hp
             /\ cur' = [tree |-> m.tree, reach |-> cur.reach \cup c.path.reach]
    /\ frames' = Tail(frames)
    /\ UNCHANGED <<exact, steps>>

Init ==
    /\ h = [sm |-> <<>>, pool |-> <<>>]
    /\ cur = [tree |-> Empty, reach |-> [Vars -> Values]]
    /\ frames = <<>>
    /\ exact = TRUE
    /\ steps = 0

Next ==
    \/ \E v \in Vars, S \in Assigned : Assign(v, S)
    \/ Fork
    \/ \E v \in Vars, t \in Tests, c \in Clocks :
          Condition(v, t[1], t[2], c[1], c[2])
    \/ Else
    \/ Join
    \/ \E v \in Vars, limit \in Limits, c \in Clocks :
          ParamLimit(v, limit, c[1], c[2])
    \/ \E v \in Vars, k \in {t[2] : t \in Tests}, c \in Clocks : Switch(v, k, c[2])
    \/ \E c \in Clocks : DefaultAfterBreak(c[2])
    \/ \E c \in Clocks : DefaultFallThrough(c[2])

Spec == Init /\ [][Next]_vars

\* ---- splitting the returns

BothStacks(l, r) == [true |-> l.true \cup r.true, false |-> l.false \cup r.false]

RECURSIVE get_tf_stacks_from_pool(_, _, _)
get_tf_stacks_from_pool(hp, gate, pool_sm) ==
    IF gate = None THEN [true |-> {}, false |-> {}]
    ELSE IF is_leaf(hp, gate) /\ Sm(hp, gate).vals = Sm(hp, pool_sm).vals
    THEN [true |-> {pool_sm}, false |-> {}]
    ELSE IF \A j \in Sm(hp, gate).possible : Sm(hp, j).vals # Sm(hp, pool_sm).vals
    THEN [true |-> {}, false |-> {gate}]
    ELSE BothStacks(get_tf_stacks_from_pool(hp, Sm(hp, gate).left, pool_sm),
                    get_tf_stacks_from_pool(hp, Sm(hp, gate).right, pool_sm))

Overwritten(r, tree) == [hp |-> r.hp, tree |-> overwrite(r.tree, tree)]
FilterStacks(hp, tree, tf) ==
    Overwritten(filter_stack(hp, tree, tf.false, tf.true, Len(VarOrder)), tree)

\* A bug: what was to be kept is removed.
StacksSwapped(hp, tree, gate, pool_sm) ==
    FilterStacks(hp, tree, Exchanged(get_tf_stacks_from_pool(hp, gate, pool_sm)))

overwrite_states_using_pool(hp, tree, gate, pool_sm) ==
    IF Sm(hp, pool_sm).pool = None THEN [hp |-> hp, tree |-> tree]
    ELSE FilterStacks(hp, tree, get_tf_stacks_from_pool(hp, gate, pool_sm))

\* ---- properties

Paths == {cur} \cup {frames[k].path : k \in DOMAIN frames}

TreeCovers(hp, tree, reach) ==
    \A v \in DOMAIN tree : \A e \in reach : e[v] \in Sm(hp, tree[v]).vals

(***************************************************************************)
(* What filter_pools() takes out of a history is impossible there: on every *)
(* path, also when time ran out or a history was too long to be filtered,   *)
(* the values that a variable really has are among those of its state.      *)
(***************************************************************************)
Sound == \A p \in Paths : TreeCovers(h, p.tree, p.reach)

(***************************************************************************)
(* The comment at the top of smatch_implied.c: after the condition on foo   *)
(* the value of bar is known.  As long as nothing was given up, the states  *)
(* after any conditions are exactly the values on the paths that get there. *)
(***************************************************************************)
Precise ==
    exact => \A p \in Paths : \A v \in DOMAIN p.tree :
                 Sm(h, p.tree[v]).vals = {e[v] : e \in p.reach}

(***************************************************************************)
(* A state and its pool belong together although both are changed in place, *)
(* by merges, by fake histories and by the filter: the pool has a state of  *)
(* the same variable, and the state is a part of that.  A merged state has  *)
(* the values of its history and no others.                                 *)
(***************************************************************************)
HistoriesFit ==
    \A i \in DOMAIN h.sm :
        LET s == Sm(h, i)
            Of(j) == IF j = None THEN {} ELSE Sm(h, j).vals
        IN /\ s.pool # None =>
                 /\ s.var \in DOMAIN h.pool[s.pool]
                 /\ s.vals \subseteq Of(h.pool[s.pool][s.var])
           /\ s.merged => s.vals = Of(s.left) \cup Of(s.right)

(***************************************************************************)
(* Splitting a return on the leaves of a variable (smatch_db.c) loses no    *)
(* path: each is covered by the states that overwrite_states_using_pool()   *)
(* sets for one of the leaves.  Not so once a leaf has a fake history: its  *)
(* halves are not in the lists of possible states made before.              *)
(***************************************************************************)
SplitCovers ==
    (\A i \in DOMAIN h.sm : ~h.sm[i].leaf) =>
        \A v \in {u \in DOMAIN cur.tree : Sm(h, cur.tree[u]).merged} :
            LET gate == cur.tree[v]
                Covered(j) ==
                    LET o == overwrite_states_using_pool(h, cur.tree, gate, j)
                    IN {e \in cur.reach : /\ e[v] \in Sm(h, j).vals
                                          /\ TreeCovers(o.hp, o.tree, {e})}
            IN cur.reach = UNION {Covered(j) : j \in {i \in Sm(h, gate).possible :
                                                         is_leaf(h, i)}}

============================================================================
