----------------------------- MODULE MCOptimize -----------------------------
(***************************************************************************)
(* Functions to optimize: all those of three small blocks, some shapes of  *)
(* six with different bodies over one variable and over two, and two       *)
(* variables that are swapped in a loop.                                   *)
(***************************************************************************)
EXTENDS Optimize

set(v, val) == [op |-> "set", v |-> v, val |-> val]
copy(v, w) == [op |-> "copy", v |-> v, w |-> w]
get(v) == [op |-> "get", v |-> v]
use(v) == [op |-> "use", v |-> v]
give(v) == [op |-> "give", v |-> v]
ret == [op |-> "ret"]
br(t) == [op |-> "br", t |-> t]
if(v, t, e) == [op |-> "if", v |-> v, t |-> t, e |-> e]
ask(t, e) == [op |-> "ask", t |-> t, e |-> e]

\* Three blocks.
Blocks3(bodies, exits) == { body \o <<exit>> : body \in bodies, exit \in exits }
Bodies == {<<>>, <<set(1, 0)>>, <<set(1, 2)>>, <<get(1)>>, <<use(1)>>}
Exits == {ret, br(2), br(3), if(1, 2, 3), if(1, 3, 2), ask(2, 3)}

Three(kind, first, others) ==
    { [kinds |-> <<kind>>, code |-> <<a, b, c>>] : a \in first, b \in others, c \in others }

Scalars == Three("scalar", Blocks3({<<set(1, 0)>>, <<get(1)>>}, {br(2), ask(2, 3), if(1, 2, 3)}),
                 Blocks3(Bodies, Exits))

InMemory(kind, more) ==
    Three(kind, Blocks3({<<set(1, 0)>>}, {br(2), ask(2, 3)}),
          Blocks3({<<>>, <<set(1, 2)>>, <<use(1)>>} \cup more, {ret, br(2), if(1, 2, 3), ask(2, 3)}))

\* Shapes: the exits of six blocks.
Diamonds    == <<ask(2, 3), br(4), br(4), if(1, 5, 6), br(6), ret>>
Loop        == <<br(2), ask(3, 6), if(1, 4, 5), br(2), br(2), ret>>
Crossed     == <<ask(2, 4), if(1, 3, 5), br(5), if(1, 5, 3), if(1, 6, 2), ret>>
Irreducible == <<ask(2, 3), ask(3, 4), ask(2, 5), if(1, 6, 2), if(1, 3, 6), ret>>

Shaped(kind, shape) ==
    { [kinds |-> <<kind>>, code |-> [b \in 1..6 |-> body[b] \o <<shape[b]>>]] :
        body \in { c \in [1..6 -> {<<>>, <<set(1, 0)>>, <<set(1, 2)>>, <<use(1)>>}] :
                     /\ c[1] = <<set(1, 2)>> /\ c[6] = <<use(1)>>
                     /\ c[4] # <<set(1, 2)>> } }

\* Two variables in the same shapes: two phi nodes in one block.
Pairs(shape) ==
    { [kinds |-> <<"scalar", "scalar">>, code |-> [b \in 1..6 |-> body[b] \o <<shape[b]>>]] :
        body \in { c \in [1..6 -> {<<>>, <<use(2)>>, <<get(1), get(2)>>, <<set(1, 2), get(2)>>,
                                   <<set(1, 0), set(2, 2)>>}] :
                     /\ c[1] = <<get(1), get(2)>> /\ c[4] = <<>>
                     /\ \A b \in 5..6 : c[b] \in {<<>>, <<use(2)>>} } }

\* Two variables that change places while calls say so.
Swap == [kinds |-> <<"scalar", "scalar", "scalar">>,
         code |-> << <<get(1), set(2, 2), br(2)>>,
                     <<use(1), copy(3, 1), copy(1, 2), copy(2, 3), ask(2, 3)>>,
                     <<use(1), use(2), ret>> >>]

OptimizePrograms ==
    Scalars \cup InMemory("struct", {<<get(1)>>}) \cup InMemory("address", {<<give(1)>>})
    \cup InMemory("static", {})
    \cup UNION { Shaped("scalar", shape) : shape \in {Diamonds, Loop, Crossed, Irreducible} }
    \cup UNION { Shaped("struct", shape) : shape \in {Diamonds, Crossed} }
    \cup UNION { Pairs(shape) : shape \in {Diamonds, Loop, Crossed} }
    \cup {Swap}

\* A store, a call that sees it, and another store.
StorePrograms ==
    { [kinds |-> <<"static">>,
       code |-> << <<ask(2, 3)>>, <<br(4)>>, <<set(1, 2), get(1), br(4)>>, <<set(1, 0), ret>> >>] }

\* x = call() ? 2 : y; if (x) x = 2; else x = 0; call(x)
SelectPrograms ==
    { [kinds |-> <<"scalar", "scalar">>,
       code |-> << <<get(2), ask(2, 3)>>, <<set(1, 2), br(4)>>, <<copy(1, 2), br(4)>>,
                   <<if(1, 5, 6)>>, <<set(1, 2), br(7)>>, <<set(1, 0), br(7)>>,
                   <<use(1), ret>> >>] }

TwoInputs == {0, 2}
OtherInputs == {0, 4}
=============================================================================
