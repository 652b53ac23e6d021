------------------------------- MODULE MCFlow ------------------------------
(***************************************************************************)
(* Instances of Flow for TLC.                                              *)
(***************************************************************************)
EXTENDS Flow

leaf == [t |-> "leaf"]
null == [t |-> "null"]
Not(a) == [t |-> "not", a |-> a]
And(a, b) == [t |-> "and", a |-> a, b |-> b]
Or(a, b) == [t |-> "or", a |-> a, b |-> b]
Select(a, b, c) == [t |-> "select", a |-> a, b |-> b, c |-> c]
Stmt(a) == [t |-> "stmt", a |-> a]

\* A check sets states on both sides of a condition, or on neither.
BothOrNone == {<<TRUE, TRUE>>, <<FALSE, FALSE>>}
None == {<<FALSE, FALSE>>}
NoPost == {"none", "pre"}
NoSet == {"none"}
Unknown == {UNKNOWN_TF}
AnyKnown == {UNKNOWN_TF, TRUE_TF, FALSE_TF}
Nothing == {}

Leaves == {leaf}
LoopLeaves == {leaf, null}
Binary(S) == {And(a, b) : a, b \in S} \cup {Or(a, b) : a, b \in S}
Nested == UNION {{And(leaf, c), Or(c, leaf)} :
                  c \in Binary({leaf}) \cup {Not(leaf), Stmt(leaf)}}
          \cup {Not(And(leaf, Stmt(leaf)))}
Selects == {Select(leaf, leaf, leaf), And(leaf, Select(leaf, leaf, leaf)),
            Select(And(leaf, leaf), leaf, Not(leaf))}
Mixed == {Stmt(leaf), Select(leaf, leaf, leaf)}
WithStmt == {Stmt(leaf), And(leaf, Stmt(leaf))}
Values == {1, 2}
OneValue == {1}
NotKnown == {NULL}
Known == {Leaf(x, Unset)}

Simple == {"set", "if"}
Assignment == {"set"}
Loops == {"compound", "set", "if", "while", "do", "scoped_guard", "break",
          "continue"}
Control == Loops \cup {"return", "switch", "goto", "label"}
Expressions == {"compound", "set", "return", "if", "logic", "cond_assign",
                "select_assign"}
Inside == {"compound", "set", "if", "cond_assign"}
Interrupted == {"compound", "set", "if", "while", "do", "switch", "break",
                "return", "inline", "give_up", "oom"}
InlineInside == {"set", "inline", "if"}
InsideReturn == {"compound", "set", "if", "return"}
InsideBreak == {"set", "break"}
=============================================================================
