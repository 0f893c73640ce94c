----------------------------- MODULE MCCompiler -----------------------------
(***************************************************************************)
(* Families of functions, each aimed at one part of the compiler.  They    *)
(* leave out what the optimizer is known to change (see README): a power   *)
(* of two that divides a negative number, & and | of a constant with a     *)
(* call, X && true, a for loop with its variable on the right of < or >,   *)
(* an empty counting loop that starts beyond its end, do ... while (0)     *)
(* left by a jump, and a jump out of a catch.                              *)
(***************************************************************************)
EXTENDS Compiler

x == Loc(0)
y == Loc(1)
g == Glob(0)
emit(e) == Efun("emit", e)
stmt(e) == Void(e)
set(v, e) == Node("ASSIGN", e, v)
Block(s, t) == Node("{", s, t)
Ret(e) == Node("RETURN", e, Nil)
Fun(s) == Block(s, Ret(x))
if(c, s, t) == Void(Node("?", c, Node(":", s, t)))
for(i, c, s, b) == Block(i, Node("FOR", c, Node(":", b, s)))
brk == Node("BREAK", Nil, Nil)
cnt == Node("CONTINUE", Nil, Nil)
un(op, e) == Node(op, e, Nil)

(* Constants around every border of ins_int *)
Numbers == {Ret(Num(i)) : i \in {2, 257, 258, -2, -257, -258, 300, 32767, 32768, -32768, 40000}}

(* Every operator on constants, variables and calls *)
Atoms == {Num(0), Num(1), Num(2), Num(3), x, y, emit(x)}
Operators ==
  {Ret(Node(op, a, b)) : op \in ArithOps \ {"AND", "OR"}, a \in Atoms, b \in Atoms}
  \cup {Ret(Node(op, a, b)) : op \in {"AND", "OR"}, a \in Atoms \ {emit(x)}, b \in Atoms \ {emit(x)}}
  \cup {Ret(un(op, a)) : op \in {"NOT", "COMPL", "NEGATE"}, a \in Atoms}

(* Sums of three and four terms, assignments that reuse their variable *)
Terms == {Num(0), Num(1), x, emit(y)}
Sums ==
  {Ret(Node("ADD", Node("ADD", a, b), c)) : a \in Terms, b \in Terms, c \in Terms}
  \cup {Ret(Node("ADD", a, Node(op, b, c))) : op \in {"ADD", "SUBTRACT"}, a \in Terms, b \in Terms, c \in Terms}
  \cup {Fun(stmt(set(x, Node(op, v, e)))) : op \in {"ADD", "SUBTRACT", "MULTIPLY", "OR"}, v \in {x, y},
                                            e \in {Num(1), Num(2), y, emit(y)}}

(* Short circuits, negations and conditions in each other *)
Tests == {x, y, Num(0), un("NOT", x), emit(y), set(x, y)}
Logic ==
  {Fun(stmt(emit(Node(op, a, Node(op2, b, c))))) : op \in {"LAND", "LOR"}, op2 \in {"LAND", "LOR"},
                                                a \in Tests, b \in Tests, c \in Tests \ {Num(1)}}
  \cup {Fun(stmt(emit(Node("?", Node(op, a, b), Node(":", c, x))))) :
          op \in {"LAND", "LOR"}, a \in Tests, b \in Tests, c \in Tests}

(* Statements in a row: dead stores, joined assignments, conditions *)
Simple == {stmt(set(x, y)), stmt(set(y, Node("ADD", x, Num(1)))), stmt(un("INC", x)), stmt(un("POST_DEC", x)),
           stmt(set(g, x)), stmt(emit(x)), if(y, stmt(set(x, Num(1))), stmt(emit(g))),
           if(un("NOT", x), stmt(set(g, y)), Nil), stmt(set(x, emit(y)))}
Rows == {Fun(Block(Block(a, b), c)) : a \in Simple, b \in Simple, c \in Simple}

(* for, while, do-while and foreach, left and continued *)
Bodies == {Nil, stmt(emit(x)), if(Node("EQ", x, Num(1)), brk, Nil), stmt(set(y, Num(3))),
           Block(if(Node("EQ", x, Num(1)), cnt, Nil), stmt(emit(x))), stmt(un("INC", y)),
           if(y, Ret(y), stmt(set(y, x)))}
Steps == {stmt(un("INC", x)), stmt(un("POST_INC", x)), stmt(un("DEC", x)), stmt(set(x, Node("ADD", x, Num(2))))}
Ends == {Node("LT", x, Num(2)), Node("LE", x, y), Node("GT", x, Num(0)), Node("GE", x, y), Node("NE", x, Num(3)),
         Node("LT", x, g), Num(1), Num(0)}
ForLoops == {Fun(for(stmt(set(x, Num(i))), c, s, b)) : i \in {0, 1}, c \in Ends, s \in Steps, b \in Bodies}
OtherLoops == {Fun(Node("DO", b, c)) : b \in Bodies, c \in {Node("LT", un("INC", x), Num(5)), un("DEC", x), Num(1)}}
      \cup {Fun(Node("FOREACH", Node(" ", Arr(s), v), b)) : s \in {<<>>, <<1>>, <<0, 1, 2>>}, v \in {x, y}, b \in Bodies}

(* switch: points, ranges, fall through, break, default in any place, and  *)
(* a loop or another switch inside                                         *)
at(i) == Node("CASE", Num(i), Nil)
from(i, j) == Node("CASE", Num(i), Num(j))
dflt == <<"DEFAULT", Nil>>
Labels == {<<at(2), at(5)>>, <<from(1, 3), at(4)>>, <<at(2), dflt>>, <<dflt, at(2)>>, <<at(0), from(3, 9)>>,
           <<at(0), dflt>>}
Arms == {stmt(emit(Num(7))), brk, Block(stmt(emit(Num(8))), brk), Nil, Ret(Num(4)),
         Node("FOREACH", Node(" ", Arr(<<1, 2>>), y), if(Node("EQ", y, Num(1)), brk, stmt(emit(y))))}
Switches ==
  {Fun(Node("SWITCH", e, Block(Block(l[1], a), Block(l[2], b)))) :
     e \in {x, set(y, x), Num(4)}, l \in Labels, a \in Arms, b \in Arms}
  \cup {Fun(Node("FOREACH", Node(" ", Arr(<<0, 2, 9>>), y),
              Node("SWITCH", y, Block(Block(at(0), a), Block(at(9), b))))) : a \in Arms \cup {cnt}, b \in Arms}

(* catch around errors, alone, in loops and in each other *)
throw(e) == stmt(Efun("throw", e))
catch(s) == un("CATCH", s)
Tried == {stmt(emit(x)), throw(x), if(y, throw(y), stmt(emit(x))), stmt(emit(Node("DIVIDE", x, y))),
          stmt(set(x, catch(throw(Num(9))))), Node("FOR", Num(1), Node(":", stmt(un("INC", x)), Nil))}
Catches ==
  {Fun(Block(stmt(set(y, catch(Block(a, b)))), stmt(emit(Node("ADD", x, y))))) : a \in Tried, b \in Tried}
  \cup {Fun(Node("FOREACH", Node(" ", Arr(<<1, 0>>), y), stmt(emit(catch(Block(a, b)))))) : a \in Tried, b \in Tried}

(* Jumps and labels with and without something to refer to *)
Misplaced ==
  {Fun(w) : w \in {brk, cnt, at(1), dflt, if(x, brk, cnt), Node("SWITCH", x, Block(at(1), cnt)),
                   Node("FOREACH", Node(" ", Arr(<<1>>), y), at(1)),
                   Node("SWITCH", x, Block(at(1), Node("FOREACH", Node(" ", Arr(<<1>>), y), dflt))),
                   Node("SWITCH", x, Block(at(1), Node("DO", Block(at(2), brk), x))),
                   Block(Node("SWITCH", x, at(1)), brk), Block(Node("DO", Nil, un("DEC", x)), cnt)}}

MCTrees == Numbers \cup Operators \cup Sums \cup Logic \cup Rows \cup ForLoops \cup OtherLoops
           \cup Switches \cup Catches \cup Misplaced
(* for (x = 0; 3 > x; x++) emit(x); with each of the four comparisons      *)
TurnedTrees == {Fun(for(stmt(set(x, Num(0))), Node(op, Num(3), x), stmt(un("INC", x)), stmt(emit(x)))) :
                  op \in {"LT", "LE", "GT", "GE"}}

MCLocals == [i \in 0..1 |-> IF i = 0 THEN 2 ELSE 0]
MCGlobals == [i \in {0} |-> 5]
=============================================================================
