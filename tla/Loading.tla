------------------------------ MODULE Loading -------------------------------
(***************************************************************************)
(* Programs and objects by name (src/src/simulate.c 109-498, otable.c,     *)
(* more_hashes.c, object.c, language.y): a file is compiled, what it       *)
(* inherits is loaded first and the file compiled again, the master        *)
(* approves of the program, and objects are cloned from it.  The master's  *)
(* functions and create() are LPC code that loads, clones, destructs and   *)
(* updates on its own; the program that is being loaded waits meanwhile in *)
(* the global variable prog.                                               *)
(***************************************************************************)
EXTENDS Integers, FiniteSets, SequencesExt

CONSTANTS
  Names,        \* of files and of the programs and objects made from them
  Progs, Objs,  \* addresses of programs and of objects
  None,
  Libraries,    \* the files there may be, as functions of their names
  Budget,       \* bound of the model: operations of LPC code
  Liberties     \* what LPC code may do that the driver does not guard against

(* "approve_loads"   query_approve() has a program loaded that is not yet  *)
(* "log_loads"       log_error() has a program compiled                    *)
(* "virtual_named"   compile_object() returns an object that has a name,   *)
(*                   or makes one of the name that it is asked for, or of  *)
(*                   one that a clone waits for while it is loaded         *)
AllLiberties == {"approve_loads", "log_loads", "virtual_named"}

ASSUME NoneAssumption    == None \notin Names \cup Progs \cup Objs
ASSUME MemoryAssumption  == /\ IsFiniteSet(Names) /\ IsFiniteSet(Progs) /\ IsFiniteSet(Objs)
                            /\ {"?", "nothing"} \cap Progs = {}
ASSUME LibraryAssumption ==
  Libraries \subseteq [Names -> [inherits: Seq(Names), broken: BOOLEAN, exists: BOOLEAN]]
ASSUME BudgetAssumption  == Budget \in Nat /\ Liberties \subseteq AllLiberties

VARIABLES
  file,        \* what every file holds
  code,        \* programs in memory
  table,       \* obj_table: the program of a name
  object,      \* objects: state, program, obj_index
  named,       \* obj_hash: the object of a name
  prog, approved_object,
  stack, calls,
  fatal,       \* what fatal() was called with
  taken,       \* history: the liberties that were taken
  leaked       \* history: programs an error left behind while they waited

memory == <<code, table, object, named>>
ghosts == <<taken, leaked>>
vars == <<file, memory, prog, approved_object, stack, calls, fatal, ghosts>>

Free     == [name |-> None, ref |-> 0, inherits |-> <<>>, approves |-> FALSE]
NoObject == [state |-> "free", prog |-> None, index |-> None]

Top      == Last(stack)
Below    == Front(stack)
Waits(k) == fatal = None /\ stack # <<>> /\ Top.kind = k
Lpc(why) == [kind |-> "lpc", why |-> why]
Frames(k) == {stack[i] : i \in {i \in DOMAIN stack : stack[i].kind = k}}

\* The answer goes to the frame that asked for the program.
Answer(s, p) == [s EXCEPT ![Len(s)].got = p]

-----------------------------------------------------------------------------
(* Reference counts of programs                                            *)

Referenced(c, ps) ==
  [p \in Progs |-> [c[p] EXCEPT !.ref = @ + Cardinality({i \in DOMAIN ps : ps[i] = p})]]

\* The references to p in what programs inherit, as places in their lists
Inheriting(c, ps, p) ==
  UNION {{<<q, i>> : i \in {i \in DOMAIN c[q].inherits : c[q].inherits[i] = p}} : q \in ps}

\* How many references to q are given up with one to p, if some programs go
GivenUp(c, p, going, q) == Cardinality(Inheriting(c, going, q)) + (IF q = p THEN 1 ELSE 0)

\* Who goes: the least set with whoever has no references left, but had one.
AllGone(c, p, going) ==
  \A q \in Progs : GivenUp(c, p, going, q) > 0 /\ GivenUp(c, p, going, q) >= c[q].ref => q \in going
Going(c, p) == {q \in Progs : \A going \in SUBSET Progs : AllGone(c, p, going) => q \in going}

\* Mutant: what a program inherits is not released with it.
FreedAlone(c, p) == [c EXCEPT ![p] = IF @.ref > 1 THEN [@ EXCEPT !.ref = @ - 1] ELSE Free]

\* Mutant: a program without references keeps its name.
FreedButNamed(c, p) ==
  [q \in Progs |-> [c[q] EXCEPT !.ref = IF q \in Going(c, p) THEN 0 ELSE @ - GivenUp(c, p, Going(c, p), q)]]

\* free_prog: with its last reference a program releases what it inherits.
Freed(c, p) ==
  LET going == Going(c, p)
  IN [q \in Progs |-> IF q \in going THEN Free
                      ELSE [c[q] EXCEPT !.ref = @ - GivenUp(c, p, going, q)]]

\* error(): to the main loop, or to any function of LPC code that has a catch.
\* A program that waits for the master's approval is lost on the way.
Error ==
  /\ \E k \in {0} \cup {i \in DOMAIN stack : stack[i].kind = "lpc"} :
       /\ stack' = SubSeq(stack, 1, k)
       /\ leaked' = leaked \cup {stack[i].own : i \in {i \in k + 1 .. Len(stack) - 1 :
                                                      stack[i].kind = "approve"}}
  /\ UNCHANGED fatal

Fatal(text) == fatal' = text /\ UNCHANGED <<stack, leaked>>

Go(s) == stack' = s /\ UNCHANGED <<fatal, leaked>>

-----------------------------------------------------------------------------
(* load_object                                                             *)

LoadFrame(n, chain)    == [kind |-> "load", name |-> n, chain |-> chain]
InheritFrame(n, m)     == [kind |-> "inherit", name |-> n, got |-> "?", wants |-> m]
ApproveFrame(p, asked) == [kind |-> "approve", own |-> p, asked |-> asked]
ParseFrame(n, chain, errors, lost) ==
  [kind |-> "parse", name |-> n, chain |-> chain, errors |-> errors, lost |-> lost]

\* Mutant: a file may wait for itself.
MayLoad(n, chain) == TRUE

\* No file waits, through inherit, for itself.
NotAwaited(n, chain) == n \notin Range(chain)

\* A compilation that starts within another takes its memory blocks.
LoadObject ==
  /\ Waits("load")
  /\ LET n == Top.name
         misuse == (IF Frames("parse") = {} THEN {} ELSE {"log_loads"}) \cup
                   (IF Frames("approve") = {} THEN {} ELSE {"approve_loads"})
     IN IF ~ file[n].exists THEN Go(Answer(Below, "nothing")) /\ UNCHANGED taken
        ELSE IF ~ NotAwaited(n, Top.chain) THEN Error /\ UNCHANGED taken
        ELSE /\ misuse \subseteq Liberties /\ taken' = taken \cup misuse
             /\ Go(Append([i \in DOMAIN Below |->
                             IF Below[i].kind # "parse" THEN Below[i]
                             ELSE ParseFrame(Below[i].name, Below[i].chain, Below[i].errors, TRUE)],
                          ParseFrame(n, Top.chain, 0, FALSE)))
  /\ UNCHANGED <<file, memory, prog, approved_object, calls>>

\* yyerror: smart_log calls the master, and the compiler goes on.
ParseError ==
  /\ Waits("parse") /\ file[Top.name].broken /\ Top.errors = 0
  /\ Go(Below \o <<ParseFrame(Top.name, Top.chain, 1, Top.lost), Lpc("log_error")>>)
  /\ UNCHANGED <<file, memory, prog, approved_object, calls, taken>>

\* What the compiler inherits, and the first file it does not find loaded
Inherit(ps, q) == ps \o <<q>> \o code[q].inherits
Misses(f) == {i \in DOMAIN f.inherits : table[f.inherits[i]] = None}
Compiled(f) ==
  LET miss == Misses(f)
      upto == IF miss = {} THEN Len(f.inherits) ELSE Min(miss) - 1
      programs[i \in 0 .. upto] ==
        IF i = 0 THEN <<>> ELSE Inherit(programs[i - 1], table[f.inherits[i]])
  IN [inherit_file |-> IF miss = {} THEN None ELSE f.inherits[upto + 1],
      inherits |-> programs[upto]]

\* Mutant: what is inherited is not counted.
MadeUncounted(p, n, inherits) ==
  [code EXCEPT ![p] = [name |-> n, ref |-> 1, inherits |-> inherits, approves |-> FALSE]]

\* epilog: the program holds what it inherits.
Made(p, n, inherits) ==
  Referenced([code EXCEPT ![p] = [name |-> n, ref |-> 1, inherits |-> inherits, approves |-> FALSE]],
             inherits)

\* The file is at its end, or at an inherit of what is not loaded.
ParseEnd ==
  /\ Waits("parse")
  /\ LET n == Top.name
         c == Compiled(file[n])
         made == {p \in Progs : code[p] = Free}
     IN /\ file[n].broken => Top.errors > 0 \/ c.inherit_file # None
        /\ IF Top.lost THEN Fatal("compiler state lost") /\ UNCHANGED <<code, prog, approved_object>>
           ELSE /\ approved_object' = (\E q \in Range(c.inherits) : code[q].approves)
                /\ IF c.inherit_file # None
                   THEN /\ IF Top.errors > 0 THEN UNCHANGED code
                           ELSE \E p \in made : code' = Freed(Made(p, n, c.inherits), p)
                        /\ prog' = None
                        /\ Go(Below \o <<InheritFrame(n, c.inherit_file),
                                         LoadFrame(c.inherit_file, Append(Top.chain, n))>>)
                   ELSE IF Top.errors > 0 THEN prog' = None /\ Error /\ UNCHANGED code
                   ELSE \E p \in made :
                          /\ code' = Made(p, n, c.inherits) /\ prog' = p
                          /\ Go(Append(Below, ApproveFrame(p, FALSE)))
  /\ UNCHANGED <<file, table, object, named, calls, taken>>

\* Mutant: the file that waited is not compiled again.
InheritedAtOnce ==
  /\ Waits("inherit")
  /\ IF Top.got = "nothing" THEN Error ELSE Go(Answer(Below, Top.got))
  /\ UNCHANGED <<file, memory, prog, approved_object, calls, taken>>

\* The inherited file is there, or missing: compile again, without a chain.
Inherited ==
  /\ Waits("inherit")
  /\ IF Top.got = "nothing" THEN Error ELSE Go(Append(Below, LoadFrame(Top.name, <<>>)))
  /\ UNCHANGED <<file, memory, prog, approved_object, calls, taken>>

\* Inheriting from what approves is enough; else query_approve() is asked.
Approve ==
  /\ Waits("approve") /\ ~ Top.asked
  /\ Go(IF approved_object THEN Append(Below, ApproveFrame(Top.own, TRUE))
        ELSE Below \o <<ApproveFrame(Top.own, TRUE), Lpc("query_approve")>>)
  /\ UNCHANGED <<file, memory, prog, approved_object, calls, taken>>

\* What is approved and entered is what the global variable holds by now.
Approved ==
  /\ Waits("approve") /\ Top.asked
  /\ IF prog = None \/ code[prog].name = None
     THEN Fatal("prog is gone") /\ UNCHANGED <<code, table>>
     ELSE \/ /\ ~ approved_object /\ Error
             /\ code' = Freed(code, prog) /\ UNCHANGED table
          \/ \E approves \in BOOLEAN :
             IF table[code[prog].name] # None
             THEN Fatal("Duplicate program") /\ UNCHANGED <<code, table>>
             ELSE /\ approved_object => approves
                  /\ table' = [table EXCEPT ![code[prog].name] = prog]
                  /\ code' = [code EXCEPT ![prog].approves = approves]
                  /\ Go(Answer(Below, prog))
  /\ UNCHANGED <<file, object, named, prog, approved_object, calls, taken>>

-----------------------------------------------------------------------------
(* clone_object                                                            *)

CloneFrame(n, index) == [kind |-> "clone", name |-> n, index |-> index, got |-> "?"]

\* Mutant: the table of programs is not looked at.
FindBlindly ==
  /\ Waits("clone") /\ Top.got = "?"
  /\ Go(Append(stack, LoadFrame(Top.name, <<>>)))
  /\ UNCHANGED <<file, memory, prog, approved_object, calls, taken>>

\* The program is found, or loaded, or there is no file of that name.
Find ==
  /\ Waits("clone") /\ Top.got = "?"
  /\ Go(IF table[Top.name] # None THEN Append(Below, [Top EXCEPT !.got = table[Top.name]])
        ELSE Append(stack, LoadFrame(Top.name, <<>>)))
  /\ UNCHANGED <<file, memory, prog, approved_object, calls, taken>>

\* enter_my_object_hash finds no other object of the name.
NotNamed(n) == n = None \/ named[n] = None

\* Mutant: an object that gets a name is not entered in the hash table.
MakeObjectUnlisted ==
  /\ Waits("clone") /\ Top.got \in Progs
  /\ \E o \in {o \in Objs : object[o].state = "free"} :
       /\ object' = [object EXCEPT ![o] = [state |-> "live", prog |-> Top.got, index |-> Top.index]]
       /\ Go(Below \o <<[kind |-> "uid", ob |-> o], Lpc("creator_file")>>)
  /\ code' = Referenced(code, <<Top.got>>)
  /\ UNCHANGED <<file, table, named, prog, approved_object, calls, taken>>

\* An object that is refused its name keeps it in obj_index.
MakeObject ==
  /\ Waits("clone") /\ Top.got \in Progs
  /\ \E o \in {o \in Objs : object[o].state = "free"} :
       /\ object' = [object EXCEPT ![o] = [state |-> "live", prog |-> Top.got, index |-> Top.index]]
       /\ IF ~ NotNamed(Top.index) THEN Error /\ UNCHANGED named
          ELSE /\ named' = IF Top.index = None THEN named ELSE [named EXCEPT ![Top.index] = o]
               /\ Go(Below \o <<[kind |-> "uid", ob |-> o], Lpc("creator_file")>>)
  /\ code' = Referenced(code, <<Top.got>>)
  /\ UNCHANGED <<file, table, prog, approved_object, calls, taken>>

\* Mutant: the name of a destructed object stays taken.
RemovedNameless(o) ==
  /\ object' = [object EXCEPT ![o].state = "destructed"] /\ UNCHANGED named

Removed(o) ==
  /\ object' = [object EXCEPT ![o].state = "destructed"]
  /\ named' = IF object[o].index = None THEN named ELSE [named EXCEPT ![object[o].index] = None]

\* remove_my_object_hash looks the name up again.
MayRemove(o) == object[o].index = None \/ named[object[o].index] = o

\* Without a creator the object is destructed; else create() is called.
UidDone ==
  /\ Waits("uid")
  /\ LET o == Top.ob
     IN IF object[o].state # "live" THEN Error /\ UNCHANGED <<object, named>>
        ELSE \/ Removed(o) /\ Error
             \/ /\ Go(Append(Below, Lpc("create"))) /\ UNCHANGED <<object, named>>
  /\ UNCHANGED <<file, code, table, prog, approved_object, calls, taken>>

\* The master may make the object of a file that is not there.
AskVirtual ==
  /\ Waits("clone") /\ Top.got = "nothing"
  /\ Go(Below \o <<[kind |-> "virtual", index |-> Top.index], Lpc("compile_object")>>)
  /\ UNCHANGED <<file, memory, prog, approved_object, calls, taken>>

VirtualDone ==
  /\ Waits("virtual")
  /\ LET n == Top.index
     IN \/ Error /\ UNCHANGED <<object, named, taken>>
        \/ \E o \in {o \in Objs : object[o].state = "live"} :
             IF n = None THEN Go(Below) /\ UNCHANGED <<object, named, taken>>
             ELSE LET misuse == IF \/ object[o].index # None \/ named[n] # None
                                   \/ \E f \in Frames("clone") : f.index = n
                                THEN {"virtual_named"} ELSE {}
                  IN /\ misuse \subseteq Liberties /\ taken' = taken \cup misuse
                     /\ object' = [object EXCEPT ![o].index = n]
                     /\ IF named[n] # None THEN Error /\ UNCHANGED named
                        ELSE named' = [named EXCEPT ![n] = o] /\ Go(Below)
  /\ UNCHANGED <<file, code, table, prog, approved_object, calls>>

-----------------------------------------------------------------------------
(* What LPC code does                                                      *)

Operation == Waits("lpc") /\ calls > 0 /\ calls' = calls - 1

Clone(n) ==
  /\ Operation /\ Go(Append(stack, CloneFrame(n, None)))
  /\ UNCHANGED <<file, memory, prog, approved_object, taken>>

\* find_hashed: the object of a name, made when there is none
FindHashed(n) ==
  /\ named[n] = None /\ Operation /\ Go(Append(stack, CloneFrame(n, n)))
  /\ UNCHANGED <<file, memory, prog, approved_object, taken>>

Destruct(o) ==
  /\ object[o].state = "live" /\ Operation
  /\ IF MayRemove(o) THEN Removed(o) /\ Go(stack)
     ELSE Fatal("Remove object: found a different object") /\ UNCHANGED <<object, named>>
  /\ UNCHANGED <<file, code, table, prog, approved_object, taken>>

\* update(): the next clone compiles the file again.
Update(n) ==
  /\ table[n] # None /\ Operation /\ Go(stack)
  /\ table' = [table EXCEPT ![n] = None]
  /\ code' = Freed(code, table[n])
  /\ UNCHANGED <<file, object, named, prog, approved_object, taken>>

\* A file is corrected, or removed.
Edit(n) ==
  /\ file[n].exists /\ Operation /\ Go(stack)
  /\ file' = [file EXCEPT ![n] = IF @.broken THEN [@ EXCEPT !.broken = FALSE]
                                 ELSE [@ EXCEPT !.exists = FALSE]]
  /\ UNCHANGED <<memory, prog, approved_object, taken>>

Return ==
  /\ Waits("lpc") /\ Go(Below)
  /\ UNCHANGED <<file, memory, prog, approved_object, calls, taken>>

Throw ==
  /\ Waits("lpc") /\ Error
  /\ UNCHANGED <<file, memory, prog, approved_object, calls, taken>>

Init ==
  /\ file \in Libraries
  /\ code = [p \in Progs |-> Free] /\ table = [n \in Names |-> None]
  /\ object = [o \in Objs |-> NoObject] /\ named = [n \in Names |-> None]
  /\ prog = None /\ approved_object = FALSE
  /\ stack = <<>> /\ calls = Budget /\ fatal = None /\ taken = {} /\ leaked = {}

Turn ==
  /\ stack = <<>> /\ fatal = None /\ calls > 0 /\ Go(<<Lpc("turn")>>)
  /\ UNCHANGED <<file, memory, prog, approved_object, calls, taken>>

\* destruct2: the memory of a destructed object, between two turns
Reap(o) ==
  /\ stack = <<>> /\ fatal = None /\ object[o].state = "destructed"
  /\ object' = [object EXCEPT ![o] = NoObject]
  /\ code' = Freed(code, object[o].prog)
  /\ UNCHANGED <<file, table, named, prog, approved_object, stack, calls, fatal, ghosts>>

\* The driver waits, has ended, or is out of addresses of the model.
Idle ==
  /\ \/ stack = <<>> \/ fatal # None
     \/ Waits("parse") /\ \A p \in Progs : code[p] # Free
     \/ Waits("clone") /\ \A o \in Objs : object[o].state # "free"
  /\ UNCHANGED vars

Driver ==
  \/ LoadObject \/ ParseError \/ ParseEnd \/ Inherited \/ Approve \/ Approved
  \/ Find \/ MakeObject \/ UidDone \/ AskVirtual \/ VirtualDone

Next ==
  \/ Driver \/ Return \/ Throw \/ Turn \/ Idle
  \/ \E n \in Names : Clone(n) \/ FindHashed(n) \/ Update(n) \/ Edit(n)
  \/ \E o \in Objs : Destruct(o) \/ Reap(o)

Spec == Init /\ [][Next]_vars

-----------------------------------------------------------------------------
(* Properties                                                              *)

Kinds == {"lpc", "load", "parse", "inherit", "approve", "clone", "uid", "virtual"}

TypeOK ==
  /\ \A p \in Progs :
       /\ code[p].name \in Names \cup {None} /\ code[p].inherits \in Seq(Progs)
       /\ taken = {} => (code[p].name = None) = (code[p].ref = 0)
  /\ table \in [Names -> Progs \cup {None}] /\ named \in [Names -> Objs \cup {None}]
  /\ \A o \in Objs : /\ object[o].state \in {"free", "live", "destructed"}
                     /\ object[o].prog \in Progs \cup {None}
                     /\ object[o].index \in Names \cup {None}
  /\ prog \in Progs \cup {None} /\ approved_object \in BOOLEAN
  /\ \A i \in DOMAIN stack : stack[i].kind \in Kinds
  /\ calls \in Nat /\ taken \subseteq Liberties /\ leaked \subseteq Progs

Uses(p) ==
  Cardinality({n \in Names : table[n] = p}) +
  Cardinality({o \in Objs : object[o].prog = p}) +
  Cardinality({i \in DOMAIN stack : stack[i].kind = "approve" /\ stack[i].own = p}) +
  Cardinality(Inheriting(code, Progs, p))

\* A program lives as long as its name, its objects and what inherits it do,
\* through errors, updates and reloads, and no longer, unless an error lost it.
RefsExact ==
  (taken = {} /\ fatal = None) =>
    \A p \in Progs : code[p] # Free =>
      code[p].ref = Uses(p) + (IF p \in leaked THEN 1 ELSE 0)

\* Nothing that is freed is inherited, entered, cloned from or run.
NothingFreedInUse ==
  (taken = {} /\ fatal = None) => \A p \in Progs : Uses(p) > 0 => code[p] # Free

\* Both hash tables find under a name what has that name.
TablesByName ==
  taken = {} =>
    \A n \in Names :
      /\ table[n] # None => code[table[n]].name = n
      /\ named[n] # None => object[named[n]].state = "live" /\ object[named[n]].index = n

\* A name that an object keeps in obj_index is its own: destruct_object can
\* take it out of the hash table.
NamesRemovable ==
  taken = {} => \A o \in Objs : object[o].state = "live" => MayRemove(o)

\* "Duplicate program", "Entering program twice", "found a different object",
\* a program that is gone: none is reached, unless the master's functions load
\* programs in the middle of a load, or give an object two names.
NoFatal == fatal # None => taken # {}

\* Who waits for a program gets the one of the name asked for.
GotRightProgram ==
  taken = {} =>
    \A i \in DOMAIN stack :
      (stack[i].kind \in {"clone", "inherit"} /\ stack[i].got \in Progs)
        => code[stack[i].got].name = (IF stack[i].kind = "clone" THEN stack[i].name
                                      ELSE stack[i].wants)

\* "Illegal to inherit self": files that inherit each other in a circle do not
\* keep the driver loading, although the chain is forgotten at every reload:
\* for each operation of LPC code so far, no more files wait than there are.
LoadsEnd == Cardinality({i \in DOMAIN stack : stack[i].kind = "inherit"})
              <= (Budget - calls) * Cardinality(Names)

\* Programs are counted as often as they are used, and none in use is freed.
ReferencesSound == TypeOK /\ RefsExact /\ NothingFreedInUse

\* The tables of names agree with the names, so that no fatal() about a name
\* is reached.
NamesSound == TablesByName /\ NamesRemovable /\ NoFatal
=============================================================================
