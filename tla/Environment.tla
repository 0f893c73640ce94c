---------------------------- MODULE Environment ----------------------------
(***************************************************************************)
(* Inventories, commands and destruction (src/src/simulate.c 440-1108 and  *)
(* 1449-1567): the tree of objects inside objects, the tables of sentences *)
(* that add_action fills, and the three C functions that call LPC code in  *)
(* the middle of changing them: move_object, destruct_object and           *)
(* player_parser.  The stack holds a frame for every function of LPC and   *)
(* for every one of these that waits for a call of its own.                *)
(***************************************************************************)
EXTENDS Integers, FiniteSets, SequencesExt

CONSTANTS
  Objects, NoObject,
  Priorities,    \* of add_action
  FirstSlots,    \* slots of a new table of sentences (6 in the code)
  MaxSlots,      \* bound of the model on a table
  Budget,        \* bound of the model: operations of LPC code, by the number of
                 \* objects at the start
  Liberties      \* what LPC code may do that the driver does not guard against

(* "move_destructed"   a destructed object goes on and moves itself        *)
(* "exit_moves_room"   exit() takes the destination into what is moved     *)
(* "destruct_twice"    an object is destructed, by destruct() or with its  *)
(*                     environment, while its destruction waits for the    *)
(*                     master                                              *)
(* "disable_other"     disable_commands() while another is this_player()   *)
(* "add_to_disabled"   add_action() for an object that is not living       *)
(* "caught_command"    catch() around command() in the function of a verb  *)
(* "init_moves_other"  init() moves an object that is neither the moved one*)
(*                     nor its destination                                 *)
(* "add_in_void"       add_action() between objects without environment    *)
AllLiberties == {"move_destructed", "exit_moves_room", "destruct_twice",
                 "disable_other", "add_to_disabled", "caught_command",
                 "init_moves_other", "add_in_void"}

ASSUME ObjectsAssumption  == NoObject \notin Objects /\ IsFiniteSet(Objects)
ASSUME BoundsAssumption   == /\ {FirstSlots, MaxSlots} \subseteq Nat \ {0}
                             /\ Budget \in [0 .. Cardinality(Objects) -> Nat]
ASSUME PriorityAssumption == Priorities \subseteq Int
ASSUME LibertyAssumption  == Liberties \subseteq AllLiberties

VARIABLES
  life,                  \* "none", "live" or "destructed"
  super, contains,       \* the environment; the inventory in its order
  living,                \* the objects with O_ENABLE_COMMANDS
  sentences,             \* a table of slots for every object
  command_giver, current_object,
  command_modification,  \* the table of some object may have changed
  stack,                 \* the last frame is the one that runs
  calls,                 \* operations LPC code may still do
  fatal,                 \* the text of a fatal(), or "none"
  taken                  \* history: the liberties LPC code has taken

tree  == <<life, super, contains>>
regs  == <<command_giver, current_object>>
vars  == <<tree, living, sentences, regs, command_modification, stack, calls, fatal, taken>>

Empty    == [function |-> NoObject, pri |-> 0]
Sentence == [function : Objects, pri : Priorities] \cup {Empty}
Null     == <<>>     \* no table of sentences, no inventory

\* An inventory holds an object once (WellFormed).
Without(inv, o) ==
  IF o \in Range(inv) THEN RemoveAt(inv, CHOOSE i \in DOMAIN inv : inv[i] = o) ELSE inv

-----------------------------------------------------------------------------
(* Tables of sentences                                                     *)

UsedTo(s, last) == Cardinality({e \in 1 .. last : s[e] # Empty})

Used(s) == UsedTo(s, Len(s))

NewTable == [e \in 1 .. FirstSlots |-> Empty]

Grown(s) == IF Used(s) = Len(s) THEN s \o [e \in DOMAIN s |-> Empty] ELSE s

\* Mutant: a free slot is taken for the place.
PlaceOrFree(s, pri) ==
  Min({e \in DOMAIN s : s[e] = Empty \/ s[e].pri <= pri} \cup {Len(s) + 1})

\* The place before the first sentence that has no higher priority.
Place(s, pri) ==
  Min({e \in DOMAIN s : s[e] # Empty /\ s[e].pri <= pri} \cup {Len(s) + 1})

\* The nearest free slot gives its room: one before the place, or else after.
Added(s, new) ==
  LET e    == Place(s, new.pri)
      free == {i \in DOMAIN s : s[i] = Empty}
      left == free \cap 1 .. e - 1
  IN IF left # {}
     THEN LET u == Max(left)
          IN [i \in DOMAIN s |-> IF i = e - 1 THEN new
                                 ELSE IF i \in u .. e - 2 THEN s[i + 1] ELSE s[i]]
     ELSE LET u == Min(free)
          IN [i \in DOMAIN s |-> IF i = e THEN new
                                 ELSE IF i \in e + 1 .. u THEN s[i - 1] ELSE s[i]]

\* cleanup_sentences: a table with few left is copied into one of half the size
CleanedUp(s) ==
  LET kept(n) == {e \in DOMAIN s : s[e] # Empty /\ UsedTo(s, e) = n}
  IN IF Used(s) * 3 > Len(s) \/ Len(s) <= FirstSlots THEN s
     ELSE [n \in 1 .. Len(s) \div 2 |-> IF kept(n) = {} THEN Empty ELSE s[Min(kept(n))]]

RemovedFor(s, o) ==
  CleanedUp([e \in DOMAIN s |->
    IF s[e].function = o \/ (s[e] # Empty /\ life[s[e].function] = "destructed")
    THEN Empty ELSE s[e]])

\* Objects leave one after the other, and the table may shrink each time.
RemovedForAll(s, own) ==
  LET left[n \in 0 .. Len(own)] == IF n = 0 THEN s ELSE RemovedFor(left[n - 1], own[n])
  IN left[Len(own)]

\* Mutant: the sentences that the moved object has from the things it leaves stay
RemovedOneWay(o) ==
  LET near == Range(contains[super[o]]) \cup {super[o]}
  IN [p \in Objects |->
        IF p # o /\ p \in near /\ p \in living THEN RemovedFor(sentences[p], o)
        ELSE sentences[p]]

\* What o leaves in its environment, and its neighbours in it, is removed.
RemovedBothWays(o) ==
  LET near  == Range(contains[super[o]]) \cup {super[o]}
      own   == <<super[o]>> \o
                 (IF o \in living THEN Without(contains[super[o]], o) ELSE <<>>)
  IN [p \in Objects |->
        IF p = o THEN RemovedForAll(sentences[o], own)
        ELSE IF p \in near /\ p \in living THEN RemovedFor(sentences[p], o)
        ELSE sentences[p]]

\* destruct_object removes only what the object added to its neighbours
RemovedFromOthers(o) ==
  LET near == IF super[o] = NoObject THEN {}
              ELSE Range(contains[super[o]]) \cup {super[o]}
  IN [p \in Objects |->
        IF p = o THEN Null
        ELSE IF p \in near /\ p \in living THEN RemovedFor(sentences[p], o)
        ELSE sentences[p]]

-----------------------------------------------------------------------------
(* The tree                                                                *)

\* The object and all it is inside of: the least set with it that is closed
\* outwards, also in a graph with a cycle
Outwards(o) ==
  {p \in Objects : \A U \in SUBSET Objects :
     o \in U /\ (\A q \in U : super[q] \in U \cup {NoObject}) => p \in U}

\* next_inv: the neighbour after o in the inventory that holds it
NextInv(o) ==
  IF super[o] = NoObject THEN NoObject
  ELSE LET inv == contains[super[o]]
           at  == {i \in 1 .. Len(inv) - 1 : inv[i] = o}
       IN IF at = {} THEN NoObject ELSE inv[Min(at) + 1]

FirstInv(o) == IF contains[o] = Null THEN NoObject ELSE Head(contains[o])

Present(o, p) ==
  \/ o = p \/ super[o] = p \/ super[p] = o
  \/ super[o] = super[p] /\ super[o] # NoObject

-----------------------------------------------------------------------------
(* Frames                                                                  *)

Top       == stack[Len(stack)]
Below     == Front(stack)
Running   == stack # <<>> /\ fatal = "none" /\ Top.kind \in {"call", "catch"}
Waits(k)  == stack # <<>> /\ fatal = "none" /\ Top.kind = k
Pending(k) == {stack[i] : i \in {i \in DOMAIN stack : stack[i].kind = k}}

\* push_control_stack, for a function of o called by the frame f of the stack s
Call(s, f, o) ==
  /\ stack' = Append(Append(s, f),
                [kind |-> "call", ob |-> current_object, comgiver |-> command_giver'])
  /\ current_object' = o

\* A table that is given up leaves player_parser with a dangling pointer.
Marked(s, new) ==
  [i \in DOMAIN s |->
     IF s[i].kind = "parse" /\ Len(new[s[i].ob]) # Len(sentences[s[i].ob])
     THEN [s[i] EXCEPT !.dangling = TRUE] ELSE s[i]]

\* error(): back to the innermost catch, or to the main loop
Error ==
  LET catches == {i \in DOMAIN stack : stack[i].kind = "catch"}
  IN IF catches = {}
     THEN stack' = <<>> /\ command_giver' = NoObject /\ current_object' = NoObject
     ELSE \E c \in catches :
            /\ \A i \in catches : i <= c
            /\ stack' = SubSeq(stack, 1, c - 1)
            /\ command_giver' = stack[c].comgiver
            /\ current_object' = stack[c].ob

\* A step of LPC code that runs in o; misuse is the set of liberties it takes.
Operation(o, misuse) ==
  /\ Running /\ o = current_object
  /\ calls > 0 /\ calls' = calls - 1
  /\ misuse \subseteq Liberties /\ taken' = taken \cup misuse

Misuse(condition, liberty) == IF condition THEN {liberty} ELSE {}

-----------------------------------------------------------------------------
(* What LPC code does, as the object o                                     *)

CallOther(o, p) ==
  /\ Operation(o, {}) /\ life[p] = "live" /\ p # o
  /\ stack' = Append(stack, [kind |-> "call", ob |-> o, comgiver |-> command_giver])
  /\ current_object' = p
  /\ UNCHANGED <<tree, living, sentences, command_giver, command_modification, fatal>>

Catch(o) ==
  /\ Operation(o, {})
  /\ stack' = Append(stack, [kind |-> "catch", ob |-> o, comgiver |-> command_giver])
  /\ UNCHANGED <<tree, living, sentences, regs, command_modification, fatal>>

Caller == IF Below = <<>> THEN "backend" ELSE Last(Below).kind

\* pop_control_stack; the function of a verb returns 0 or something else
Return ==
  /\ Running
  /\ current_object' = Top.ob /\ command_giver' = Top.comgiver
  /\ IF Caller = "parse"
     THEN \E answer \in {"zero", "true"} :
            stack' = [Below EXCEPT ![Len(Below)].answer = answer]
     ELSE stack' = Below
  /\ UNCHANGED <<tree, living, sentences, command_modification, calls, taken, fatal>>

Throw ==
  /\ Running /\ Error
  /\ UNCHANGED <<tree, living, sentences, command_modification, calls, taken, fatal>>

Clone(o, n) ==
  /\ Operation(o, {}) /\ life[n] = "none"
  /\ life' = [life EXCEPT ![n] = "live"]
  /\ UNCHANGED <<super, contains, living, sentences, regs, command_modification, stack, fatal>>

SetThisPlayer(o, p) ==
  /\ Operation(o, {}) /\ p \in living /\ life[p] = "live" /\ p # command_giver
  /\ command_giver' = p
  /\ UNCHANGED <<tree, living, sentences, current_object, command_modification, stack, fatal>>

EnableCommands(o) ==
  /\ Operation(o, {}) /\ life[o] = "live"
  /\ living' = living \cup {o}
  /\ command_giver' = o
  /\ UNCHANGED <<tree, sentences, current_object, command_modification, stack, fatal>>

DisableCommands(o) ==
  /\ Operation(o, Misuse(o # command_giver, "disable_other"))
  /\ life[o] = "live" /\ o \in living
  /\ living' = living \ {o}
  /\ sentences' = [sentences EXCEPT ![o] = Null]
  /\ stack' = Marked(stack, sentences')
  /\ IF o = command_giver
     THEN command_giver' = NoObject /\ command_modification' = TRUE
     ELSE UNCHANGED <<command_giver, command_modification>>
  /\ UNCHANGED <<tree, current_object, fatal>>

\* Two objects without environment count as present to each other.
AddAction(o, pri) ==
  /\ command_giver # NoObject /\ life[o] = "live" /\ life[command_giver] = "live"
  /\ IF ~ (Present(o, command_giver) \/ super[o] = super[command_giver])
     THEN /\ Operation(o, {}) /\ Error
          /\ UNCHANGED <<sentences, command_modification>>
     ELSE LET p == command_giver
              s == IF sentences[p] = Null THEN NewTable ELSE sentences[p]
          IN /\ Operation(o, Misuse(p \notin living, "add_to_disabled") \cup
                             Misuse(~ Present(o, p), "add_in_void"))
             /\ Len(Grown(s)) <= MaxSlots
             /\ sentences' = [sentences EXCEPT
                  ![p] = Added(Grown(s), [function |-> o, pri |-> pri])]
             /\ command_modification' = TRUE
             /\ stack' = Marked(stack, sentences')
             /\ UNCHANGED regs
  /\ UNCHANGED <<tree, living, fatal>>

\* A sentence of a destructed object is freed when it is met.
QueryActions(o, p) ==
  /\ Operation(o, {}) /\ p \in living /\ life[p] = "live"
  /\ sentences' = [sentences EXCEPT ![p] =
       [e \in DOMAIN @ |-> IF @[e] # Empty /\ life[@[e].function] = "destructed"
                           THEN Empty ELSE @[e]]]
  /\ sentences' # sentences
  /\ UNCHANGED <<tree, living, regs, command_modification, stack, fatal>>

-----------------------------------------------------------------------------
(* move_object                                                             *)

\* Where an object is, and where the moves that wait in exit() take it
Leads(q) == {super[q]} \cup {f.dest : f \in {g \in Pending("exit") : g.item = q}}

\* What d is inside of, or may come to be inside of when these moves go on
Bound(d) ==
  {p \in Objects : \A U \in SUBSET Objects :
     d \in U /\ (\A q \in U : Leads(q) \subseteq U \cup {NoObject}) => p \in U}

\* move_object looks for o around d before it calls exit(), and never again.
ExitStaysOut(o, d) == o \in Bound(d) => o \in Outwards(d)

InitLeavesAlone(o) == \A f \in Pending("init") : o \notin {f.ob, f.next}

\* left: history, the neighbours the walk has not come to
InitFrame(item, dest, save, at, ob) ==
  [kind |-> "init", item |-> item, dest |-> dest, save |-> save,
   at |-> at, ob |-> ob, next |-> NoObject, left |-> Range(contains[dest])]

\* Who enters during a walk meets the others by a walk of its own.
Entered(s, o) ==
  [i \in DOMAIN s |-> IF s[i].kind = "init" THEN [s[i] EXCEPT !.left = @ \ {o}] ELSE s[i]]

\* The object leaves its inventory, enters another at its head, and if it is
\* living the new environment is called first; s is the stack to return to.
Link(s, item, dest, save) ==
  IF super[item] # NoObject /\ item \notin Range(contains[super[item]])
  THEN /\ fatal' = "Failed to find object in super list"
       /\ UNCHANGED <<super, contains, sentences, stack, regs>>
  ELSE LET left == IF super[item] = NoObject THEN contains
                   ELSE [contains EXCEPT ![super[item]] = Without(@, item)]
       IN /\ contains' = [left EXCEPT ![dest] = <<item>> \o @]
          /\ super' = [super EXCEPT ![item] = dest]
          /\ sentences' = IF super[item] = NoObject THEN sentences
                          ELSE RemovedBothWays(item)
          /\ IF item \in living
             THEN /\ command_giver' = item
                  /\ Call(Marked(Entered(s, item), sentences'),
                          InitFrame(item, dest, save, "dest", NoObject), dest)
             ELSE /\ stack' = Append(Marked(Entered(s, item), sentences'),
                                 InitFrame(item, dest, save, "loop", item))
                  /\ UNCHANGED regs
          /\ UNCHANGED fatal

MoveMisuse(o, d) ==
  Misuse(life[o] # "live", "move_destructed") \cup
  Misuse(~ ExitStaysOut(o, d), "exit_moves_room") \cup
  Misuse(~ InitLeavesAlone(o), "init_moves_other")

\* Mutant: the inside is not searched for the destination.
MoveAnywhere(o, d) ==
  /\ Operation(o, MoveMisuse(o, d)) /\ life[d] = "live"
  /\ command_modification' = TRUE
  /\ IF super[o] # NoObject
     THEN /\ command_giver' = command_giver
          /\ Call(stack, [kind |-> "exit", item |-> o, dest |-> d, save |-> command_giver],
                  super[o])
          /\ UNCHANGED <<super, contains, sentences, fatal>>
     ELSE Link(stack, o, d, command_giver)
  /\ UNCHANGED <<life, living>>

MoveObject(o, d) ==
  /\ Operation(o, MoveMisuse(o, d)) /\ life[d] = "live"
  /\ command_modification' = TRUE
  /\ IF o \in Outwards(d)
     THEN Error /\ UNCHANGED <<super, contains, sentences, fatal>>
     ELSE IF super[o] # NoObject
     THEN /\ command_giver' = command_giver
          /\ Call(stack, [kind |-> "exit", item |-> o, dest |-> d, save |-> command_giver],
                  super[o])
          /\ UNCHANGED <<super, contains, sentences, fatal>>
     ELSE Link(stack, o, d, command_giver)
  /\ UNCHANGED <<life, living>>

\* Mutant: neither object is looked at again after exit().
MoveOnBlindly ==
  /\ Waits("exit")
  /\ Link(Below, Top.item, Top.dest, Top.save)
  /\ UNCHANGED <<life, living, command_modification, calls, taken>>

MoveOn ==
  /\ Waits("exit")
  /\ IF "destructed" \in {life[Top.item], life[Top.dest]}
     THEN stack' = Below /\ UNCHANGED <<super, contains, sentences, regs, fatal>>
     ELSE Link(Below, Top.item, Top.dest, Top.save)
  /\ UNCHANGED <<life, living, command_modification, calls, taken>>

GiveUpMove == stack' = Below /\ command_giver' = Top.save /\ UNCHANGED current_object

\* init() of o for the living object who
CallInit(o, who, at, ob, next) ==
  /\ command_giver' = who
  /\ Call(Below, [Top EXCEPT !.at = at, !.ob = ob, !.next = next, !.left = @ \ {ob}], o)

Walk(ob) ==
  /\ stack' = Append(Below, [Top EXCEPT !.at = "loop", !.ob = ob, !.next = NoObject,
                                        !.left = @ \ {Top.ob}])
  /\ UNCHANGED regs

\* init() of the next neighbour for the moved object
MeetOther(ob, next) ==
  IF Top.item \in living THEN CallInit(ob, Top.item, "ob", ob, next) ELSE Walk(next)

InitDestDone ==
  /\ Waits("init") /\ Top.at = "dest"
  /\ IF life[Top.dest] = "destructed" \/ super[Top.item] # Top.dest
     THEN GiveUpMove ELSE Walk(FirstInv(Top.dest))
  /\ UNCHANGED <<tree, living, sentences, command_modification, calls, taken, fatal>>

\* Mutant: the walk ends where it meets the object itself.
InitLoopBreaks ==
  /\ Waits("init") /\ Top.at = "loop"
  /\ LET ob == Top.ob
     IN IF ob = NoObject
        THEN IF "destructed" \in {life[Top.dest], life[Top.item]} THEN Error ELSE GiveUpMove
        ELSE IF ob = Top.item THEN Walk(NoObject)
        ELSE IF ob \in living THEN CallInit(Top.item, ob, "item", ob, NextInv(ob))
        ELSE MeetOther(ob, NextInv(ob))
  /\ UNCHANGED <<tree, living, sentences, command_modification, calls, taken, fatal>>

InitLoop ==
  /\ Waits("init") /\ Top.at = "loop"
  /\ LET ob == Top.ob
     IN IF ob = NoObject \/ life[Top.item] = "destructed"
        THEN IF "destructed" \in {life[Top.dest], life[Top.item]} THEN Error
             ELSE IF Top.dest \in living
             THEN CallInit(Top.item, Top.dest, "last", NoObject, NoObject)
             ELSE GiveUpMove
        ELSE IF ob = Top.item THEN Walk(NextInv(ob))
        ELSE IF life[ob] = "destructed" THEN Error
        ELSE IF ob \in living THEN CallInit(Top.item, ob, "item", ob, NextInv(ob))
        ELSE MeetOther(ob, NextInv(ob))
  /\ UNCHANGED <<tree, living, sentences, command_modification, calls, taken, fatal>>

\* Mutant: the moved object is not looked for after init().
InitItemDoneBlindly ==
  /\ Waits("init") /\ Top.at = "item"
  /\ MeetOther(Top.ob, Top.next)
  /\ UNCHANGED <<tree, living, sentences, command_modification, calls, taken, fatal>>

InitItemDone ==
  /\ Waits("init") /\ Top.at = "item"
  /\ IF super[Top.item] # Top.dest THEN GiveUpMove ELSE MeetOther(Top.ob, Top.next)
  /\ UNCHANGED <<tree, living, sentences, command_modification, calls, taken, fatal>>

InitOtherDone ==
  /\ Waits("init") /\ Top.at = "ob"
  /\ IF super[Top.item] # Top.dest THEN GiveUpMove ELSE Walk(Top.next)
  /\ UNCHANGED <<tree, living, sentences, command_modification, calls, taken, fatal>>

InitLastDone ==
  /\ Waits("init") /\ Top.at = "last" /\ GiveUpMove
  /\ UNCHANGED <<tree, living, sentences, command_modification, calls, taken, fatal>>

-----------------------------------------------------------------------------
(* destruct_object; NoObject as current_object is the master               *)

DestructFrame(o) == [kind |-> "destruct", ob |-> o, inside |-> NoObject, at |-> "loop"]

BeingDestructed(p) == \E f \in Pending("destruct") : f.ob = p

DestructMisuse(p) ==
  Misuse(BeingDestructed(p), "destruct_twice") \cup
  Misuse(~ InitLeavesAlone(p), "init_moves_other")

\* The master is asked for leave to destruct another object.
Destruct(o, p) ==
  /\ life[p] = "live"
  /\ IF o = p
     THEN /\ Operation(o, DestructMisuse(p))
          /\ command_modification' = TRUE
          /\ stack' = Append(stack, DestructFrame(p))
          /\ UNCHANGED regs
     ELSE /\ Operation(o, {})
          /\ command_giver' = command_giver
          /\ Call(stack, [kind |-> "permit", ob |-> p], NoObject)
          /\ UNCHANGED command_modification
  /\ UNCHANGED <<tree, living, sentences, fatal>>

\* The master may have destructed the object itself.
PermitDone ==
  /\ Waits("permit")
  /\ \/ Error /\ UNCHANGED <<taken, command_modification>>
     \/ LET p == Top.ob
            misuse == IF life[p] = "live" THEN DestructMisuse(p) ELSE {}
        IN /\ misuse \subseteq Liberties /\ taken' = taken \cup misuse
           /\ command_modification' = TRUE
           /\ stack' = IF life[p] = "live" THEN Append(Below, DestructFrame(p)) ELSE Below
           /\ UNCHANGED regs
  /\ UNCHANGED <<tree, living, sentences, calls, fatal>>

\* destruct_environment_of, for the first object inside
AskMaster ==
  /\ Waits("destruct") /\ Top.at = "loop" /\ contains[Top.ob] # Null
  /\ command_giver' = command_giver
  /\ Call(Below, [Top EXCEPT !.at = "master", !.inside = Head(contains[Top.ob])], NoObject)
  /\ UNCHANGED <<tree, living, sentences, command_modification, calls, taken, fatal>>

\* Mutant: what the master moved out is destructed all the same.
MasterDoneBlindly ==
  /\ Waits("destruct") /\ Top.at = "master"
  /\ command_modification' = TRUE
  /\ stack' = Append(Below, [Top EXCEPT !.at = "loop", !.inside = NoObject])
                \o <<DestructFrame(Top.inside)>>
  /\ UNCHANGED <<tree, living, sentences, regs, calls, taken, fatal>>

MasterDone ==
  /\ Waits("destruct") /\ Top.at = "master"
  /\ LET inside == Top.inside
         misuse == Misuse(super[inside] = Top.ob /\ BeingDestructed(inside), "destruct_twice")
                   \cup Misuse(super[inside] = Top.ob /\ ~ InitLeavesAlone(inside),
                               "init_moves_other")
         frame  == [Top EXCEPT !.at = "loop", !.inside = NoObject]
     IN /\ misuse \subseteq Liberties /\ taken' = taken \cup misuse
        /\ IF super[inside] = Top.ob
           THEN /\ command_modification' = TRUE
                /\ stack' = Append(Below, frame) \o
                     (IF life[inside] = "destructed" THEN <<>> ELSE <<DestructFrame(inside)>>)
           ELSE stack' = Append(Below, frame) /\ UNCHANGED command_modification
  /\ UNCHANGED <<tree, living, sentences, regs, calls, fatal>>

\* Mutant: what the object added to its neighbours stays.
DestructDoneKeeping ==
  /\ Waits("destruct") /\ Top.at = "loop" /\ contains[Top.ob] = Null
  /\ LET o == Top.ob
     IN /\ life[o] # "destructed"
        /\ life' = [life EXCEPT ![o] = "destructed"]
        /\ super' = [super EXCEPT ![o] = NoObject]
        /\ contains' = IF super[o] = NoObject THEN contains
                       ELSE [contains EXCEPT ![super[o]] = Without(@, o)]
        /\ sentences' = [sentences EXCEPT ![o] = Null]
        /\ living' = living \ {o}
        /\ command_giver' = IF o = command_giver THEN NoObject ELSE command_giver
        /\ stack' = Marked(Below, sentences')
        /\ UNCHANGED fatal
  /\ UNCHANGED <<current_object, command_modification, calls, taken>>

\* Mutant: what is inside is only put out.
DestructDoneSpills ==
  /\ Waits("destruct") /\ Top.at = "loop" /\ life[Top.ob] # "destructed"
  /\ LET o == Top.ob
     IN /\ life' = [life EXCEPT ![o] = "destructed"]
        /\ super' = [p \in Objects |-> IF p = o \/ super[p] = o THEN NoObject ELSE super[p]]
        /\ contains' = [p \in Objects |->
             IF p = o THEN Null
             ELSE IF p = super[o] THEN Without(contains[p], o) ELSE contains[p]]
        /\ sentences' = RemovedFromOthers(o)
        /\ living' = living \ {o}
        /\ stack' = Marked(Below, sentences')
  /\ UNCHANGED <<regs, command_modification, calls, taken, fatal>>

DestructDone ==
  /\ Waits("destruct") /\ Top.at = "loop" /\ contains[Top.ob] = Null
  /\ LET o == Top.ob
     IN IF life[o] = "destructed"
        THEN fatal' = "Failed to delete object" /\ UNCHANGED <<tree, living, sentences, command_giver, stack>>
        ELSE /\ life' = [life EXCEPT ![o] = "destructed"]
             /\ super' = [super EXCEPT ![o] = NoObject]
             /\ contains' = IF super[o] = NoObject THEN contains
                            ELSE [contains EXCEPT ![super[o]] = Without(@, o)]
             /\ sentences' = RemovedFromOthers(o)
             /\ living' = living \ {o}
             /\ command_giver' = IF o = command_giver THEN NoObject ELSE command_giver
             /\ stack' = Marked(Below, sentences')
             /\ UNCHANGED fatal
  /\ UNCHANGED <<current_object, command_modification, calls, taken>>

-----------------------------------------------------------------------------
(* player_parser                                                           *)

CommandsCaught ==
  \E i, j \in DOMAIN stack : i < j /\ stack[i].kind = "parse" /\ stack[j].kind = "catch"

\* parse_command, on the stack s: nothing to do without a table
Parse(s, p) ==
  IF sentences[p] = Null THEN stack' = s /\ UNCHANGED command_giver
  ELSE /\ command_giver' = p
       /\ stack' = Append(s, [kind |-> "parse", ob |-> p, e |-> 1, answer |-> "none",
                              save |-> command_giver, dangling |-> FALSE])

\* Another object is asked by query_valid_force first.
Command(o, p) ==
  /\ Operation(o, Misuse(CommandsCaught, "caught_command"))
  /\ life[p] = "live"
  /\ IF o = p THEN sentences[p] # Null /\ Parse(stack, p) /\ UNCHANGED current_object
     ELSE command_giver' = command_giver /\ Call(stack, [kind |-> "force", ob |-> p], p)
  /\ UNCHANGED <<tree, living, sentences, command_modification, fatal>>

ForceDone ==
  /\ Waits("force")
  /\ \/ stack' = Below /\ UNCHANGED command_giver
     \/ life[Top.ob] = "live" /\ Parse(Below, Top.ob)
  /\ UNCHANGED <<tree, living, sentences, current_object, command_modification,
                 calls, taken, fatal>>

\* The sentences of destructed objects up to slot e are freed on the way.
Freed(s, first, e) ==
  [i \in DOMAIN s |-> IF i \in first .. e /\ s[i] # Empty /\ life[s[i].function] = "destructed"
                      THEN Empty ELSE s[i]]

\* Slot e, which o filled, is the next whose pattern matches the command.
ParseMatch(o, e) ==
  /\ Waits("parse") /\ Top.answer = "none" /\ ~ Top.dangling
  /\ e \in Top.e .. Len(sentences[Top.ob])
  /\ sentences[Top.ob][e].function = o /\ life[o] # "destructed"
  /\ sentences' = [sentences EXCEPT ![Top.ob] = Freed(@, Top.e, e)]
  /\ command_modification' = FALSE
  /\ command_giver' = command_giver
  /\ Call(Below, [Top EXCEPT !.e = e], o)
  /\ UNCHANGED <<tree, living, calls, taken, fatal>>

ParseEnd ==
  /\ Waits("parse") /\ Top.answer = "none" /\ ~ Top.dangling
  /\ sentences' = [sentences EXCEPT ![Top.ob] = Freed(@, Top.e, Len(@))]
  /\ command_modification' = TRUE
  /\ command_giver' = Top.save /\ stack' = Below
  /\ UNCHANGED <<tree, living, current_object, calls, taken, fatal>>

\* Mutant: the flag is not looked at.
ParseGoesOn ==
  /\ Waits("parse") /\ Top.answer = "zero"
  /\ stack' = Append(Below, [Top EXCEPT !.e = @ + 1, !.answer = "none"])
  /\ UNCHANGED <<regs, tree, living, sentences, command_modification, calls, taken, fatal>>

\* Mutant: one slot too many is passed.
ParseZeroSkips ==
  /\ Waits("parse") /\ Top.answer = "zero"
  /\ IF command_modification THEN Error
     ELSE /\ stack' = Append(Below, [Top EXCEPT !.e = @ + 2, !.answer = "none"])
          /\ UNCHANGED regs
  /\ UNCHANGED <<tree, living, sentences, command_modification, calls, taken, fatal>>

ParseZero ==
  /\ Waits("parse") /\ Top.answer = "zero"
  /\ IF command_modification THEN Error
     ELSE /\ stack' = Append(Below, [Top EXCEPT !.e = @ + 1, !.answer = "none"])
          /\ UNCHANGED regs
  /\ UNCHANGED <<tree, living, sentences, command_modification, calls, taken, fatal>>

ParseTrue ==
  /\ Waits("parse") /\ Top.answer = "true"
  /\ command_modification' = TRUE
  /\ command_giver' = Top.save /\ stack' = Below
  /\ UNCHANGED <<tree, living, sentences, current_object, calls, taken, fatal>>

-----------------------------------------------------------------------------
(* The main loop                                                           *)

Seqs(S) == UNION {[1 .. n -> S] : n \in 0 .. Cardinality(S) - 1}

WellFormed ==
  \A o \in Objects :
    /\ super[o] # NoObject => life[o] = "live" /\ life[super[o]] = "live"
    /\ IsInjective(contains[o])
    /\ Range(contains[o]) = {p \in Objects : super[p] = o}

\* No set of objects is closed under going one step out.
NoCycle == \A S \in SUBSET Objects : S # {} => \E o \in S : super[o] \notin S

Init ==
  /\ life \in [Objects -> {"none", "live"}]
  /\ super \in [Objects -> Objects \cup {NoObject}] /\ NoCycle
  /\ contains \in [Objects -> Seqs(Objects)] /\ WellFormed
  /\ living \in SUBSET {o \in Objects : life[o] = "live"}
  /\ sentences = [o \in Objects |-> Null]
  /\ command_giver = NoObject /\ current_object = NoObject
  /\ command_modification = FALSE
  /\ stack = <<>> /\ calls = Budget[Cardinality({o \in Objects : life[o] = "live"})] /\ fatal = "none" /\ taken = {}

\* A heart beat, a call out or input for o.
Turn(o) ==
  /\ stack = <<>> /\ fatal = "none" /\ calls > 0 /\ life[o] = "live"
  /\ stack' = <<[kind |-> "call", ob |-> NoObject, comgiver |-> NoObject]>>
  /\ current_object' = o
  /\ command_giver' \in {NoObject} \cup ({o} \cap living)
  /\ UNCHANGED <<tree, living, sentences, command_modification, calls, taken, fatal>>

\* destruct2, and the memory is free again (use of freed memory is not modelled)
Forget(o) ==
  /\ stack = <<>> /\ fatal = "none" /\ life[o] = "destructed" /\ super[o] = NoObject
  /\ \A p \in Objects : \A e \in DOMAIN sentences[p] : sentences[p][e].function # o
  /\ life' = [life EXCEPT ![o] = "none"]
  /\ UNCHANGED <<super, contains, living, sentences, regs, command_modification, stack,
                 calls, taken, fatal>>

\* The driver waits, or has ended, or reads a table that was freed.
Idle ==
  /\ fatal # "none" \/ stack = <<>> \/ (Waits("parse") /\ Top.dangling)
  /\ UNCHANGED vars

Lpc ==
  \/ \E o \in Objects : EnableCommands(o) \/ DisableCommands(o)
  \/ \E o \in Objects \cup {NoObject} : Catch(o)
  \/ \E o \in Objects, pri \in Priorities : AddAction(o, pri)
  \/ \E o \in Objects \cup {NoObject}, p \in Objects : CallOther(o, p)
  \/ \E o, p \in Objects :
       \/ SetThisPlayer(o, p) \/ MoveObject(o, p) \/ Destruct(o, p)
       \/ Command(o, p) \/ QueryActions(o, p) \/ Clone(o, p)
  \/ Return \/ Throw

Driver ==
  \/ MoveOn \/ InitDestDone \/ InitLoop \/ InitItemDone \/ InitOtherDone \/ InitLastDone
  \/ PermitDone \/ AskMaster \/ MasterDone \/ DestructDone
  \/ \E o \in Objects, e \in 1 .. MaxSlots : ParseMatch(o, e)
  \/ ForceDone \/ ParseEnd \/ ParseZero \/ ParseTrue

Next == Lpc \/ Driver \/ (\E o \in Objects : Turn(o) \/ Forget(o)) \/ Idle

Spec == Init /\ [][Next]_vars

-----------------------------------------------------------------------------
(* Properties                                                              *)

LpcFrame == [kind : {"call", "catch"}, ob : Objects \cup {NoObject},
             comgiver : Objects \cup {NoObject}]

TreeTypes ==
  /\ life \in [Objects -> {"none", "live", "destructed"}]
  /\ super \in [Objects -> Objects \cup {NoObject}]
  /\ contains \in [Objects -> Seq(Objects)]

TypeOK ==
  /\ living \subseteq Objects
  /\ \A o \in Objects : sentences[o] \in Seq(Sentence)
  /\ command_giver \in Objects \cup {NoObject}
  /\ current_object \in Objects \cup {NoObject}
  /\ command_modification \in BOOLEAN
  /\ calls \in Nat /\ taken \subseteq Liberties
  /\ \A i \in DOMAIN stack :
       LET f == stack[i]
       IN \/ f \in LpcFrame
          \/ f.kind = "exit" /\ {f.item, f.dest} \subseteq Objects
          \/ f.kind = "init" /\ {f.item, f.dest} \subseteq Objects /\ f.left \subseteq Objects
          \/ f.kind \in {"destruct", "permit", "force"} /\ f.ob \in Objects
          \/ f.kind = "parse" /\ (f.dangling \/ f.e \in 1 .. Len(sentences[f.ob]) + 1)

\* Objects form a forest, and the inventories are the same forest from above,
\* whatever exit(), init(), the master and the functions of verbs do while
\* move_object and destruct_object are halfway.  "Recursive moves are not
\* allowed" (simulate.c 1455), but dest is compared only before exit() runs.
Forest ==
  /\ "move_destructed" \notin taken => WellFormed
  /\ taken \cap {"move_destructed", "exit_moves_room"} = {} => NoCycle

\* A living object has commands only from objects that are present: add_action
\* demands it, and move_object and destruct_object take back what has gone.
SentencesPresent ==
  taken \cap {"add_to_disabled", "add_in_void", "move_destructed"} = {} =>
    \A p \in living : \A e \in DOMAIN sentences[p] :
      sentences[p][e] # Empty => Present(sentences[p][e].function, p)

\* player_parser tries sentences of higher priority first: the slots stay
\* sorted through shifting, holes, growing and halving.
SentencesSorted ==
  \A p \in Objects : \A i, j \in DOMAIN sentences[p] :
    (i < j /\ Empty \notin {sentences[p][i], sentences[p][j]})
      => sentences[p][i].pri >= sentences[p][j].pri

\* player_parser keeps a pointer to the table while the function of a verb
\* runs; it goes on only when command_modification shows the table as it was.
WalksLiveTable ==
  (Waits("parse") /\ Top.answer = "none" /\ Top.dangling)
    => taken \cap {"disable_other", "caught_command"} # {}

\* Neither fatal() of these functions is reached.
NoFatal == fatal # "none" => taken \cap {"destruct_twice", "move_destructed"} # {}

\* "Run init of the item once for every present player" (simulate.c 1529): the
\* walk of move_object, which reads the next pointer before it calls init(),
\* comes to every neighbour that stays.
NobodyPassedOver ==
  (Waits("init") /\ Top.at = "loop" /\ Top.ob = NoObject /\ super[Top.item] = Top.dest)
    => \/ Top.left \cap Range(contains[Top.dest]) = {}
       \/ taken \cap {"init_moves_other", "move_destructed"} # {}

\* init() is called only between objects that are present to each other.
Meets ==
  /\ Len(stack') > 1 /\ Len(stack') > Len(stack)
  /\ stack'[Len(stack') - 1].kind = "init"
InitMeetsPresent ==
  [][Meets => \/ (Present(current_object, command_giver))'
              \/ taken \cap {"init_moves_other", "move_destructed"} # {}]_vars

\* What the three functions promise, of the state between their steps: the
\* refinement of Containment, without the liberties that break the forest.
Box == INSTANCE Containment
         WITH exists <- {o \in Objects : life[o] = "live"}, place <- super
ImplementsContainment == Box!CSpec

\* Inventories are one forest from above and from below, and no path through
\* LPC code reaches a fatal() of move_object or destruct_object.
InventoriesSound == TreeTypes /\ Forest /\ NoFatal

\* The tables of commands through moves, destruction and their own commands.
SentencesSound == TypeOK /\ SentencesPresent /\ SentencesSorted /\ WalksLiveTable

\* init() is called for every neighbour that stays, and for nobody else.
InitMeetsAll == []NobodyPassedOver /\ InitMeetsPresent
=============================================================================
