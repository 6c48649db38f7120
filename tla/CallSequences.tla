--------------------------- MODULE CallSequences ---------------------------
(***************************************************************************)
(* Runs the operations of the three tables one after another, each of      *)
(* their fallible steps failing or not, from threads with any current      *)
(* context, on values that the caller makes in a line - a device, a        *)
(* stream of it, a plan on the stream - and drops in any order, also while *)
(* an operation runs on the last of them.                                  *)
(***************************************************************************)
EXTENDS Naturals, Sequences, SequencesExt

CONSTANTS
    Ops,       \* name of an operation -> its record (New, Use, Turn)
    Types,     \* name of a type -> its Struct
    Leaky,     \* the operations that lose an object, or release one twice, on a path
    Unbound,   \* the operations that rely on the context the caller left
    Orphans    \* the types whose values do not keep what they need alive

VARIABLES
    line,      \* the caller's values, each made on the one before it
    current,   \* whose context the calling thread has: of the line's device
               \* ("own"), of another one, or none
    run        \* the operation in progress, or what the last one left

callVars == <<line, current, run>>

Contexts == {"none", "own", "other"}

(* No operation yet, so none that lost anything.                           *)
Fresh == [op |-> "", at |-> 0, live |-> {}, own |-> {}, away |-> FALSE,
          lost |-> {}, twice |-> {}]

Resources == UNION {{o.steps[k].what : k \in DOMAIN o.steps} :
                        o \in {Ops[n] : n \in DOMAIN Ops}}

(* What an operation takes, releases or gives is in the tables too; one    *)
(* that takes its value gives another.                                     *)
ASSUME CallSequencesAssumption ==
    /\ \A n \in DOMAIN Ops :
        /\ Ops[n].gives \in DOMAIN Types \cup {"nothing"}
        /\ Ops[n].takes \subseteq Resources
        /\ Ops[n].takes # {} => Ops[n].on # "none" /\ Ops[n].gives # "nothing"
        /\ DOMAIN Ops[n].steps = 1..Len(Ops[n].steps) /\ Len(Ops[n].steps) \in Nat
        /\ \A k \in 1..Len(Ops[n].steps) : Ops[n].steps[k].undo \subseteq Resources
    /\ \A t \in DOMAIN Types :
        Types[t].keeps \in BOOLEAN /\ Types[t].drops \subseteq Resources

Idle == run.at = 0

(* at = 0 between two operations; away: a step read a context that was not *)
(* the device's; lost, twice: objects nobody will release, or that are     *)
(* released once more than they were made.                                 *)
CallsTypeOK ==
    /\ line \in Seq([type : DOMAIN Types, held : BOOLEAN, alive : BOOLEAN])
    /\ current \in Contexts
    /\ run \in [op : DOMAIN Ops \cup {""}, at : Nat,
                 live : SUBSET Resources, own : SUBSET Resources,
                 away : BOOLEAN,
                 lost : SUBSET Resources, twice : SUBSET Resources]
    /\ run.live \cup run.own # {} => run.at > 0
    /\ Idle /\ line # <<>> => Last(line).alive /\ Last(line).held

CallsInit ==
    /\ line = <<>>
    /\ current = "none"
    /\ run = Fresh

----------------------------------------------------------------------------
Drops(type) == IF type = "nothing" THEN {} ELSE Types[type].drops

(* A value lives while the caller holds it, or a living value made on it   *)
(* keeps it.                                                               *)
Lives(l, k) ==
    \E j \in k..Len(l) :
        /\ l[j].held
        /\ \A i \in k..j : l[i].alive
        /\ \A i \in (k + 1)..j : Types[l[i].type].keeps

Settle(l) ==
    LET left == {k \in 1..Len(l) : Lives(l, k)}
    IN  [k \in 1..(IF left = {} THEN 0 ELSE Max(left)) |->
            [l[k] EXCEPT !.alive = Lives(l, k)]]

(* The context of a device that is gone is nobody's own.                   *)
Left(l) == IF current = "own" /\ (l = <<>> \/ ~l[1].alive)
           THEN "other" ELSE current

----------------------------------------------------------------------------
(* The caller goes on, on a thread that has some context current.          *)
OtherThread ==
    /\ Idle
    /\ \E c \in Contexts :
        /\ c = "own" => line # <<>> /\ line[1].alive
        /\ current' = c
    /\ UNCHANGED <<line, run>>

(* Dropping the caller's handle to a value; what nobody keeps is           *)
(* destroyed.  The running operation borrows the last value of the line,   *)
(* or has taken it.                                                        *)
DropValue(k) ==
    /\ line[k].held
    /\ Idle \/ (Ops[run.op].takes = {} /\ k < Len(line))
    /\ line' = Settle([line EXCEPT ![k].held = FALSE])
    /\ current' = Left(line')
    /\ UNCHANGED run

(* An operation that takes its value makes the next one beside it.         *)
Begin(op) ==
    /\ Idle
    /\ Ops[op].takes # {} => Len(line) > 1 /\ line[Len(line) - 1].alive
    /\ IF Ops[op].on = "none" THEN line = <<>>
       ELSE line # <<>> /\ Last(line).type = Ops[op].on
    /\ line' = IF Ops[op].takes = {} THEN line ELSE Front(line)
    /\ run' = [Fresh EXCEPT !.op = op, !.at = 1,
                             !.live = Ops[op].takes, !.own = Ops[op].takes]
    /\ UNCHANGED current

Here == Ops[run.op].steps[run.at]

Reads(step) == step.do \in {"call here", "make here"}

(* A step succeeds.                                                        *)
Proceed ==
    /\ ~Idle
    /\ run.at \in DOMAIN Ops[run.op].steps
    /\ current' \in CASE Here.do = "bind" -> {"own"}
                      [] Here.do = "try bind" -> {"own", current}
                      [] Here.do = "bind other" -> {"other"}
                      [] OTHER -> {current}
    /\ run' = [run EXCEPT
            !.at = @ + 1,
            !.live = CASE Here.do \in {"make", "make here"} -> @ \cup {Here.what}
                       [] Here.do = "free" -> @ \ {Here.what}
                       [] OTHER -> @,
            !.own = CASE Here.do = "own" -> @ \cup {Here.what}
                      [] Here.do = "forget" -> @ \ {Here.what}
                      [] OTHER -> @,
            !.away = @ \/ (Reads(Here) /\ current # "own")]
    /\ UNCHANGED line

(* What remains when an operation returns and releases the given objects.  *)
Return(released) ==
    [Fresh EXCEPT !.op = run.op, !.away = run.away,
                  !.lost = run.live \ released,
                  !.twice = released \ run.live]

(* A step fails, and the operation returns its error: its local values are *)
(* dropped, and what the error path names is released.                     *)
Fail ==
    /\ ~Idle
    /\ run.at \in DOMAIN Ops[run.op].steps
    /\ Here.do \in {"call", "call here", "make", "make here", "bind", "bind other"}
    /\ run' = [Return(run.own \cup Here.undo) EXCEPT
                    !.away = @ \/ (Reads(Here) /\ current # "own")]
    /\ line' = Settle(line)
    /\ current' = Left(line')

(* The operation returns its value, which owns what the Drop of its type   *)
(* releases.                                                               *)
Finish ==
    LET gives == Ops[run.op].gives
    IN  /\ ~Idle
        /\ run.at \notin DOMAIN Ops[run.op].steps
        /\ line' = IF gives = "nothing" THEN line
                   ELSE Settle(Append(line, [type |-> gives, held |-> TRUE, alive |-> TRUE]))
        /\ current' = Left(line')
        /\ run' = Return(run.own \cup Drops(gives))

CallsNext ==
    \/ OtherThread
    \/ \E k \in 1..Len(line) : DropValue(k)
    \/ \E op \in DOMAIN Ops : Begin(op)
    \/ Proceed
    \/ Fail
    \/ Finish

CallsSpec == CallsInit /\ [][CallsNext]_callVars

----------------------------------------------------------------------------
(* Whichever step of it fails, an operation leaves no object behind that   *)
(* nobody will release, except the operations in Leaky, and none releases  *)
(* an object twice: what it made is released on its error path, by a local *)
(* value, or belongs to the value it returns.                              *)
NothingLost ==
    /\ run.lost # {} => run.op \in Leaky
    /\ run.twice # {} => run.op \in Leaky

(* A step that works in the thread's current context finds the context of  *)
(* its own device there, whichever devices the thread worked with before,  *)
(* unless the operation is one that leaves binding to its caller.          *)
AtHome == run.away => run.op \in Unbound

(* Whatever the order in which the caller drops its handles, a value does  *)
(* not outlive what the driver needs for it (its context, its library      *)
(* handle, its device), except the types in Orphans.                       *)
NoOrphan ==
    \A k \in 2..Len(line) :
        line[k].alive => line[k - 1].alive \/ line[k].type \in Orphans

----------------------------------------------------------------------------
(* What the tables alone say, an operation or a type at a time; the three  *)
(* properties rest on it.                                                  *)

(* A value made on another keeps that one, unless its type is in Orphans.  *)
KeptOrOrphan ==
    \A n \in DOMAIN Ops :
        Ops[n].on # "none" /\ Ops[n].gives \in DOMAIN Types =>
            Types[Ops[n].gives].keeps \/ Ops[n].gives \in Orphans

(* What an operation has made and not yet released, and what its local     *)
(* values would release, after its first i steps.                          *)
Makes(s, r) == s.do \in {"make", "make here"} /\ s.what = r
Frees(s, r) == s.do = "free" /\ s.what = r
Owns(s, r) == s.do = "own" /\ s.what = r
Forgets(s, r) == s.do = "forget" /\ s.what = r

IsLive(o, i, r) ==
    \/ r \in o.takes /\ \A m \in 1 .. i : ~Frees(o.steps[m], r)
    \/ \E k \in 1 .. i : /\ Makes(o.steps[k], r)
                         /\ \A m \in (k + 1) .. i : ~Frees(o.steps[m], r)

IsOwned(o, i, r) ==
    \/ r \in o.takes /\ \A m \in 1 .. i : ~Forgets(o.steps[m], r)
    \/ \E k \in 1 .. i : /\ Owns(o.steps[k], r)
                         /\ \A m \in (k + 1) .. i : ~Forgets(o.steps[m], r)

LiveAfter(o, i) == {r \in Resources : IsLive(o, i, r)}
OwnedAfter(o, i) == {r \in Resources : IsOwned(o, i, r)}

Fallible(s) == s.do \in {"call", "call here", "make", "make here", "bind", "bind other"}

(* Each error path of the operation, and its return, release exactly the   *)
(* objects that it has by then.                                            *)
Tidy(o) ==
    /\ \A i \in 1 .. Len(o.steps) :
         Fallible(o.steps[i]) =>
           LiveAfter(o, i - 1) = OwnedAfter(o, i - 1) \cup o.steps[i].undo
    /\ LiveAfter(o, Len(o.steps)) = OwnedAfter(o, Len(o.steps)) \cup Drops(o.gives)

(* The types in R keep, one through another, the device at the root of     *)
(* their line.                                                             *)
KeepTheRoot(R) ==
    \A n \in DOMAIN Ops :
        Ops[n].gives \in R =>
          Ops[n].on = "none" \/ (Ops[n].on \in R /\ Types[Ops[n].gives].keeps)

BoundAt(o, i) ==
    \E k \in 1 .. (i - 1) : /\ o.steps[k].do = "bind"
                            /\ \A m \in (k + 1) .. (i - 1) : o.steps[m].do # "bind other"

(* An operation that reads the thread's context is on a type in R, has     *)
(* bound its device before and has bound no other since.                   *)
BindsFirst(o, R) ==
    \A i \in 1 .. Len(o.steps) :
        Reads(o.steps[i]) => BoundAt(o, i) /\ o.on \in R \cup {"none"}

BindFirst(R) == \A n \in DOMAIN Ops \ Unbound : BindsFirst(Ops[n], R)

============================================================================
