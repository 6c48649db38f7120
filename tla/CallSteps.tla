------------------------------ MODULE CallSteps ------------------------------
(***************************************************************************)
(* The vocabulary in which the modules CudaCalls, LibraryCalls and         *)
(* VendorCalls write down the operations of the wrappers around the        *)
(* vendors' C interfaces.  An operation is the sequence of the steps that  *)
(* matter to what the driver holds for the program: which object a step    *)
(* makes or destroys, whether the step may fail, what the error path       *)
(* releases before it returns, and whether the step reads the calling      *)
(* thread's current context.  CallSequences runs these sequences.          *)
(***************************************************************************)
LOCAL Step(do, what, undo) == [do |-> do, what |-> what, undo |-> undo]

(* A fallible step that creates nothing: a library to find, an argument to *)
(* check, a call whose error returns at once (the ? of the source).        *)
Call == Step("call", "", {})

(* The same, in the current context of the thread.                         *)
CallHere == Step("call here", "", {})

(* A call whose error path releases what is in undo before it returns.     *)
CallElse(undo) == Step("call", "", undo)

(* The device's context becomes the thread's current one, or the operation *)
(* returns an error.                                                       *)
Bind == Step("bind", "", {})

(* The same, of which an error is ignored.                                 *)
TryBind == Step("try bind", "", {})

(* The context of another device becomes current.                          *)
BindOther == Step("bind other", "", {})

(* A call that makes an object (MakeHere: in the thread's current          *)
(* context).  Nothing but the operation's code releases it yet.            *)
Make(what) == Step("make", what, {})
MakeHere(what) == Step("make here", what, {})
MakeElse(what, undo) == Step("make", what, undo)
MakeHereElse(what, undo) == Step("make here", what, undo)

(* The object moves into a local value whose Drop releases it, whichever   *)
(* way the operation returns.                                              *)
Own(what) == Step("own", what, {})

(* An explicit release, its result ignored; the driver's object is gone.   *)
Free(what) == Step("free", what, {})

(* mem::forget, or the flag that disarms the value's Drop.                 *)
Forget(what) == Step("forget", what, {})

(***************************************************************************)
(* An operation is called on a value of type on ("none": on nothing) and   *)
(* gives a value of type gives ("nothing": it returns no object).  takes   *)
(* holds the objects of the value it is called on when it consumes that    *)
(* value.                                                                  *)
(***************************************************************************)
New(on, gives, steps) ==
    [on |-> on, gives |-> gives, takes |-> {}, steps |-> steps]

Use(on, steps) == New(on, "nothing", steps)

Turn(on, takes, gives, steps) ==
    [on |-> on, gives |-> gives, takes |-> takes, steps |-> steps]

(***************************************************************************)
(* A struct of the source: whether a field of it keeps the value it was    *)
(* made on alive (an Arc, or a borrow the compiler checks), and the        *)
(* objects its Drop releases.                                              *)
(***************************************************************************)
Struct(keeps, drops) == [keeps |-> keeps, drops |-> drops]

==============================================================================
