------------------------------ MODULE IndirCache ------------------------------
(***************************************************************************)
(* What op_commarg() (sr_port/op_commarg.c) promises its caller, without  *)
(* string pools, addresses or the compiler: an indirect argument, given   *)
(* as its indirection code and text, either runs the object code compiled *)
(* from exactly that code and text, or returns without running anything   *)
(* (the DO fast path, an empty argument, a compile error).  The cache is  *)
(* seen as the set of code/text pairs it holds object code for; it only   *)
(* ever gains the pair being run, and an entry never changes its text.    *)
(***************************************************************************)
CONSTANTS
    ArgCodes,       \* indirection codes
    Texts           \* argument texts

Args == [code : ArgCodes, text : Texts]

None == [code |-> "none", text |-> "none"]

VARIABLES
    apc,            \* "idle", "busy" (op_commarg() called), "run" (comp_indr()), "done"
    arg,            \* the argument of the current call
    known,          \* the code/text pairs the cache holds object code for
    ran             \* what the code being run was compiled from, or None

vars == <<apc, arg, known, ran>>

Init ==
    /\ apc = "idle"
    /\ arg \in Args
    /\ known = {}
    /\ ran = None

(* Lines 49-52: the caller passes an argument.                            *)
Call ==
    /\ apc = "idle"
    /\ arg' \in Args
    /\ apc' = "busy"
    /\ UNCHANGED <<known, ran>>

(* Lines 53, 99-104: the object code of the argument is found in the      *)
(* cache, or compiled and put there, and is run.                          *)
Run ==
    /\ apc = "busy"
    /\ known' = known \cup {arg}
    /\ ran' = arg
    /\ apc' = "run"
    /\ UNCHANGED arg

(* Lines 60-62, 76-77 and 99-100, or an rts_error: nothing is run and     *)
(* nothing is cached.                                                     *)
Skip ==
    /\ apc = "busy"
    /\ apc' = "done"
    /\ UNCHANGED <<arg, known, ran>>

(* comp_indr() returns.                                                   *)
Ran ==
    /\ apc = "run"
    /\ ran' = None
    /\ apc' = "done"
    /\ UNCHANGED <<arg, known>>

(* Back in the caller.                                                    *)
Return ==
    /\ apc = "done"
    /\ apc' = "idle"
    /\ UNCHANGED <<arg, known, ran>>

Next == Call \/ Run \/ Skip \/ Ran \/ Return

Spec == Init /\ [][Next]_vars
=============================================================================
