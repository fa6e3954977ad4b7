----------------------------- MODULE IndirCompile -----------------------------
(***************************************************************************)
(* op_commarg() (sr_port/op_commarg.c) and comp_fini()                    *)
(* (sr_port/comp_fini.c): run an indirect command argument, from the      *)
(* indirection cache when its object code is there, else by compiling it *)
(* with the compiler's string pool switched in and caching the result.    *)
(*                                                                         *)
(* Strings live at addresses of a string pool: heap maps an address to    *)
(* the text stored there or "free".  The garbage collector in comp_fini   *)
(* (stp_gcol) may move the argument's text; the cache keys are GC roots   *)
(* and stay where they are.  A cache entry is looked up by comparing the  *)
(* text at its key's address with the argument's text, as the hash table  *)
(* compares icode_str keys.  comp_init(), do_indir_do(), resolve_ref(),   *)
(* ind_code() and the condition handler's cleanup are not in the sources  *)
(* and are modelled by their effect on this state; alloc_reg()'s          *)
(* ERR_TMPSTOREMAX is one of the errors the compile can raise.            *)
(***************************************************************************)
EXTENDS Naturals, FiniteSets

CONSTANTS
    Addrs,          \* string pool addresses
    Texts,          \* argument texts; "" is the empty string
    ArgCodes,       \* indirection codes: "indir_do", "indir_xecute", "indir_linetail"
    MaxCalls,       \* bound on op_commarg() calls in a behaviour
    MaxArgs         \* bound on the comma-separated arguments of one compile

\* Codes whose empty argument returns at once (lines 64-77), and the DO/GOTO fast path.
EmptyReturns == {"indir_xecute"}
DoCodes      == {"indir_do"}

NoObj == [text |-> "none", code |-> "none"]

VARIABLES
    pc,             \* where op_commarg() / comp_fini() is
    argcode,
    v,              \* the argument mval: its string's address and text
    key,            \* indir_src.str.addr
    heap,           \* address -> text or "free"
    cache,          \* set of [code, addr, obj]: the indirection cache
    obj,            \* object code found or compiled: what it was compiled from
    rval,           \* result of the last indir_fcn[argcode]() call
    stringpool,     \* "rts" or "indr": which pool stringpool currently is
    compile_time,
    frame_count,    \* frame_pointer->type & SFT_COUNT
    args,           \* arguments parsed in this compile
    calls

vars == <<pc, argcode, v, key, heap, cache, obj, rval, stringpool, compile_time,
          frame_count, args, calls>>

Init ==
    /\ pc = "idle"
    /\ argcode = CHOOSE c \in ArgCodes : TRUE
    /\ v = [addr |-> CHOOSE a \in Addrs : TRUE, text |-> ""]
    /\ key = v.addr
    /\ heap = [a \in Addrs |-> "free"]
    /\ cache = {}
    /\ obj = NoObj
    /\ rval = FALSE
    /\ stringpool = "rts"
    /\ compile_time = FALSE
    /\ frame_count \in BOOLEAN
    /\ args = 0
    /\ calls = 0

Free == {a \in Addrs : heap[a] = "free"}

(* The caller builds the argument string and calls op_commarg();          *)
(* indir_src takes its address and the code (lines 49-52).                *)
Call ==
    /\ pc = "idle"
    /\ calls < MaxCalls
    /\ \E c \in ArgCodes, t \in Texts, a \in Free :
          /\ argcode' = c
          /\ v' = [addr |-> a, text |-> t]
          /\ heap' = [heap EXCEPT ![a] = t]
          /\ key' = a
    /\ calls' = calls + 1
    /\ pc' = "lookup"
    /\ UNCHANGED <<cache, obj, rval, stringpool, compile_time, frame_count, args>>

Matches(e) == e.code = argcode /\ heap[e.addr] = v.text

(* cache_get() finds compiled code.                                       *)
Hit ==
    /\ pc = "lookup"
    /\ \E e \in cache : Matches(e) /\ obj' = e.obj
    /\ pc' = "exec"
    /\ UNCHANGED <<argcode, v, key, heap, cache, rval, stringpool, compile_time,
                   frame_count, args, calls>>

Miss == pc = "lookup" /\ ~\E e \in cache : Matches(e)

(* Lines 58-62: a DO/GOTO of a plain label from a counted frame is done   *)
(* by do_indir_do() without compiling.                                    *)
DoFast ==
    /\ Miss
    /\ argcode \in DoCodes /\ frame_count /\ v.text # ""
    /\ pc' = "return"
    /\ UNCHANGED <<argcode, v, key, heap, cache, obj, rval, stringpool, compile_time,
                   frame_count, args, calls>>

(* Lines 64-77: an empty argument of XECUTE and the like does nothing.    *)
EmptyArg ==
    /\ Miss
    /\ argcode \in EmptyReturns /\ v.text = ""
    /\ pc' = "return"
    /\ UNCHANGED <<argcode, v, key, heap, cache, obj, rval, stringpool, compile_time,
                   frame_count, args, calls>>

(* Line 81: comp_init() switches the indirection string pool in.          *)
CompInit ==
    /\ Miss
    /\ argcode \in DoCodes => ~(frame_count /\ v.text # "")
    /\ argcode \in EmptyReturns => v.text # ""
    /\ stringpool' = "indr"
    /\ compile_time' = TRUE
    /\ args' = 0
    /\ pc' = "parse"
    /\ UNCHANGED <<argcode, v, key, heap, cache, obj, rval, frame_count, calls>>

(* Lines 82-98: one argument is compiled; the token after it ends the     *)
(* loop (EOL, after optional trailing spaces), continues it (comma), or   *)
(* raises ERR_INDEXTRACHARS.                                              *)
Parse ==
    /\ pc = "parse"
    /\ \/ rval' = FALSE /\ pc' = "fini" /\ UNCHANGED args
       \/ rval' = TRUE /\ pc' = "fini" /\ UNCHANGED args
       \/ rval' = TRUE /\ args < MaxArgs /\ args' = args + 1 /\ UNCHANGED pc
       \/ rval' = TRUE /\ pc' = "error" /\ UNCHANGED args
    /\ UNCHANGED <<argcode, v, key, heap, cache, obj, stringpool, compile_time,
                   frame_count, calls>>

FiniFailNoSwap ==
    /\ pc = "fini" /\ ~rval
    /\ compile_time' = FALSE
    /\ pc' = "return"
    /\ UNCHANGED <<argcode, v, key, heap, cache, obj, rval, stringpool, frame_count, args, calls>>

(* comp_fini() lines 74-82 and 83-86: the failure path gives the runtime  *)
(* its string pool back; op_commarg() returns at line 100.                *)
FiniFail ==
    /\ pc = "fini" /\ ~rval
    /\ stringpool' = "rts"
    /\ compile_time' = FALSE
    /\ pc' = "return"
    /\ UNCHANGED <<argcode, v, key, heap, cache, obj, rval, frame_count, args, calls>>

(* Lines 45-64: extra characters after the argument turn status FALSE     *)
(* (stx_error, then the failure path); otherwise resolve_ref() and        *)
(* alloc_reg() run, and alloc_reg() may raise ERR_TMPSTOREMAX.            *)
FiniExtra ==
    /\ pc = "fini" /\ rval
    /\ rval' = FALSE
    /\ UNCHANGED <<pc, argcode, v, key, heap, cache, obj, stringpool, compile_time,
                   frame_count, args, calls>>

FiniResolve ==
    /\ pc = "fini" /\ rval
    /\ pc' \in {"gcol", "error"}
    /\ UNCHANGED <<argcode, v, key, heap, cache, obj, rval, stringpool, compile_time,
                   frame_count, args, calls>>

(* Lines 65-71: stp_gcol() may move the argument's text; the pools are    *)
(* swapped back, compile_time cleared, and ind_code() builds the object.  *)
FiniEmit ==
    /\ pc = "gcol"
    /\ \E b \in Free \cup {v.addr} :
          /\ v' = [v EXCEPT !.addr = b]
          /\ heap' = [heap EXCEPT ![v.addr] = "free", ![b] = v.text]
    /\ stringpool' = "rts"
    /\ compile_time' = FALSE
    /\ obj' = [text |-> v.text, code |-> argcode]
    /\ pc' = "put"
    /\ UNCHANGED <<argcode, key, cache, rval, frame_count, args, calls>>

PutStaleKey ==
    /\ pc = "put"
    /\ cache' = cache \cup {[code |-> argcode, addr |-> key, obj |-> obj]}
    /\ pc' = "exec"
    /\ UNCHANGED <<argcode, v, key, heap, obj, rval, stringpool, compile_time,
                   frame_count, args, calls>>

(* Lines 101-102: the key is re-read from v, which the collector updated, *)
(* and the object is cached under it.                                     *)
Put ==
    /\ pc = "put"
    /\ key' = v.addr
    /\ cache' = cache \cup {[code |-> argcode, addr |-> v.addr, obj |-> obj]}
    /\ pc' = "exec"
    /\ UNCHANGED <<argcode, v, heap, obj, rval, stringpool, compile_time,
                   frame_count, args, calls>>

(* Lines 104-106: comp_indr() runs the object; a line tail makes the      *)
(* frame counted.                                                          *)
Exec ==
    /\ pc = "exec"
    /\ frame_count' = (frame_count \/ argcode = "indir_linetail")
    /\ pc' = "return"
    /\ UNCHANGED <<argcode, v, key, heap, cache, obj, rval, stringpool, compile_time,
                   args, calls>>

(* An rts_error during the compile unwinds to the condition handler,      *)
(* which abandons the compile unit and gives the runtime its pool back    *)
(* when compile_time says a compile was under way.                        *)
Error ==
    /\ pc = "error"
    /\ IF compile_time THEN stringpool' = "rts" /\ compile_time' = FALSE
                       ELSE UNCHANGED <<stringpool, compile_time>>
    /\ pc' = "return"
    /\ UNCHANGED <<argcode, v, key, heap, cache, obj, rval, frame_count, args, calls>>

ReturnFreesKey ==
    /\ pc = "return"
    /\ heap' = [heap EXCEPT ![v.addr] = "free"]
    /\ obj' = NoObj
    /\ pc' = "idle"
    /\ UNCHANGED <<argcode, v, key, cache, rval, stringpool, compile_time, frame_count,
                   args, calls>>

(* Back in the caller the argument string is garbage; its space is        *)
(* reused unless a cache key holds it.                                    *)
Return ==
    /\ pc = "return"
    /\ heap' = IF \E e \in cache : e.addr = v.addr THEN heap
               ELSE [heap EXCEPT ![v.addr] = "free"]
    /\ obj' = NoObj
    /\ pc' = "idle"
    /\ UNCHANGED <<argcode, v, key, cache, rval, stringpool, compile_time, frame_count,
                   args, calls>>

Done ==
    /\ pc = "idle" /\ calls = MaxCalls
    /\ UNCHANGED vars

Next == Call \/ Hit \/ DoFast \/ EmptyArg \/ CompInit \/ Parse \/ FiniFail \/ FiniExtra
        \/ FiniResolve \/ FiniEmit \/ Put \/ Exec \/ Error \/ Return \/ Done

Spec == Init /\ [][Next]_vars

-----------------------------------------------------------------------------
(* Whenever the runtime has control (between calls, while the compiled    *)
(* code runs, and on the way back to the caller) the runtime string pool  *)
(* is in place and compile_time is off, on the success path of            *)
(* comp_fini(), its failure path and after an rts_error in the compile.   *)
PoolRestored ==
    pc \in {"idle", "exec", "return"} => stringpool = "rts" /\ ~compile_time

(* The code comp_indr() runs is the code compiled from the argument that  *)
(* op_commarg() was given, for its indirection code, even after the       *)
(* collector moved an earlier argument and its space was reused: a cache *)
(* key never points at a string other than the one it was compiled from.  *)
RunsItsOwnArgument ==
    pc = "exec" => obj = [text |-> v.text, code |-> argcode]

-----------------------------------------------------------------------------
(***************************************************************************)
(* Refinement.  The cache seen by the caller is the set of code/text      *)
(* pairs read through the cache keys; the call is busy from the lookup    *)
(* to the choice between running and returning.  Hit and Put implement    *)
(* Run; DoFast, EmptyArg, FiniFail and Error implement Skip; Exec is Ran; *)
(* CompInit, Parse, FiniExtra, FiniResolve and FiniEmit are stuttering    *)
(* steps of the abstract specification.                                   *)
(***************************************************************************)
AbsPc == CASE pc = "idle"   -> "idle"
           [] pc = "exec"   -> "run"
           [] pc = "return" -> "done"
           [] OTHER         -> "busy"

Abs == INSTANCE IndirCache WITH
    apc   <- AbsPc,
    arg   <- [code |-> argcode, text |-> v.text],
    known <- {[code |-> e.code, text |-> heap[e.addr]] : e \in cache},
    ran   <- IF pc = "exec" THEN obj ELSE NoObj

(* op_commarg() implements IndirCache: every argument either runs the     *)
(* code compiled from it or runs nothing, and the cache, read through its *)
(* keys, only ever gains the argument being run -- no entry's text        *)
(* changes when the collector moves an argument, when an argument's space *)
(* is reused, or when a later argument is written to the pool.            *)
ImplementsIndirCache == Abs!Spec
=============================================================================
