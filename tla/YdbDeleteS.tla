------------------------------ MODULE YdbDeleteS ------------------------------
(***************************************************************************)
(* ydb_delete_s() (sr_unix/ydb_delete_s.c) and op_kill()                   *)
(* (sr_port/op_kill.c): the Simple API call that KILLs (YDB_DEL_TREE) or  *)
(* ZKILLs (YDB_DEL_NODE) a local or global node.  The call is one step:   *)
(* the API is not threaded (VERIFY_NON_THREADED_API) and every error,     *)
(* from the entry checks to the database, ends in ydb_simpleapi_ch and a  *)
(* negative return.                                                        *)
(*                                                                         *)
(* One local, x, and one global, ^g, each with a root node 0 and a child  *)
(* node 1 (subscript "1").  A variable's data is the set of its nodes     *)
(* that have a value.                                                      *)
(***************************************************************************)
EXTENDS Integers

CONSTANTS
    MaxCalls        \* bound on ydb_delete_s() calls

Names    == {"x", "^g", "$ZX", "bad"}   \* local, global, ISV, invalid name
DelTypes == {"TREE", "NODE", "OTHER"}   \* YDB_DEL_TREE, YDB_DEL_NODE, anything else
Nodes    == {0, 1}
NoKey    == -1                          \* gv_currkey holds no key

(* The one step of a call that fails, if any: LIBYOTTADB_INIT, the        *)
(* outofband_action() handler, COPY_PARMS_TO_CALLG_BUFFER on the          *)
(* subscripts, or the database kill (an error, or TPRETRY inside TP).     *)
Failures == {"none", "init", "oob", "subs", "db", "tpretry"}

VARIABLES
    lvexists,       \* x has an lv_val in curr_symval
    ldata,          \* nodes of x with a value
    gdata,          \* nodes of ^g with a value
    naked,          \* the node gv_currkey holds, or NoKey
    outofband,      \* an outofband event is pending
    ret,            \* what the last call returned: "none", "OK", "TPRESTART", "ERR"
    last,           \* the last call's arguments
    calls

vars == <<lvexists, ldata, gdata, naked, outofband, ret, last, calls>>

Init ==
    /\ lvexists \in BOOLEAN
    /\ ldata \in IF lvexists THEN SUBSET Nodes ELSE {{}}
    /\ gdata \in SUBSET Nodes
    /\ naked = NoKey
    /\ outofband = FALSE
    /\ ret = "none"
    /\ last = [name |-> "none", subs |-> 0, deltype |-> "none"]
    /\ calls = 0

(* M's KILL and ZKILL of node n (lv_kill/op_gvkill, op_lvzwithdraw/        *)
(* op_gvzwithdraw; not in these sources).                                  *)
Subtree(n) == IF n = 0 THEN Nodes ELSE {n}

Killed(d, n, dt) ==
    CASE dt = "TREE" -> d \ Subtree(n)
      [] dt = "NODE" -> d \ {n}
      [] OTHER       -> d

(* Mutant: the subscripts not passed to op_gvname (the root is keyed).    *)
GvKeyRoot(subs) == 0

(* Lines 128-139: op_gvname() keys the root, or the subscripted node.     *)
GvKey(subs) == subs

(* Mutant: the two delete methods swapped on the local path.             *)
LocalDeleteSwapped(d, n, dt) ==
    CASE dt = "TREE" -> d \ {n}
      [] dt = "NODE" -> d \ Subtree(n)
      [] OTHER       -> d

(* op_kill() (op_kill.c): lv_kill() of the node with its subtree.         *)
OpKill(d, n) == Killed(d, n, "TREE")

(* Lines 108-120: KILL through op_kill() or ZKILL through                 *)
(* op_lvzwithdraw() of the node op_srchindx() found; a node that does not *)
(* exist is NULL and nothing is killed.                                    *)
LocalDelete(d, n, dt) == IF dt = "TREE" THEN OpKill(d, n) ELSE Killed(d, n, dt)

(* Lines 50-163, one whole call with the one failure f.                   *)
Call(name, subs, dt, f) ==
    LET err(code) == ret' = code
        oobFails  == outofband /\ f = "oob"
    IN
    /\ calls < MaxCalls
    /\ f = "oob" => outofband
    /\ f = "subs" => subs > 0
    /\ f \in {"db", "tpretry"} => name = "^g" /\ dt # "OTHER"
    /\ last' = [name |-> name, subs |-> subs, deltype |-> dt]
    /\ calls' = calls + 1
    /\ outofband' = (outofband /\ f = "init")          \* lines 80-81
    /\ CASE f = "init" \/ oobFails \/ name \in {"$ZX", "bad"} ->
              \* lines 68, 72-78, 80-83: nothing touched
              /\ err("ERR")
              /\ UNCHANGED <<lvexists, ldata, gdata, naked>>
         [] name = "x" ->
              \* lines 87-121
              /\ UNCHANGED <<lvexists, gdata, naked>>
              /\ CASE ~lvexists ->
                        /\ err("OK") /\ UNCHANGED ldata
                   [] f = "subs" ->
                        /\ err("ERR") /\ UNCHANGED ldata
                   [] dt = "OTHER" ->
                        /\ err("ERR") /\ UNCHANGED ldata
                   [] OTHER ->
                        /\ err("OK")
                        /\ ldata' = LocalDelete(ldata, subs, dt)
         [] OTHER ->
              \* lines 122-153: ^g
              /\ UNCHANGED <<lvexists, ldata>>
              /\ IF f = "subs"
                 THEN /\ err("ERR") /\ UNCHANGED <<gdata, naked>>
                 ELSE /\ naked' = GvKey(subs)
                      /\ CASE dt = "OTHER" ->
                                /\ err("ERR") /\ UNCHANGED gdata
                           [] f = "db" ->
                                /\ err("ERR") /\ UNCHANGED gdata
                           [] f = "tpretry" ->
                                /\ err("TPRESTART") /\ UNCHANGED gdata
                           [] OTHER ->
                                /\ err("OK")
                                /\ gdata' = Killed(gdata, GvKey(subs), dt)

Delete ==
    \E name \in Names, subs \in Nodes, dt \in DelTypes, f \in Failures :
        Call(name, subs, dt, f)

(* The rest of the process: M code or other API calls set nodes, and      *)
(* interrupts (Ctrl-C, timers, MUPIP INTRPT) make outofband pending.       *)
SetLocal ==
    /\ \E n \in Nodes : ldata' = ldata \cup {n}
    /\ lvexists' = TRUE
    /\ UNCHANGED <<gdata, naked, outofband, ret, last, calls>>

SetGlobal ==
    /\ \E n \in Nodes : /\ gdata' = gdata \cup {n}
                        /\ naked' = n
    /\ UNCHANGED <<lvexists, ldata, outofband, ret, last, calls>>

Interrupt ==
    /\ ~outofband
    /\ outofband' = TRUE
    /\ UNCHANGED <<lvexists, ldata, gdata, naked, ret, last, calls>>

Next == Delete \/ SetLocal \/ SetGlobal \/ Interrupt

Spec == Init /\ [][Next]_vars
-----------------------------------------------------------------------------
(* What each ydb_delete_s() call does to the data: when it returns        *)
(* YDB_OK, the named variable has lost exactly the node (YDB_DEL_NODE) or *)
(* the node and its descendants (YDB_DEL_TREE) it named, and the other    *)
(* variable is untouched; when it returns an error or YDB_TP_RESTART, no  *)
(* data has changed -- whichever of the entry checks, the interrupt       *)
(* handler, the subscript copy, the method switch or the database failed. *)
DeleteContract ==
    [][calls' = calls + 1 =>
        LET n == last'.subs
            dt == last'.deltype
        IN
        IF ret' = "OK"
        THEN /\ last'.name = "x"  => ldata' = Killed(ldata, n, dt) /\ gdata' = gdata
             /\ last'.name = "^g" => gdata' = Killed(gdata, n, dt) /\ ldata' = ldata
             /\ last'.name \in {"x", "^g"}
        ELSE ldata' = ldata /\ gdata' = gdata]_vars
=============================================================================
