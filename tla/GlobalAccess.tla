----------------------------- MODULE GlobalAccess -----------------------------
(***************************************************************************)
(* gvinit() and ydb_delete_s() together.  They share gv_currkey: gvinit() *)
(* owns the buffer and empties the key on every call; the global path of  *)
(* ydb_delete_s() forms the key of the node it deletes there through      *)
(* op_gvname(), and that key is the naked reference.  GvInit's key is     *)
(* therefore YdbDeleteS's naked reference seen as empty or not, and its   *)
(* FormKey is replaced by the calls that really form keys.  A global is    *)
(* referenced only once the process has key buffers (the directory is     *)
(* bound before the first global reference, outside these sources).       *)
(***************************************************************************)
EXTENDS Integers, TLC

CONSTANTS
    Blocks, KeySizes,
    MaxInits,       \* bound on gvinit() calls
    MaxCalls        \* bound on ydb_delete_s() calls

VARIABLES
    gd_header, gv_keysize, gv_currkey, gv_altkey, heap, fault, inits,
    lvexists, ldata, gdata, naked, outofband, ret, last, calls

KeyOf(n) == IF n = -1 THEN "empty" ELSE "key"   \* -1 is YdbDeleteS's NoKey

G == INSTANCE GvInit WITH key <- KeyOf(naked), calls <- inits, MaxCalls <- MaxInits
D == INSTANCE YdbDeleteS

gvars == <<gd_header, gv_keysize, gv_currkey, gv_altkey, heap, fault, inits>>
dvars == <<lvexists, ldata, gdata, outofband, ret, last, calls>>
vars  == <<gvars, dvars, naked>>

Init == D!Init /\ G!Init

(* gvinit(): emptying gv_currkey clears the naked reference.               *)
GvInit == naked' = D!NoKey /\ G!GvInit /\ UNCHANGED dvars

SwitchDirectory == UNCHANGED <<dvars, naked>> /\ G!SwitchDirectory

Delete ==
    /\ \E name \in D!Names, subs \in D!Nodes, dt \in D!DelTypes, f \in D!Failures :
          /\ name = "^g" => gv_currkey # G!NULL
          /\ D!Call(name, subs, dt, f)
    /\ UNCHANGED gvars

SetLocal == D!SetLocal /\ UNCHANGED gvars

SetGlobal == gv_currkey # G!NULL /\ D!SetGlobal /\ UNCHANGED gvars

Interrupt == D!Interrupt /\ UNCHANGED gvars

Next == GvInit \/ SwitchDirectory \/ Delete \/ SetLocal \/ SetGlobal \/ Interrupt

Spec == Init /\ [][Next]_vars

(* malloc() may return any free block: nothing tells the blocks apart.     *)
BlockSymmetry == Permutations(Blocks)
-----------------------------------------------------------------------------
(* gvinit(), called again after directory switches while ydb_delete_s()  *)
(* forms keys in gv_currkey, keeps exactly two live key buffers of        *)
(* gv_keysize on the heap and never frees a block twice.                  *)
KeyBuffersExact == G!KeyBuffersExact

(* Every ydb_delete_s() call, interleaved with gvinit() emptying the       *)
(* naked reference, removes exactly the node or subtree it names when it  *)
(* returns YDB_OK and changes no data when it fails.                      *)
DeleteContract == D!DeleteContract
=============================================================================
