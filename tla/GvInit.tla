-------------------------------- MODULE GvInit --------------------------------
(***************************************************************************)
(* gvinit() (sr_port/gvinit.c): binds the global directory on first use   *)
(* and makes the two global key buffers, gv_currkey and gv_altkey, large  *)
(* enough for the keys of the directory's first region.  It is called     *)
(* again after an extended reference has switched gd_header, so the       *)
(* buffers it finds may already exist: it replaces them only when the new *)
(* key size is larger, freeing the old ones, and then empties both keys.  *)
(*                                                                         *)
(* The heap is a function from block addresses to the size allocated      *)
(* there (0: free).  A key size is DBKEYSIZE() of the region's            *)
(* max_key_size, taken as given.                                           *)
(***************************************************************************)
EXTENDS Integers, FiniteSets

CONSTANTS
    Blocks,         \* heap addresses malloc() can return
    KeySizes,       \* DBKEYSIZE(max_key_size) of the directories' first regions
    MaxCalls        \* bound on gvinit() calls

NULL == 0

VARIABLES
    gd_header,      \* NULL, or the key size of the bound directory
    gv_keysize,     \* gv_keysize
    gv_currkey,     \* block address or NULL
    gv_altkey,      \* block address or NULL
    heap,           \* block -> allocated size, 0 when free
    key,            \* what gv_currkey holds: "empty" or "key"
    fault,          \* a free() of a block not allocated has happened
    calls

vars == <<gd_header, gv_keysize, gv_currkey, gv_altkey, heap, key, fault, calls>>

Init ==
    /\ gd_header = NULL
    /\ gv_keysize = 0
    /\ gv_currkey = NULL
    /\ gv_altkey = NULL
    /\ heap = [b \in Blocks |-> 0]
    /\ key = "empty"
    /\ fault = FALSE
    /\ calls = 0

Allocated(h) == {b \in Blocks : h[b] > 0}

(* free() of an address: freeing a block that is not allocated is a      *)
(* fault (double free); free(NULL) does nothing.                          *)
Free(h, b) == IF b = NULL THEN h ELSE [h EXCEPT ![b] = 0]

BadFree(h, b) == b # NULL /\ h[b] = 0

(* Mutant: only the old gv_currkey is freed. *)
ReleaseCurrOnly(h, c, a) == Free(h, c)

(* Lines 57-62: the old buffers are freed, if there were any.             *)
Release(h, c, a) == IF c = NULL THEN h ELSE Free(Free(h, c), a)

(* Line 49: the buffers are replaced only for a larger key size.          *)
Grows(ks, cur) == ks > cur

(* Lines 30-68, the whole call.  ks is the key size of the directory in   *)
(* gd_header, bound here (SET_GD_HEADER, SET_GD_MAP) when it is NULL.     *)
(* When the key size grows, two blocks a # b are malloc()ed (lines        *)
(* 53-54), sized sizeof(gv_key) - 1 + keysize (modelled as keysize), the  *)
(* old ones freed and gv_keysize raised; then both keys are emptied.      *)
GvInit ==
    /\ calls < MaxCalls
    /\ \E d \in KeySizes :
         LET ks == IF gd_header = NULL THEN d ELSE gd_header IN
         /\ gd_header' = ks
         /\ IF Grows(ks, gv_keysize)
            THEN \E a, b \in Blocks :
                   /\ a # b /\ heap[a] = 0 /\ heap[b] = 0
                   /\ LET h1 == [heap EXCEPT ![a] = ks, ![b] = ks] IN
                      /\ heap' = Release(h1, gv_currkey, gv_altkey)
                      /\ fault' = (fault \/ BadFree(h1, gv_currkey)
                                         \/ BadFree(Free(h1, gv_currkey), gv_altkey))
                   /\ gv_altkey' = a
                   /\ gv_currkey' = b
                   /\ gv_keysize' = ks
            ELSE UNCHANGED <<gv_currkey, gv_altkey, heap, gv_keysize, fault>>
    /\ key' = "empty"
    /\ calls' = calls + 1

(* An extended reference (outside these sources) binds another global     *)
(* directory; gvinit() is called again afterwards.                         *)
SwitchDirectory ==
    /\ gd_header # NULL
    /\ \E d \in KeySizes \ {gd_header} : gd_header' = d
    /\ UNCHANGED <<gv_keysize, gv_currkey, gv_altkey, heap, key, fault, calls>>

(* op_gvname() (outside these sources) forms a key in gv_currkey.          *)
FormKey ==
    /\ gv_currkey # NULL
    /\ key' = "key"
    /\ UNCHANGED <<gd_header, gv_keysize, gv_currkey, gv_altkey, heap, fault, calls>>

Next == GvInit \/ SwitchDirectory \/ FormKey

Spec == Init /\ [][Next]_vars
-----------------------------------------------------------------------------
(* However often gvinit() is called and however the key size of the      *)
(* directory changes in between, the heap holds exactly the two current  *)
(* key buffers, distinct and each of gv_keysize, and no block was freed   *)
(* twice: growing the buffers neither leaks the old ones nor frees a live *)
(* one.                                                                    *)
KeyBuffersExact ==
    /\ ~fault
    /\ gv_currkey = NULL <=> gv_altkey = NULL
    /\ gv_currkey # NULL =>
          /\ gv_currkey # gv_altkey
          /\ Allocated(heap) = {gv_currkey, gv_altkey}
          /\ heap[gv_currkey] = gv_keysize /\ heap[gv_altkey] = gv_keysize
    /\ gv_currkey = NULL => Allocated(heap) = {}
=============================================================================
