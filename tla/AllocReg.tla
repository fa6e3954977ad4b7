------------------------------ MODULE AllocReg ------------------------------
(***************************************************************************)
(* The temporary allocator alloc_reg() and its helper remove_backptr() of  *)
(* src/sr_port/alloc_reg.c.  One step of the specification is one turn of  *)
(* the dqloop over the execution-order list: the opcode switch, the        *)
(* destination assignment and the operand walk that decrements the         *)
(* reference counts (backpointer lists) and frees temporaries.  The last   *)
(* step computes sa_temps[] and sa_temps_offset[].                         *)
(*                                                                         *)
(* A triple graph is the input the front end and resolve_ref() hand over:  *)
(* opcodes, operands and preset destinations; the backpointer lists are    *)
(* derived from the operands, one entry per operand slot that references   *)
(* a triple (the collaborator contract of resolve_tref()).                 *)
(***************************************************************************)
EXTENDS Integers, FiniteSets, Bags

CONSTANTS
    N,              \* triples on the list; triple 0 is the list head t_orig
    MaxTempCount,   \* MAX_TEMP_COUNT, slots per temporary class
    MvMax,          \* mvmax, variable slots fixed by the front end
    InlineLiterals, \* cmd_qlf.qlf & CQ_INLINE_LITERALS
    LineEntry,      \* cmd_qlf.qlf & CQ_LINE_ENTRY
    OcTab,          \* oc_tab[opc].octype as a set of OCT_ flags
    ClassSize,      \* sa_class_sizes[]
    PtrSize         \* SIZEOF(char *)

Triples     == 1..N
TempClasses == {"TVAR_REF", "TVAL_REF", "TINT_REF", "TVAD_REF", "TCAD_REF"}
Slots       == 0..(MaxTempCount - 1)
NoRef       == [cls |-> "NO_REF", val |-> 0]
TRef(j)     == [cls |-> "TRIP_REF", val |-> j]

\* x->exorder.fl: the list is circular through t_orig (triple 0).
Fl(t) == IF t = N THEN 0 ELSE t + 1

\* OCT_VALUE is OCT_MVAL | OCT_MINT | OCT_BOOL | OCT_CDADDR.
Valued(oct) == oct \cap {"MVAL", "MINT", "BOOL", "CDADDR"} # {}

\* The switch on oct & (OCT_VALUE | OCT_MVADDR) that picks the class.
ValueClass(oct) ==
    LET v == oct \cap {"MVAL", "MINT", "BOOL", "CDADDR", "MVADDR"}
    IN  CASE v = {"MVAL"}                 -> "TVAL_REF"
          [] v \in {{"MINT"}, {"BOOL"}}   -> "TINT_REF"
          [] v = {"MVAL", "MVADDR"}       -> "TVAD_REF"
          [] v = {"CDADDR"}               -> "TCAD_REF"
          [] OTHER                        -> "NO_REF"

\* Every valued opcode has a class: the default: assert(FALSE) is never met.
ASSUME \A opc \in DOMAIN OcTab : Valued(OcTab[opc]) => ValueClass(OcTab[opc]) # "NO_REF"

\* The backpointer list resolve_tref() builds for triple t of graph g.
BackptrOf(g, t) ==
    LET uses(c) == {j \in 1..2 : g.opnd[c][j] = TRef(t)}
    IN  [c \in {c \in Triples : uses(c) # {}} |-> Cardinality(uses(c))]

VARIABLES
    opcode,          \* x->opcode; opcode[0] is t_orig's
    operand,         \* <<x->operand[0], x->operand[1]>>
    dest,            \* x->destination
    backptr,         \* x->backptr, a bag of consuming triples
    tempcont,        \* tempcont[r]: the occupied slots of class r
    temphigh,        \* temphigh[r]
    x,               \* the dqloop cursor
    status,          \* "scan", "done", "TMPSTOREMAX" (rts_error) or "WILD"
    sa_temps,        \* sa_temps[]
    sa_temps_offset, \* sa_temps_offset[]
    input            \* the graph the scan was called on; never changes

vars == <<opcode, operand, dest, backptr, tempcont, temphigh, x, status,
          sa_temps, sa_temps_offset, input>>

(* The state alloc_reg() is entered in for triple graph g; a model-      *)
(* checking module chooses the graphs (Init == \E g ... : InitFrom(g)).   *)
InitFrom(g) ==
        /\ input    = g
        /\ opcode   = [t \in 0..N |-> IF t = 0 THEN "OC_NOOP" ELSE g.op[t]]
        /\ operand  = g.opnd
        /\ dest     = g.dst
        /\ backptr  = [t \in Triples |-> BackptrOf(g, t)]
        /\ tempcont = [r \in TempClasses |-> {}]
        /\ temphigh = [r \in TempClasses |-> IF r = "TVAR_REF" THEN MvMax - 1 ELSE -1]
        /\ x        = Fl(0)
        /\ status   = "scan"
        /\ sa_temps = [r \in TempClasses |-> 0]
        /\ sa_temps_offset = [r \in TempClasses |-> 0]

(***************************************************************************)
(* The loop body works on a record of the mutable state, so that the      *)
(* switch, the destination assignment and the operand walk compose in the *)
(* order the code runs them within one step.                              *)
(***************************************************************************)
Cur == [op |-> opcode, opnd |-> operand, dst |-> dest, bp |-> backptr,
        tc |-> tempcont, th |-> temphigh, err |-> FALSE, wild |-> FALSE]

\* Mutant: the temporary is freed at every decrement, not when the list empties.
RemoveBackptrEager(S, cur, ref) ==
    LET r  == S.dst[ref].cls
        b  == S.bp[ref]
        nb == IF BagIn(cur, b) THEN b (-) SetToBag({cur}) ELSE b
    IN  IF r \in {"NO_REF", "TVAR_REF"} \/ r \notin TempClasses THEN [S EXCEPT !.bp[ref] = nb]
        ELSE [S EXCEPT !.bp[ref] = nb, !.tc[r] = @ \ {S.dst[ref].val}]

\* remove_backptr(curtrip, opnd): drop one entry for curtrip from the
\* referenced triple's list and free its temporary when the list empties.
RemoveBackptr(S, cur, ref) ==
    LET r  == S.dst[ref].cls
        b  == S.bp[ref]
        nb == IF BagIn(cur, b) THEN b (-) SetToBag({cur}) ELSE b
        freed == nb = EmptyBag /\ r # "TVAR_REF"
    IN  IF r = "NO_REF" THEN S
        ELSE IF freed /\ r \notin TempClasses
             THEN [S EXCEPT !.bp[ref] = nb, !.wild = TRUE]
        ELSE [S EXCEPT !.bp[ref] = nb,
                       !.tc = IF freed THEN [@ EXCEPT ![r] = @ \ {S.dst[ref].val}]
                                       ELSE @]

\* Mutant: the walk stops after operand[0].
RECURSIVE WalkFirstOperand(_, _, _)
WalkFirstOperand(S, y, j) ==
    IF j > 1 THEN S
    ELSE LET o == S.opnd[y][j] IN
         CASE o.cls = "TRIP_REF" /\ S.op[o.val] = "OC_PARAMETER" -> WalkFirstOperand(S, o.val, 1)
           [] o.cls = "TRIP_REF" -> WalkFirstOperand(RemoveBackptr(S, y, o.val), y, j + 1)
           [] OTHER              -> WalkFirstOperand(S, y, j + 1)

\* Mutant: an OC_PARAMETER operand is released like any other operand
\* instead of being followed.
RECURSIVE WalkNoChain(_, _, _)
WalkNoChain(S, y, j) ==
    IF j > 2 THEN S
    ELSE LET o == S.opnd[y][j] IN
         IF o.cls = "TRIP_REF" THEN WalkNoChain(RemoveBackptr(S, y, o.val), y, j + 1)
         ELSE WalkNoChain(S, y, j + 1)

\* The for loop over the operands of y, which jumps into a parameter
\* chain (y = ref; j = y->operand) whenever an operand is an OC_PARAMETER.
RECURSIVE Walk(_, _, _)
Walk(S, y, j) ==
    IF j > 2 THEN S
    ELSE LET o == S.opnd[y][j] IN
         CASE o.cls = "TRIP_REF" /\ S.op[o.val] = "OC_PARAMETER" -> Walk(S, o.val, 1)
           [] o.cls = "TRIP_REF" -> Walk(RemoveBackptr(S, y, o.val), y, j + 1)
           [] OTHER              -> Walk(S, y, j + 1)

\* The OC_STO the store-forwarding optimisation folds into x, or 0.
StoreTarget(S) ==
    LET y == CHOOSE c \in BagToSet(S.bp[x]) : TRUE
    IN  IF /\ "MVADDR" \notin OcTab[S.op[x]]
           /\ BagCardinality(S.bp[x]) = 1
           /\ S.op[y] = "OC_STO"
           /\ S.opnd[y][2] = TRef(x)
           /\ S.opnd[y][1].cls = "TRIP_REF"
           /\ S.op[S.opnd[y][1].val] = "OC_VAR"
        THEN y ELSE 0

\* Mutant: the scan bound admits slot MAX_TEMP_COUNT.
AllocateBeyondMax(S, r) ==
    LET free == (0..MaxTempCount) \ S.tc[r]
        c    == CHOOSE c \in free : \A d \in free : c <= d
    IN  [S EXCEPT !.tc[r] = @ \cup {c}, !.dst[x] = [cls |-> r, val |-> c],
                  !.th[r] = IF c > @ THEN c ELSE @,
                  !.op[x] = IF @ = "OC_CDADDR" THEN "OC_NOOP" ELSE @]

\* Mutant: the high-water mark is overwritten rather than raised.
AllocateNoMax(S, r) ==
    LET free == Slots \ S.tc[r]
        c    == CHOOSE c \in free : \A d \in free : c <= d
    IN  IF free = {} THEN [S EXCEPT !.err = TRUE]
        ELSE [S EXCEPT !.tc[r] = @ \cup {c}, !.dst[x] = [cls |-> r, val |-> c],
                       !.th[r] = c,
                       !.op[x] = IF @ = "OC_CDADDR" THEN "OC_NOOP" ELSE @]

\* The linear scan for the lowest free slot of class r, ERR_TMPSTOREMAX
\* when there is none.
Allocate(S, r) ==
    LET free == Slots \ S.tc[r]
        c    == CHOOSE c \in free : \A d \in free : c <= d
    IN  IF free = {} THEN [S EXCEPT !.err = TRUE]
        ELSE [S EXCEPT !.tc[r]  = @ \cup {c},
                       !.dst[x] = [cls |-> r, val |-> c],
                       !.th[r]  = IF c > @ THEN c ELSE @,
                       !.op[x]  = IF @ = "OC_CDADDR" THEN "OC_NOOP" ELSE @]

\* Mutant: a temporary is given even to a triple nobody references.
AssignDestUnreferenced(S) ==
    LET d   == S.dst[x]
        oct == OcTab[S.op[x]]
    IN  CASE d.cls = "NO_REF" /\ Valued(oct) /\ "CGSKIP" \notin oct ->
               IF S.bp[x] # EmptyBag /\ StoreTarget(S) # 0
               THEN LET y == StoreTarget(S) IN
                    [S EXCEPT !.dst[x] = S.opnd[y][1], !.op[y] = "OC_NOOP",
                              !.opnd[y] = <<[@[1] EXCEPT !.cls = "NO_REF"],
                                            [@[2] EXCEPT !.cls = "NO_REF"]>>]
               ELSE Allocate(S, ValueClass(oct))
          [] d.cls = "TRIP_REF" -> [S EXCEPT !.dst[x] = S.dst[d.val]]
          [] OTHER -> S

\* Mutant: the destination is taken over but the OC_STO stays live.
AssignDestKeepSto(S) ==
    LET d   == S.dst[x]
        oct == OcTab[S.op[x]]
    IN  CASE d.cls = "NO_REF" /\ Valued(oct) /\ S.bp[x] # EmptyBag /\ "CGSKIP" \notin oct ->
               LET y == StoreTarget(S) IN
               IF y # 0 THEN [S EXCEPT !.dst[x] = S.opnd[y][1]]
               ELSE Allocate(S, ValueClass(oct))
          [] d.cls = "TRIP_REF" -> [S EXCEPT !.dst[x] = S.dst[d.val]]
          [] OTHER -> S

\* The destination assignment after the switch.
AssignDest(S) ==
    LET d   == S.dst[x]
        oct == OcTab[S.op[x]]
    IN  CASE d.cls = "NO_REF" /\ Valued(oct) /\ S.bp[x] # EmptyBag /\ "CGSKIP" \notin oct ->
               LET y == StoreTarget(S) IN
               IF y # 0
               THEN [S EXCEPT !.dst[x] = S.opnd[y][1],
                              !.op[y]  = "OC_NOOP",
                              !.opnd[y] = <<[@[1] EXCEPT !.cls = "NO_REF"],
                                            [@[2] EXCEPT !.cls = "NO_REF"]>>]
               ELSE Allocate(S, ValueClass(oct))
          [] d.cls = "TRIP_REF" -> [S EXCEPT !.dst[x] = S.dst[d.val]]
          [] OTHER -> S

\* Everything after the switch; rts_error leaves before the operand walk.
AfterSwitch(S) == LET A == AssignDest(S) IN IF A.err THEN A ELSE Walk(A, x, 1)

\* The prevent-leaking-TVAL-temps loop of OC_LINESTART and OC_LINEFETCH.
ClearTval(S) == [S EXCEPT !.tc["TVAL_REF"] = @ \ (0..S.th["TVAL_REF"])]

\* case OC_FETCH: a count equal to mvmax becomes 0 and operand[1] is dropped.
NormalizeFetch(S) ==
    LET il == S.opnd[x][1].val IN
    IF S.opnd[il][1].val = MvMax
    THEN [S EXCEPT !.opnd[il][1].val = 0, !.opnd[x][2].cls = "NO_REF"]
    ELSE S

\* Write the loop body's result back and move on (or stop at rts_error).
Commit(S) ==
    /\ opcode'   = S.op
    /\ operand'  = S.opnd
    /\ dest'     = S.dst
    /\ backptr'  = S.bp
    /\ tempcont' = S.tc
    /\ temphigh' = S.th
    /\ status'   = CASE S.err  -> "TMPSTOREMAX"
                     [] S.wild -> "WILD"
                     [] OTHER  -> "scan"
    /\ x' = IF S.err \/ S.wild THEN x ELSE Fl(x)
    /\ UNCHANGED <<sa_temps, sa_temps_offset, input>>

Scanning == status = "scan" /\ x # 0

LineOps == {"OC_LINESTART", "OC_LINEFETCH"}

(* case OC_NOOP, case OC_PARAMETER: continue *)
SkipNoop ==
    /\ Scanning
    /\ opcode[x] \in {"OC_NOOP", "OC_PARAMETER"}
    /\ Commit(Cur)

(* OC_LINESTART followed by another line marker: a comment line *)
CommentLine ==
    /\ Scanning
    /\ opcode[x] = "OC_LINESTART"
    /\ opcode[Fl(x)] \in LineOps
    /\ Commit([Cur EXCEPT !.op[x] = "OC_NOOP"])

(* OC_LINESTART, OC_ILIT, OC_LINEFETCH without CQ_LINE_ENTRY: a blank line *)
BlankLine ==
    /\ Scanning
    /\ opcode[x] = "OC_LINESTART"
    /\ opcode[Fl(x)] \notin LineOps
    /\ ~LineEntry
    /\ opcode[Fl(x)] = "OC_ILIT"
    /\ opcode[Fl(Fl(x))] = "OC_LINEFETCH"
    /\ Commit([Cur EXCEPT !.op[x] = "OC_NOOP"])

(* any other OC_LINESTART: clear the TVAL temps, then the common tail *)
LineStart ==
    /\ Scanning
    /\ opcode[x] = "OC_LINESTART"
    /\ opcode[Fl(x)] \notin LineOps
    /\ ~(~LineEntry /\ opcode[Fl(x)] = "OC_ILIT" /\ opcode[Fl(Fl(x))] = "OC_LINEFETCH")
    /\ Commit(AfterSwitch(ClearTval(Cur)))

(* case OC_LINEFETCH: clear the TVAL temps and fall into case OC_FETCH *)
LineFetch ==
    /\ Scanning
    /\ opcode[x] = "OC_LINEFETCH"
    /\ Commit(AfterSwitch(NormalizeFetch(ClearTval(Cur))))

Fetch ==
    /\ Scanning
    /\ opcode[x] = "OC_FETCH"
    /\ Commit(AfterSwitch(NormalizeFetch(Cur)))

(* Mutant: the wrapped triple's temporary is released outright. *)
PassthruFree ==
    /\ Scanning
    /\ opcode[x] = "OC_PASSTHRU"
    /\ LET w == operand[x][1].val
           S == RemoveBackptr(Cur, x, w)
           F == IF dest[w].cls \in TempClasses \ {"TVAR_REF"}
                THEN [S EXCEPT !.tc[dest[w].cls] = @ \ {dest[w].val}] ELSE S
       IN  Commit([F EXCEPT !.op[x] = "OC_NOOP", !.opnd[x][1].cls = "NO_REF"])

(* Mutant: the OC_PASSTHRU is retired without releasing the wrapped triple. *)
PassthruNoRelease ==
    /\ Scanning
    /\ opcode[x] = "OC_PASSTHRU"
    /\ Commit([Cur EXCEPT !.op[x] = "OC_NOOP", !.opnd[x][1].cls = "NO_REF"])

(* case OC_PASSTHRU: release the wrapped triple and become a NOOP *)
Passthru ==
    /\ Scanning
    /\ opcode[x] = "OC_PASSTHRU"
    /\ LET S == RemoveBackptr(Cur, x, operand[x][1].val)
       IN  Commit([S EXCEPT !.op[x] = "OC_NOOP", !.opnd[x][1].cls = "NO_REF"])

(* case OC_STO: a store of an OC_LIT becomes OC_STOLIT *)
Sto ==
    /\ Scanning
    /\ opcode[x] = "OC_STO"
    /\ LET lit == InlineLiterals /\ operand[x][2].cls = "TRIP_REF"
                  /\ opcode[operand[x][2].val] = "OC_LIT"
       IN  Commit(AfterSwitch(IF lit THEN [Cur EXCEPT !.op[x] = "OC_STOLIT"] ELSE Cur))

(* case OC_GVSAVTARG: with no OC_GVRECTARG left it becomes a NOOP *)
GvSavTarg ==
    /\ Scanning
    /\ opcode[x] = "OC_GVSAVTARG"
    /\ Commit(AfterSwitch(IF backptr[x] = EmptyBag THEN [Cur EXCEPT !.op[x] = "OC_NOOP"] ELSE Cur))

SwitchOps == {"OC_NOOP", "OC_PARAMETER", "OC_LINESTART", "OC_LINEFETCH", "OC_FETCH",
              "OC_PASSTHRU", "OC_STO", "OC_GVSAVTARG"}

(* default: straight to the common tail *)
Other ==
    /\ Scanning
    /\ opcode[x] \notin SwitchOps
    /\ Commit(AfterSwitch(Cur))

RoundUp2(n, p) == ((n + p - 1) \div p) * p

(* Mutant: the int temporaries are not rounded up to pointer alignment. *)
FinishUnaligned ==
    /\ status = "scan"
    /\ x = 0
    /\ LET sa == [r \in TempClasses |-> temphigh[r] + 1]
           s1 == sa["TVAL_REF"] * ClassSize["TVAL_REF"]
           s2 == s1 + sa["TINT_REF"] * ClassSize["TINT_REF"]
           s3 == s2 + sa["TVAD_REF"] * ClassSize["TVAD_REF"]
           s4 == s3 + sa["TCAD_REF"] * ClassSize["TCAD_REF"]
       IN  /\ sa_temps' = sa
           /\ sa_temps_offset' = [TVAR_REF |-> sa["TVAR_REF"] * ClassSize["TVAR_REF"],
                                  TVAL_REF |-> s1, TINT_REF |-> s2,
                                  TVAD_REF |-> s3, TCAD_REF |-> s4]
    /\ status' = "done"
    /\ UNCHANGED <<opcode, operand, dest, backptr, tempcont, temphigh, x, input>>

(* after the loop: slot counts and the layout of the temporary region *)
Finish ==
    /\ status = "scan"
    /\ x = 0
    /\ LET sa == [r \in TempClasses |-> temphigh[r] + 1]
           s1 == sa["TVAL_REF"] * ClassSize["TVAL_REF"]
           s2 == s1 + RoundUp2(sa["TINT_REF"] * ClassSize["TINT_REF"], PtrSize)
           s3 == s2 + sa["TVAD_REF"] * ClassSize["TVAD_REF"]
           s4 == s3 + sa["TCAD_REF"] * ClassSize["TCAD_REF"]
       IN  /\ sa_temps' = sa
           /\ sa_temps_offset' = [TVAR_REF |-> sa["TVAR_REF"] * ClassSize["TVAR_REF"],
                                  TVAL_REF |-> s1, TINT_REF |-> s2,
                                  TVAD_REF |-> s3, TCAD_REF |-> s4]
    /\ status' = "done"
    /\ UNCHANGED <<opcode, operand, dest, backptr, tempcont, temphigh, x, input>>

(* alloc_reg() has returned or raised an error: nothing more happens *)
Stopped ==
    /\ status # "scan"
    /\ UNCHANGED vars

Next ==
    \/ SkipNoop \/ CommentLine \/ BlankLine \/ LineStart \/ LineFetch \/ Fetch
    \/ Passthru \/ Sto \/ GvSavTarg \/ Other \/ Finish \/ Stopped


-----------------------------------------------------------------------------
(***************************************************************************)
(* Properties.                                                             *)
(***************************************************************************)
Opnd == [cls : {"NO_REF", "TRIP_REF", "ILIT_REF", "MLIT_REF", "MVAR_REF"} \cup TempClasses,
         val : Int]

TypeOK ==
    /\ opcode \in [0..N -> DOMAIN OcTab]
    /\ operand \in [Triples -> Opnd \X Opnd]
    /\ dest \in [Triples -> Opnd]
    /\ \A t \in Triples : IsABag(backptr[t]) /\ BagToSet(backptr[t]) \subseteq Triples
    /\ tempcont \in [TempClasses -> SUBSET Slots]
    /\ temphigh \in [TempClasses -> -1..(MaxTempCount + MvMax)]
    /\ x \in 0..N
    /\ status \in {"scan", "done", "TMPSTOREMAX", "WILD"}

\* The triples whose operand walk in graph g reaches t, following
\* parameter chains the way the walk does.
RECURSIVE WalkRefs(_, _, _)
WalkRefs(g, y, j) ==
    IF j > 2 THEN {}
    ELSE LET o == g.opnd[y][j] IN
         CASE o.cls = "TRIP_REF" /\ g.op[o.val] = "OC_PARAMETER" -> WalkRefs(g, o.val, 1)
           [] o.cls = "TRIP_REF" -> {o.val} \cup WalkRefs(g, y, j + 1)
           [] OTHER              -> WalkRefs(g, y, j + 1)

Readers(t) == {c \in Triples : input.op[c] # "OC_PARAMETER" /\ t \in WalkRefs(input, c, 1)}

\* t's value is still to be read: a reader at or after the cursor that
\* has not been retired.
Pending(t) == status = "scan" /\ x # 0 /\
              \E c \in Readers(t) : c >= x /\ opcode[c] # "OC_NOOP"

\* t holds a recyclable temporary the scan gave it.
HoldsTemp(t) == (x = 0 \/ t < x) /\ dest[t].cls \in TempClasses \ {"TVAR_REF"}

(* alloc_reg frees a temporary only after the last consumer of the value  *)
(* in it has been scanned (remove_backptr emptying the backpointer list), *)
(* so while a value is still to be read its slot stays occupied and no    *)
(* later triple is given the same slot.                                   *)
ValueIntact ==
    \A t \in Triples :
        HoldsTemp(t) /\ Pending(t) =>
            /\ dest[t].val \in tempcont[dest[t].cls]
            /\ \A u \in Triples : HoldsTemp(u) /\ dest[u] = dest[t] => u <= t

(* ERR_TMPSTOREMAX is raised only when every slot of the class really     *)
(* holds a value that a later triple still reads: the reference counting  *)
(* never leaks a slot within a unit.                                      *)
NoSpuriousOverflow ==
    status = "TMPSTOREMAX" =>
        LET r == ValueClass(OcTab[opcode[x]])
            live == {t \in Triples : t < x /\ dest[t].cls = r
                                     /\ \E c \in Readers(t) : c >= x /\ opcode[c] # "OC_NOOP"}
        IN  Cardinality(live) >= MaxTempCount

(* Reference-count soundness (spec section 8): when the scan completes     *)
(* every triple that was given a recyclable temporary has an empty        *)
(* backpointer list and every such slot is back on its free list.         *)
RefCountSound ==
    status = "done" =>
        /\ \A t \in Triples : HoldsTemp(t) => backptr[t] = EmptyBag
        /\ \A r \in TempClasses \ {"TVAR_REF"} : tempcont[r] = {}

(* The frame the code generator lays out from sa_temps[] and             *)
(* sa_temps_offset[] (sa_temps_offset[r] is the end of class r's region, *)
(* which holds sa_temps[r] cells of sa_class_sizes[r] bytes) gives every  *)
(* temporary any triple was assigned during the scan a cell of its own:   *)
(* inside the region, overlapping no other class's or slot's cell, and,   *)
(* for the pointer classes after the int temporaries, on a SIZEOF(char * )*)
(* boundary.  This needs the high-water marks kept over every reuse of a  *)
(* slot and the rounding of the int region to agree.                      *)
FrameCell(d) ==
    LET lo == sa_temps_offset[d.cls] - (sa_temps[d.cls] - d.val) * ClassSize[d.cls]
    IN  [lo |-> lo, hi |-> lo + ClassSize[d.cls]]

TempFrameSound ==
    status = "done" =>
        LET used == {dest[t] : t \in {t \in Triples :
                                        dest[t].cls \in TempClasses \ {"TVAR_REF"}}}
        IN  /\ \A d \in used : d.val < sa_temps[d.cls] /\ FrameCell(d).lo >= 0
            /\ \A d, e \in used :
                  d # e => \/ FrameCell(d).hi <= FrameCell(e).lo
                          \/ FrameCell(e).hi <= FrameCell(d).lo
            /\ \A d \in used :
                  d.cls \in {"TVAD_REF", "TCAD_REF"} => FrameCell(d).lo % PtrSize = 0

(* remove_backptr never frees through a destination that is not a          *)
(* temporary class (tempcont[r] with r = TRIP_REF would write outside the *)
(* table): the store-forwarded triple's only consumer is never walked.    *)
NoWildTempWrite == status # "WILD"
=============================================================================
