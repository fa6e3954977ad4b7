----------------------------- MODULE MCAllocReg -----------------------------
(***************************************************************************)
(* Model-checking instance of AllocReg.  The triple graphs are generated  *)
(* here, triple by triple, from an opcode alphabet Ops chosen per run; a  *)
(* generated graph respects what the front end and resolve_ref() hand to  *)
(* alloc_reg(): operands reference earlier triples (parameter chains link *)
(* forward to later OC_PARAMETERs but end before their consumer), nothing *)
(* references an OC_PASSTHRU (resolve_tref() devours them), OC_FETCH and  *)
(* OC_LINEFETCH count an OC_ILIT, OC_STO stores into an OC_VAR, and --    *)
(* unless CrossLines -- no value is read across a line marker.            *)
(***************************************************************************)
EXTENDS AllocReg, Sequences

CONSTANTS
    Ops,        \* the opcodes generated triples may have
    CrossLines  \* whether a triple may read a value computed on an earlier line

(* oc_tab[].octype of the opcodes the runs use (opcode_def.h is not part  *)
(* of the sources; the flags follow the opcode's result kind).            *)
MCOcTab ==
    [OC_NOOP      |-> {},
     OC_PARAMETER |-> {},
     OC_LINESTART |-> {},
     OC_LINEFETCH |-> {},
     OC_FETCH     |-> {},
     OC_PASSTHRU  |-> {},
     OC_STO       |-> {},
     OC_STOLIT    |-> {},
     OC_WRITE     |-> {},
     OC_GVRECTARG |-> {},
     OC_GVSAVTARG |-> {"MVAL"},
     OC_ILIT      |-> {"MINT", "CGSKIP"},
     OC_LIT       |-> {"MVAL", "CGSKIP"},
     OC_VAR       |-> {"MVAL", "MVADDR", "CGSKIP"},
     OC_ADD       |-> {"MVAL"},
     OC_FNPIECE   |-> {"MVAL"},
     OC_EQU       |-> {"BOOL"},
     OC_SRCHINDX  |-> {"MVAL", "MVADDR"},
     OC_CDADDR    |-> {"CDADDR"}]

\* Sizes of mval *, mval, mint, mval * and char * on a 64-bit build.
MCClassSize == [TVAR_REF |-> 8, TVAL_REF |-> 32, TINT_REF |-> 4, TVAD_REF |-> 8, TCAD_REF |-> 8]

MLit == [cls |-> "MLIT_REF", val |-> 0]

\* Opcodes whose result an ordinary operand may reference.
ArgOps == {"OC_ADD", "OC_FNPIECE", "OC_EQU", "OC_SRCHINDX", "OC_LIT", "OC_CDADDR"}

\* Earlier triples of prefix g that position k may reference with opcode in os.
Earlier(k, g, os) ==
    {j \in 1..(k - 1) :
        /\ g[j].op \in os
        /\ CrossLines \/ \A m \in (j + 1)..(k - 1) : g[m].op \notin LineOps}

Args(k, g) == {TRef(j) : j \in Earlier(k, g, ArgOps)} \cup {MLit}

Trip(o, a, b, d) == [op |-> o, opnd |-> <<a, b>>, dst |-> d]

ShapesOf(o, k, g) ==
    CASE o \in {"OC_ADD", "OC_EQU"} ->
              {Trip(o, a, b, NoRef) : a \in Args(k, g), b \in Args(k, g)}
      [] o \in {"OC_WRITE", "OC_SRCHINDX"} ->
              {Trip(o, a, NoRef, NoRef) : a \in Args(k, g)}
      [] o = "OC_FNPIECE" ->
              {Trip(o, a, TRef(p), NoRef) : a \in Args(k, g),
                                            p \in Earlier(k, g, {"OC_PARAMETER"})}
      [] o = "OC_PARAMETER" ->
              {Trip(o, a, n, NoRef) : a \in Args(k, g),
                                      n \in {NoRef} \cup {TRef(m) : m \in (k + 1)..N}}
      [] o = "OC_LIT" -> {Trip(o, MLit, NoRef, NoRef)}
      [] o = "OC_ILIT" ->
              {Trip(o, [cls |-> "ILIT_REF", val |-> v], NoRef, NoRef) : v \in {0, MvMax}}
      [] o = "OC_VAR" ->
              {Trip(o, [cls |-> "MVAR_REF", val |-> 0], NoRef, [cls |-> "TVAR_REF", val |-> 0])}
      [] o = "OC_STO" ->
              {Trip(o, TRef(v), a, NoRef) : v \in Earlier(k, g, {"OC_VAR"}),
                                            a \in Args(k, g) \ {MLit}}
      [] o = "OC_PASSTHRU" ->
              {Trip(o, TRef(j), NoRef, NoRef) : j \in Earlier(k, g, ArgOps)}
      [] o \in {"OC_FETCH", "OC_LINEFETCH"} ->
              {Trip(o, TRef(j), NoRef, NoRef) : j \in Earlier(k, g, {"OC_ILIT"})}
      [] o = "OC_GVRECTARG" ->
              {Trip(o, TRef(j), NoRef, NoRef) : j \in Earlier(k, g, {"OC_GVSAVTARG"})}
      [] OTHER -> {Trip(o, NoRef, NoRef, NoRef)}

RECURSIVE Gen(_)
Gen(k) ==
    IF k = 0 THEN {<<>>}
    ELSE UNION {{Append(g, t) : t \in UNION {ShapesOf(o, k, g) : o \in Ops}} : g \in Gen(k - 1)}

Referrers(g, p) == {c \in 1..N : \E j \in 1..2 : g[c].opnd[j] = TRef(p)}

\* The non-parameter triple whose operand walk reaches parameter p.
RECURSIVE ChainConsumer(_, _)
ChainConsumer(g, p) ==
    LET r == CHOOSE c \in Referrers(g, p) : TRUE
    IN  IF g[r].op = "OC_PARAMETER" THEN ChainConsumer(g, r) ELSE r

\* Every OC_PARAMETER has exactly one referrer, the OC_PARAMETER before it
\* in its chain or, for the chain head, its consumer; the consumer comes
\* after every parameter of its chain.
ChainsWellFormed(g) ==
    LET params == {p \in 1..N : g[p].op = "OC_PARAMETER"} IN
    /\ \A p \in params :
          LET next == g[p].opnd[2] IN
          /\ Cardinality(Referrers(g, p)) = 1
          /\ next.cls = "TRIP_REF" => g[next.val].op = "OC_PARAMETER"
          /\ \A c \in Referrers(g, p) : g[c].op = "OC_PARAMETER" => c < p
    /\ \A p \in params : ChainConsumer(g, p) > p

AsGraph(g) == [op   |-> [t \in 1..N |-> g[t].op],
               opnd |-> [t \in 1..N |-> g[t].opnd],
               dst  |-> [t \in 1..N |-> g[t].dst]]

(* alloc_reg() is called on any generated graph whose parameter chains   *)
(* are well formed.  The last triple is chosen in the quantifier, so that *)
(* TLC enumerates the graphs instead of building their set.              *)
Init ==
    \E g \in Gen(N - 1), o \in Ops :
        \E t \in ShapesOf(o, N, g) :
            /\ ChainsWellFormed(Append(g, t))
            /\ InitFrom(AsGraph(Append(g, t)))

Spec == Init /\ [][Next]_vars
=============================================================================
