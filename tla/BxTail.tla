-------------------------------- MODULE BxTail --------------------------------
(***************************************************************************)
(* bx_tail() (sr_port/bx_tail.c): the lowering of a Boolean-valued triple  *)
(* into conditional jumps that reach a target exactly when the value of   *)
(* the expression equals the requested sense.                             *)
(*                                                                         *)
(* A Boolean expression is a triple tree; a node is a heap index i whose  *)
(* operands are 2i and 2i+1, and opcode[i] is its opcode.  The recursion  *)
(* of bx_tail() and bx_boolop() is kept as an explicit stack of pending   *)
(* calls, so that one step is one activation of bx_tail (one case of its  *)
(* switch) and the emitted triples appear in the order they reach the     *)
(* execution chain.  A jump target is 0 for the caller's addr, or node i  *)
(* for the "next" label that bx_boolop() plants after the triple i.       *)
(*                                                                         *)
(* bx_relop(), bx_boolop(), bx_sboolop() and CONVERT_TO_SE are not in the *)
(* sources; they are modelled from their documented contract.             *)
(***************************************************************************)
EXTENDS Integers, Sequences, FiniteSets

CONSTANTS
    Trees   \* the Boolean triple trees handed to bx_tail(), as functions node -> opcode

VARIABLES
    input,      \* the tree as handed to bx_tail(), kept for the properties
    opcode,     \* the current opcode of every node of the tree
    extbool,    \* TREF(gtm_fullbool) = EXT_BOOL
    sense0,     \* the sense of the outermost call
    stack,      \* pending activations: bx_tail calls and labels still to plant
    code        \* the jump/compare triples emitted so far, in execution order

vars == <<input, opcode, extbool, sense0, stack, code>>

Addr == 0

Call(i, s, tgt) == [kind |-> "tail", node |-> i, sense |-> s, tgt |-> tgt]
Label(i)        == [kind |-> "label", node |-> i, sense |-> FALSE, tgt |-> Addr]

(* An emitted triple: a compare that sets the condition code from node i, *)
(* a conditional jump, a label, or a full (non-short-circuit) evaluation. *)
Ins(k, i, cond, tgt) == [kind |-> k, node |-> i, cond |-> cond, tgt |-> tgt]
Cmp(i)          == Ins("cmp", i, "", Addr)
Jmp(j, tgt)     == Ins("jmp", 0, j, tgt)

(* oc_tab[].octype & OCT_NEGATED *)
Negated == {"OC_NEQU", "OC_NPATTERN", "OC_NFOLLOW", "OC_NSORTS_AFTER", "OC_NCONTAIN",
            "OC_NGT", "OC_NLT", "OC_NAND", "OC_NOR", "OC_SNAND", "OC_SNOR"}

(* The relational cases of the switch: the canonical compare bx_relop()   *)
(* turns the triple into, and the jump for sense TRUE and for FALSE.      *)
RelTabLtGtr ==
    LET R(c, t, f) == [cmp |-> c, t |-> t, f |-> f] IN
    [OC_EQU |-> R("OC_EQU", "OC_JMPNEQ", "OC_JMPEQU"), OC_NEQU |-> R("OC_EQU", "OC_JMPNEQ", "OC_JMPEQU"),
     OC_PATTERN |-> R("OC_PATTERN", "OC_JMPNEQ", "OC_JMPEQU"), OC_NPATTERN |-> R("OC_PATTERN", "OC_JMPNEQ", "OC_JMPEQU"),
     OC_FOLLOW |-> R("OC_FOLLOW", "OC_JMPGTR", "OC_JMPLEQ"), OC_NFOLLOW |-> R("OC_FOLLOW", "OC_JMPGTR", "OC_JMPLEQ"),
     OC_SORTS_AFTER |-> R("OC_SORTS_AFTER", "OC_JMPGTR", "OC_JMPLEQ"),
     OC_NSORTS_AFTER |-> R("OC_SORTS_AFTER", "OC_JMPGTR", "OC_JMPLEQ"),
     OC_CONTAIN |-> R("OC_CONTAIN", "OC_JMPNEQ", "OC_JMPEQU"), OC_NCONTAIN |-> R("OC_CONTAIN", "OC_JMPNEQ", "OC_JMPEQU"),
     OC_GT |-> R("OC_NUMCMP", "OC_JMPGTR", "OC_JMPLEQ"), OC_NGT |-> R("OC_NUMCMP", "OC_JMPGTR", "OC_JMPLEQ"),
     OC_LT |-> R("OC_NUMCMP", "OC_JMPLSS", "OC_JMPGTR"), OC_NLT |-> R("OC_NUMCMP", "OC_JMPLSS", "OC_JMPGTR")]

RelTab ==
    LET R(c, t, f) == [cmp |-> c, t |-> t, f |-> f] IN
    [OC_EQU         |-> R("OC_EQU", "OC_JMPNEQ", "OC_JMPEQU"),
     OC_NEQU        |-> R("OC_EQU", "OC_JMPNEQ", "OC_JMPEQU"),
     OC_PATTERN     |-> R("OC_PATTERN", "OC_JMPNEQ", "OC_JMPEQU"),
     OC_NPATTERN    |-> R("OC_PATTERN", "OC_JMPNEQ", "OC_JMPEQU"),
     OC_FOLLOW      |-> R("OC_FOLLOW", "OC_JMPGTR", "OC_JMPLEQ"),
     OC_NFOLLOW     |-> R("OC_FOLLOW", "OC_JMPGTR", "OC_JMPLEQ"),
     OC_SORTS_AFTER |-> R("OC_SORTS_AFTER", "OC_JMPGTR", "OC_JMPLEQ"),
     OC_NSORTS_AFTER|-> R("OC_SORTS_AFTER", "OC_JMPGTR", "OC_JMPLEQ"),
     OC_CONTAIN     |-> R("OC_CONTAIN", "OC_JMPNEQ", "OC_JMPEQU"),
     OC_NCONTAIN    |-> R("OC_CONTAIN", "OC_JMPNEQ", "OC_JMPEQU"),
     OC_GT          |-> R("OC_NUMCMP", "OC_JMPGTR", "OC_JMPLEQ"),
     OC_NGT         |-> R("OC_NUMCMP", "OC_JMPGTR", "OC_JMPLEQ"),
     OC_LT          |-> R("OC_NUMCMP", "OC_JMPLSS", "OC_JMPGEQ"),
     OC_NLT         |-> R("OC_NUMCMP", "OC_JMPLSS", "OC_JMPGEQ")]

(* CONVERT_TO_SE: the short-circuit connectives become their              *)
(* evaluate-both-sides forms.                                             *)
ToSE == [OC_AND |-> "OC_SAND", OC_NAND |-> "OC_SNAND", OC_OR |-> "OC_SOR", OC_NOR |-> "OC_SNOR"]

Init ==
    /\ input \in Trees
    /\ opcode = input
    /\ extbool \in BOOLEAN
    /\ sense0 \in BOOLEAN
    /\ stack = <<Call(1, sense0, Addr)>>
    /\ code = <<>>

(* The activation on top of the stack, with the sense flipped for a       *)
(* negated opcode and the opcode converted under EXT_BOOL.                *)
Top   == Head(stack)
T     == Top.node
Sense == IF opcode[T] \in Negated THEN ~Top.sense ELSE Top.sense
CNoConvert == opcode[T]

C     == IF extbool /\ opcode[T] \in DOMAIN ToSE THEN ToSE[opcode[T]] ELSE opcode[T]

Active == stack # <<>> /\ Top.kind = "tail"

(* A case of the switch that emits triples and returns.                  *)
Emit(ins, ops) ==
    /\ code' = code \o ins
    /\ stack' = Tail(stack)
    /\ opcode' = ops
    /\ UNCHANGED <<input, extbool, sense0>>

CoboolTruth ==
    /\ Active
    /\ C = "OC_COBOOL"
    /\ opcode[2 * T] = "OC_GETTRUTH"
    /\ Emit(<<Ins("jmpt", T, IF Sense THEN "OC_JMPTSET" ELSE "OC_JMPTCLR", Top.tgt)>>,
            [opcode EXCEPT ![2 * T] = "OC_NOOP",
                           ![T] = IF Sense THEN "OC_JMPTSET" ELSE "OC_JMPTCLR"])

Cobool ==
    /\ Active
    /\ C = "OC_COBOOL"
    /\ opcode[2 * T] # "OC_GETTRUTH"
    /\ Emit(<<Cmp(T), Jmp(IF Sense THEN "OC_JMPNEQ" ELSE "OC_JMPEQU", Top.tgt)>>, opcode)

Scobool ==
    /\ Active
    /\ C = "OC_SCOBOOL"
    /\ Emit(<<Cmp(T), Jmp(IF Sense THEN "OC_JMPNEQ" ELSE "OC_JMPEQU", Top.tgt)>>,
            [opcode EXCEPT ![T] = "OC_COBOOL"])

ComRightOperand ==
    /\ Active
    /\ C = "OC_COM"
    /\ stack' = <<Call(2 * T + 1, ~Sense, Top.tgt)>> \o Tail(stack)
    /\ opcode' = [opcode EXCEPT ![T] = "OC_NOOP"]
    /\ UNCHANGED <<input, extbool, sense0, code>>

Com ==
    /\ Active
    /\ C = "OC_COM"
    /\ stack' = <<Call(2 * T, ~Sense, Top.tgt)>> \o Tail(stack)
    /\ opcode' = [opcode EXCEPT ![T] = "OC_NOOP"]
    /\ UNCHANGED <<input, extbool, sense0, code>>

(* bx_relop(t, cmp, jmp, addr): t becomes the compare and the jump to    *)
(* addr is inserted after it.                                             *)
BxRelop(cmp, jmp) == Emit(<<Cmp(T), Jmp(jmp, Top.tgt)>>, [opcode EXCEPT ![T] = cmp])

Relop ==
    /\ Active
    /\ C \in DOMAIN RelTab
    /\ BxRelop(RelTab[C].cmp, IF Sense THEN RelTab[C].t ELSE RelTab[C].f)

(* bx_boolop(t, jmp_type_one, jmp_to_next, sense, addr): the left operand *)
(* jumps with sense jmp_type_one, to the label after t when jmp_to_next,  *)
(* else to addr; the right operand is lowered with (sense, addr).         *)
BxBoolopRightFirst(jmp_type_one, jmp_to_next, sense) ==
    /\ stack' = <<Call(2 * T + 1, jmp_type_one, IF jmp_to_next THEN T ELSE Top.tgt),
                  Call(2 * T, sense, Top.tgt)>>
                \o (IF jmp_to_next THEN <<Label(T)>> ELSE <<>>)
                \o Tail(stack)
    /\ opcode' = [opcode EXCEPT ![T] = "OC_NOOP"]
    /\ UNCHANGED <<input, extbool, sense0, code>>

BxBoolop(jmp_type_one, jmp_to_next, sense) ==
    /\ stack' = <<Call(2 * T, jmp_type_one, IF jmp_to_next THEN T ELSE Top.tgt),
                  Call(2 * T + 1, sense, Top.tgt)>>
                \o (IF jmp_to_next THEN <<Label(T)>> ELSE <<>>)
                \o Tail(stack)
    /\ opcode' = [opcode EXCEPT ![T] = "OC_NOOP"]
    /\ UNCHANGED <<input, extbool, sense0, code>>

BoolOpOrAsAnd ==
    /\ Active
    /\ \/ C \in {"OC_AND", "OC_NAND"} /\ BxBoolop(FALSE, Sense, Sense)
       \/ C \in {"OC_OR", "OC_NOR"}   /\ BxBoolop(TRUE, Sense, Sense)

BoolOp ==
    /\ Active
    /\ \/ C \in {"OC_AND", "OC_NAND"} /\ BxBoolop(FALSE, Sense, Sense)
       \/ C \in {"OC_OR", "OC_NOR"}   /\ BxBoolop(TRUE, ~Sense, Sense)

(* bx_sboolop(): both operands are evaluated unconditionally into one     *)
(* truth value, then a single jump on it.                                 *)
BxSboolop(jmp_type_one, sense) ==
    Emit(<<Ins("full", T, IF jmp_type_one THEN "OR" ELSE "AND", Addr),
           Jmp(IF sense THEN "OC_JMPNEQ" ELSE "OC_JMPEQU", Top.tgt)>>,
         opcode)

SBoolOp ==
    /\ Active
    /\ \/ C \in {"OC_SAND", "OC_SNAND"} /\ BxSboolop(FALSE, Sense)
       \/ C \in {"OC_SOR", "OC_SNOR"}   /\ BxSboolop(TRUE, Sense)

(* Return from bx_boolop(): its "next" label follows the right operand.   *)
PlaceLabel ==
    /\ stack # <<>>
    /\ Top.kind = "label"
    /\ code' = Append(code, Ins("lbl", T, "", Addr))
    /\ stack' = Tail(stack)
    /\ UNCHANGED <<input, opcode, extbool, sense0>>

(* bx_tail() has returned to its caller.                                  *)
Returned ==
    /\ stack = <<>>
    /\ UNCHANGED vars

Next == CoboolTruth \/ Cobool \/ Scobool \/ Com \/ Relop \/ BoolOp \/ SBoolOp
        \/ PlaceLabel \/ Returned

Spec == Init /\ [][Next]_vars

-----------------------------------------------------------------------------
(***************************************************************************)
(* What the emitted code does.  A leaf is a relational, COBOOL or SCOBOOL *)
(* triple; an environment gives each leaf the result of its runtime       *)
(* compare: -1, 0 or 1 for the ordering compares (OC_FOLLOW,              *)
(* OC_SORTS_AFTER, OC_NUMCMP), 0 or 1 for the truth-valued ones and for   *)
(* the COBOOL operand or $TEST.                                            *)
(***************************************************************************)
Cobools  == {"OC_COBOOL", "OC_SCOBOOL"}
Ordering == {"OC_FOLLOW", "OC_NFOLLOW", "OC_SORTS_AFTER", "OC_NSORTS_AFTER",
             "OC_GT", "OC_NGT", "OC_LT", "OC_NLT"}
Leaves   == {i \in DOMAIN input : input[i] \in DOMAIN RelTab \cup Cobools}
Envs     == {e \in [Leaves -> {-1, 0, 1}] :
                \A i \in Leaves : input[i] \notin Ordering => e[i] \in {0, 1}}

RECURSIVE Under(_, _)
Under(n, i) == n = i \/ (n > i /\ Under(n \div 2, i))

LeavesUnder(i) == {n \in Leaves : Under(n, i)}

(* The M truth value of node i, from the meaning of each operator.        *)
RECURSIVE Truth(_, _)
Truth(i, e) ==
    LET o   == input[i]
        pos == CASE o \in {"OC_LT", "OC_NLT"}             -> e[i] < 0
                 [] o \in Ordering                         -> e[i] > 0
                 [] o \in DOMAIN RelTab \cup Cobools       -> e[i] # 0
                 [] o = "OC_COM"                           -> ~Truth(2 * i, e)
                 [] o \in {"OC_AND", "OC_NAND", "OC_SAND", "OC_SNAND"} ->
                        Truth(2 * i, e) /\ Truth(2 * i + 1, e)
                 [] OTHER -> Truth(2 * i, e) \/ Truth(2 * i + 1, e)
    IN  IF o \in Negated THEN ~pos ELSE pos

(* The leaves M evaluates: a short-circuit connective skips its right     *)
(* operand once the left decides it; under EXT_BOOL, or for the S-forms,  *)
(* every operand is evaluated.                                            *)
RECURSIVE Needed(_, _)
Needed(i, e) ==
    LET o == input[i] IN
    CASE i \in Leaves                                  -> {i}
      [] o = "OC_COM"                                  -> Needed(2 * i, e)
      [] extbool \/ o \in {"OC_SAND", "OC_SNAND", "OC_SOR", "OC_SNOR"} -> LeavesUnder(i)
      [] o \in {"OC_AND", "OC_NAND"} ->
             Needed(2 * i, e) \cup (IF Truth(2 * i, e) THEN Needed(2 * i + 1, e) ELSE {})
      [] OTHER ->
             Needed(2 * i, e) \cup (IF Truth(2 * i, e) THEN {} ELSE Needed(2 * i + 1, e))

Holds(j, cc) ==
    CASE j = "OC_JMPNEQ" -> cc # 0  [] j = "OC_JMPEQU" -> cc = 0
      [] j = "OC_JMPGTR" -> cc > 0  [] j = "OC_JMPLEQ" -> cc <= 0
      [] j = "OC_JMPLSS" -> cc < 0  [] j = "OC_JMPGEQ" -> cc >= 0

(* Runs the emitted code from pc with condition code cc; ev collects the  *)
(* leaves evaluated.  A jump to a label not planted later is "stray".     *)
RECURSIVE Exec(_, _, _, _)
Exec(pc, cc, ev, e) ==
    LET ins  == code[pc]
        Goto(tgt, ev2) ==
            IF tgt = Addr THEN [out |-> "addr", ev |-> ev2]
            ELSE IF \E p \in (pc + 1)..Len(code) : code[p] = Ins("lbl", tgt, "", Addr)
                 THEN Exec(CHOOSE p \in (pc + 1)..Len(code) : code[p] = Ins("lbl", tgt, "", Addr),
                           cc, ev2, e)
                 ELSE [out |-> "stray", ev |-> ev2]
        val == IF ins.cond = "AND" THEN Truth(2 * ins.node, e) /\ Truth(2 * ins.node + 1, e)
                                   ELSE Truth(2 * ins.node, e) \/ Truth(2 * ins.node + 1, e)
    IN  IF pc > Len(code) THEN [out |-> "fall", ev |-> ev]
        ELSE CASE ins.kind = "cmp"  -> Exec(pc + 1, e[ins.node], ev \cup {ins.node}, e)
               [] ins.kind = "lbl"  -> Exec(pc + 1, cc, ev, e)
               [] ins.kind = "full" -> Exec(pc + 1, IF val THEN 1 ELSE 0,
                                            ev \cup LeavesUnder(ins.node), e)
               [] ins.kind = "jmpt" ->
                      IF (e[ins.node] # 0) = (ins.cond = "OC_JMPTSET")
                      THEN Goto(ins.tgt, ev \cup {ins.node})
                      ELSE Exec(pc + 1, cc, ev \cup {ins.node}, e)
               [] OTHER ->
                      IF Holds(ins.cond, cc) THEN Goto(ins.tgt, ev) ELSE Exec(pc + 1, cc, ev, e)

Run(e) == Exec(1, 0, {}, e)

-----------------------------------------------------------------------------
Ops == DOMAIN RelTab \cup Cobools \cup DOMAIN ToSE \cup {"OC_SAND", "OC_SNAND", "OC_SOR", "OC_SNOR",
       "OC_COM", "OC_GETTRUTH", "OC_VAR", "OC_NOOP", "OC_JMPTSET", "OC_JMPTCLR", "OC_NUMCMP"}

TypeOK ==
    /\ opcode \in [DOMAIN input -> Ops]
    /\ extbool \in BOOLEAN /\ sense0 \in BOOLEAN
    /\ \A k \in 1..Len(stack) : stack[k].kind \in {"tail", "label"} /\ stack[k].node \in DOMAIN input
    /\ \A k \in 1..Len(code) : code[k].kind \in {"cmp", "jmp", "jmpt", "lbl", "full"}

(* The contract of bx_tail(): once it returns, the emitted code reaches   *)
(* addr exactly when the expression's value equals the requested sense,   *)
(* for every outcome of every compare -- the polarity table of the        *)
(* relational cases, the sense flip of negated opcodes and OC_COM, and    *)
(* the intermediate senses and targets bx_tail() passes to bx_boolop().   *)
LoweringCorrect ==
    stack = <<>> => \A e \in Envs : (Run(e).out = "addr") <=> (Truth(1, e) = sense0)

(* The emitted code evaluates exactly the leaves M evaluates: AND/OR      *)
(* short-circuit unless EXT_BOOL made bx_tail() convert them              *)
(* (CONVERT_TO_SE), in which case every operand's side effects happen.    *)
ShortCircuitExact ==
    stack = <<>> => \A e \in Envs : Run(e).ev = Needed(1, e)
=============================================================================
