------------------------------ MODULE MCBxTail -------------------------------
(***************************************************************************)
(* Model-checking instance of BxTail.  The trees are generated from a     *)
(* leaf alphabet and a connective alphabet up to a depth: a leaf is a     *)
(* relational triple, or a COBOOL/SCOBOOL over OC_GETTRUTH or over an     *)
(* ordinary value; an inner node is OC_COM or a binary connective.  One  *)
(* family of trees covers every leaf opcode, the other every nesting.    *)
(***************************************************************************)
EXTENDS BxTail, TLC

CONSTANTS
    FlatLeafOps,    \* opcodes of the leaves of the trees one connective deep
    FlatConnOps,    \* their binary connectives
    NestLeafOps,    \* opcodes of the leaves of the trees two connectives deep
    NestConnOps     \* their binary connectives

LeafTrees(leaves, i) ==
    {i :> o : o \in leaves \ Cobools}
    \cup {(i :> o) @@ (2 * i :> a) : o \in leaves \cap Cobools, a \in {"OC_GETTRUTH", "OC_VAR"}}

(* The trees rooted at node i with at most d connective levels.           *)
RECURSIVE Gen(_, _, _, _)
Gen(leaves, conns, i, d) ==
    LeafTrees(leaves, i)
    \cup IF d = 0 THEN {}
         ELSE {(i :> "OC_COM") @@ t : t \in Gen(leaves, conns, 2 * i, d - 1)}
              \cup {(i :> o) @@ l @@ r : o \in conns, l \in Gen(leaves, conns, 2 * i, d - 1),
                                               r \in Gen(leaves, conns, 2 * i + 1, d - 1)}

(* Every leaf case under one connective, and the nestings of the nested   *)
(* connectives two levels deep over a few leaves.                         *)
MCTrees == Gen(FlatLeafOps, FlatConnOps, 1, 1) \cup Gen(NestLeafOps, NestConnOps, 1, 2)
=============================================================================
