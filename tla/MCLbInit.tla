------------------------------- MODULE MCLbInit -------------------------------
(***************************************************************************)
(* Two sentinels.  S's user routine may fail, expand S to a letter or to *)
(* a lone quotation mark (which turns the rest of the line into a        *)
(* string), put a letter before S (the line grows until CETOOLONG), or   *)
(* replace S and the character after it by S again.  R's user routine   *)
(* always answers R: the self-reproducing escape MAX_SUBSTITUTIONS       *)
(* exists for.                                                            *)
(***************************************************************************)
EXTENDS LbInit

MCDefs ==
    [s \in {"S", "R"} |->
        IF s = "S"
        THEN {Decline,
              [skip |-> 1, text |-> <<"A">>],
              [skip |-> 1, text |-> <<"Q">>],
              [skip |-> 1, text |-> <<"A", "S">>],
              [skip |-> 2, text |-> <<"S">>]}
        ELSE {[skip |-> 1, text |-> <<"R">>]}]
=============================================================================
