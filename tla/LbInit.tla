-------------------------------- MODULE LbInit --------------------------------
(***************************************************************************)
(* lb_init() (sr_port/lb_init.c): before the compiler reads a source line, *)
(* every compiler-escape sentinel of ce_def_list that stands in M code --  *)
(* not inside a string literal or a pattern -- is handed to               *)
(* ce_substitute(), which may replace it (and the characters after it) by *)
(* the text a user routine returns.  After a substitution the same column *)
(* is scanned again, so the replacement may itself contain sentinels; at  *)
(* most MAX_SUBSTITUTIONS substitutions are scanned again, later ones     *)
(* report CETOOMANY and the scan moves on.                                *)
(*                                                                         *)
(* A line is a sequence of character classes:                              *)
(*   "Q"  a quotation mark           "P"  a question mark (pattern match)  *)
(*   "A"  a letter, digit, "." or "@" (the characters of a pattern code)   *)
(*   "O"  any other printable ASCII character                              *)
(*   "H"  a byte above DEL                                                 *)
(*   and the sentinels, the domain of Defs, each one token.                *)
(* The NUL that ends the buffer is At(l, Len(l) + 1) = "N".  No other      *)
(* byte below SP occurs in a source line.                                  *)
(***************************************************************************)
EXTENDS Integers, Sequences, FiniteSets

CONSTANTS
    Defs,               \* sentinel -> the answers its user routine may give,
                        \* Decline among them if it can fail
    MaxSubstitutions,   \* MAX_SUBSTITUTIONS (1024 in the code)
    MaxLine,            \* MAX_SRCLINE, in tokens
    MaxInitLen          \* longest source line the model starts from

Sentinels == DOMAIN Defs

Chars == {"Q", "P", "A", "O", "H"} \cup Sentinels

(* The user routine's refusal (an error status): nothing is replaced.     *)
Decline == [skip |-> 0, text |-> <<>>]

VARIABLES
    pc,         \* "entry", "scan" (the while loop), "finish", "done"
    defs,       \* the sentinels on ce_def_list ({} when it is NULL)
    line,       \* the source buffer up to its NUL
    col,        \* source_col
    num_subs,   \* num_subs, capped at MaxSubstitutions + 1
    skip_count, \* skip_count, as the last ce_substitute() left it
    toomany,    \* CETOOMANY has been reported for this line
    declined,   \* columns whose sentinel ce_substitute() did not replace
    last        \* line, column and CETOOMANY state of the last ce_substitute() call

vars == <<pc, defs, line, col, num_subs, skip_count, toomany, declined, last>>

At(l, i) == IF i <= Len(l) THEN l[i] ELSE "N"

(* Mutant: a doubled quotation mark taken for the end of the string.     *)
RECURSIVE StrEndNoEscape(_, _)
StrEndNoEscape(l, j) ==
    CASE At(l, j) = "N" -> j
      [] At(l, j) = "Q" -> j + 1
      [] OTHER          -> StrEndNoEscape(l, j + 1)

(* Lines 64-76: the column just after a string whose body starts at j.     *)
(* A doubled quotation mark is part of the string; a byte below SP (only   *)
(* the NUL here) ends the scan.                                            *)
RECURSIVE StrEnd(_, _)
StrEnd(l, j) ==
    CASE At(l, j) = "N"                     -> j
      [] At(l, j) = "Q" /\ At(l, j + 1) = "Q" -> StrEnd(l, j + 2)
      [] At(l, j) = "Q"                     -> j + 1
      [] OTHER                              -> StrEnd(l, j + 1)

(* Lines 80-108: the column just after the pattern codes and quoted        *)
(* strings that follow a "?", starting at j.  The quoted-string loop of    *)
(* lines 92-105 is the same scan as StrEnd.                                *)
RECURSIVE PatEnd(_, _)
PatEnd(l, j) ==
    CASE At(l, j) = "H" -> j
      [] At(l, j) = "A" -> PatEnd(l, j + 1)
      [] At(l, j) = "Q" -> PatEnd(l, StrEnd(l, j + 1))
      [] OTHER          -> j

(* Lines 62-112: where the sentinel test of an iteration starting at c is  *)
(* made.                                                                    *)
SkipFrom(l, c) ==
    CASE At(l, c) = "Q" -> StrEnd(l, c + 1)
      [] At(l, c) = "P" -> PatEnd(l, c + 1)
      [] OTHER          -> c

(* ce_substitute() (not in the sources): the user routine's answer o for  *)
(* the sentinel at p replaces o.skip characters by o.text, unless it      *)
(* declined, skips past the NUL (CEBIGSKIP) or makes the line too long    *)
(* (CETOOLONG); skip_count is left positive exactly when it replaced.     *)
(* Mutant: no CETOOLONG check. *)
ReplacesUnbounded(l, p, o) ==
    /\ o.skip > 0
    /\ p + o.skip - 1 <= Len(l)

Replaces(l, p, o) ==
    /\ o.skip > 0
    /\ p + o.skip - 1 <= Len(l)
    /\ Len(l) - o.skip + Len(o.text) <= MaxLine

CeSubstitute(l, p, o) ==
    IF Replaces(l, p, o)
    THEN SubSeq(l, 1, p - 1) \o o.text \o SubSeq(l, p + o.skip, Len(l))
    ELSE l

(* Mutants: the column after the sentinel, replaced or not; the limit   *)
(* ignored.                                                               *)
ResumeAfter(p, n, k) == p + 1

ResumeNoLimit(p, n, k) == IF k > 0 THEN p ELSE p + 1

(* Lines 117-129 and 133-137: the column the next iteration starts at.    *)
Resume(p, n, k) == IF n <= MaxSubstitutions /\ k > 0 THEN p ELSE p + 1

Init ==
    /\ pc = "entry"
    /\ defs \in SUBSET Sentinels
    /\ line \in UNION {[1..n -> Chars] : n \in 0..MaxInitLen}
    /\ col = 1
    /\ num_subs = 0
    /\ skip_count = 0
    /\ toomany = FALSE
    /\ declined = {}
    /\ last = [line |-> <<>>, col |-> 0, late |-> FALSE]

(* Lines 47-56: the scan runs only when ce_def_list is not NULL.          *)
Enter ==
    /\ pc = "entry"
    /\ pc' = IF defs = {} THEN "finish" ELSE "scan"
    /\ UNCHANGED <<defs, line, col, num_subs, skip_count, toomany, declined, last>>

(* Lines 59-61, 77-78 and 110-111: the iteration meets the NUL or, at its *)
(* first column, a byte above DEL; the loop is left.                      *)
ScanEnd ==
    /\ pc = "scan"
    /\ \/ At(line, col) \in {"N", "H"} /\ UNCHANGED col
       \/ /\ At(line, col) \in {"Q", "P"}
          /\ At(line, SkipFrom(line, col)) = "N"
          /\ col' = SkipFrom(line, col)
    /\ pc' = "finish"
    /\ UNCHANGED <<defs, line, num_subs, skip_count, toomany, declined, last>>

(* Lines 113-138 when no sentinel of the list starts at the column the    *)
(* skips reached: the next iteration starts one column on.                *)
ScanPlain ==
    /\ pc = "scan"
    /\ At(line, col) \notin {"N", "H"}
    /\ LET p == SkipFrom(line, col) IN
       /\ At(line, p) # "N"
       /\ At(line, p) \notin defs
       /\ col' = p + 1
    /\ UNCHANGED <<pc, defs, line, num_subs, skip_count, toomany, declined, last>>

(* Lines 113-132: a sentinel starts at column p.  ce_substitute() is      *)
(* called, num_subs counted, and CETOOMANY reported past the limit; the   *)
(* next iteration scans p again only after a substitution within the      *)
(* limit.                                                                  *)
ScanSentinel ==
    /\ pc = "scan"
    /\ At(line, col) \notin {"N", "H"}
    /\ LET p == SkipFrom(line, col) IN
       /\ At(line, p) \in defs
       /\ \E o \in Defs[At(line, p)] :
             LET k == IF Replaces(line, p, o) THEN o.skip ELSE 0
                 n == IF num_subs > MaxSubstitutions THEN num_subs
                      ELSE num_subs + 1
             IN
             /\ line' = CeSubstitute(line, p, o)
             /\ skip_count' = k
             /\ num_subs' = n
             /\ toomany' = (toomany \/ n > MaxSubstitutions)
             /\ col' = Resume(p, n, k)
             /\ declined' = IF k = 0 THEN declined \cup {p} ELSE declined
             /\ last' = [line |-> line, col |-> p, late |-> toomany]
    /\ UNCHANGED <<pc, defs>>

(* Lines 141-144: the lexer is started on the (substituted) line.         *)
Finish ==
    /\ pc = "finish"
    /\ pc' = "done"
    /\ UNCHANGED <<defs, line, col, num_subs, skip_count, toomany, declined, last>>

Done ==
    /\ pc = "done"
    /\ UNCHANGED vars

Next == Enter \/ ScanEnd \/ ScanPlain \/ ScanSentinel \/ Finish \/ Done

(* lb_init() is straight-line code around one loop: every step, once      *)
(* enabled, is taken.                                                      *)
Spec == Init /\ [][Next]_vars /\ WF_vars(Enter \/ ScanEnd \/ ScanPlain \/ ScanSentinel \/ Finish)

-----------------------------------------------------------------------------
(***************************************************************************)
(* Reference: M's lexical rule for string literals, applied to a whole    *)
(* line from its first column.  A quotation mark outside a string opens   *)
(* one; inside, a doubled quotation mark stands for itself and a single   *)
(* one closes it.                                                          *)
(***************************************************************************)
RECURSIVE StringColsFrom(_, _, _)
StringColsFrom(l, j, in) ==
    IF j > Len(l) THEN {}
    ELSE CASE ~in /\ l[j] = "Q" -> {j} \cup StringColsFrom(l, j + 1, TRUE)
           [] in /\ l[j] = "Q" /\ At(l, j + 1) = "Q"
                               -> {j, j + 1} \cup StringColsFrom(l, j + 2, TRUE)
           [] in /\ l[j] = "Q" -> {j} \cup StringColsFrom(l, j + 1, FALSE)
           [] in               -> {j} \cup StringColsFrom(l, j + 1, TRUE)
           [] OTHER            -> StringColsFrom(l, j + 1, FALSE)

StringCols(l) == StringColsFrom(l, 1, FALSE)

(* The columns of M code, and the first byte above DEL in M code.         *)
CodeCols(l) == (1..Len(l)) \ StringCols(l)

FirstHigh(l) ==
    LET hs == {i \in CodeCols(l) : l[i] = "H"} IN
    IF hs = {} THEN Len(l) + 1 ELSE CHOOSE i \in hs : \A h \in hs : i <= h

TypeOK ==
    /\ pc \in {"entry", "scan", "finish", "done"}
    /\ defs \subseteq Sentinels
    /\ line \in Seq(Chars) /\ Len(line) <= MaxLine
    /\ col \in 1..MaxLine + 1
    /\ num_subs \in 0..MaxSubstitutions + 1
    /\ skip_count \in Nat
    /\ toomany \in BOOLEAN
    /\ declined \subseteq 1..MaxLine
    /\ last \in [line : Seq(Chars), col : 0..MaxLine, late : BOOLEAN]

(* Until CETOOMANY is reported, lb_init() hands ce_substitute() only      *)
(* sentinels that stand in M code: the column of every call is outside   *)
(* every string literal of the line as it was at that moment, however    *)
(* earlier substitutions, doubled quotation marks and pattern strings    *)
(* shaped it.  (Past the limit a replacement is stepped over unscanned,  *)
(* so a quotation mark in it is not seen.)                               *)
NoSubstitutionInString ==
    last.col # 0 /\ ~last.late => last.col \notin StringCols(last.line)

(* When lb_init() returns without CETOOMANY, no sentinel of the list is   *)
(* left in M code before the first byte above DEL, unless ce_substitute() *)
(* declined it: a replacement that begins with, or contains, a sentinel  *)
(* has had that sentinel replaced in turn.                                *)
SentinelsReplaced ==
    pc = "done" /\ ~toomany =>
        \A i \in CodeCols(line) :
            i < FirstHigh(line) /\ line[i] \in defs => i \in declined

(* lb_init() returns for every line, even when each replacement brings a  *)
(* new sentinel: MAX_SUBSTITUTIONS stops scanning a column again, and     *)
(* MAX_SRCLINE bounds how far the line can grow.                          *)
Terminates == <>(pc = "done")
=============================================================================
