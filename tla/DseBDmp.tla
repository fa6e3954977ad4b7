-------------------------------- MODULE DseBDmp --------------------------------
(***************************************************************************)
(* dse_b_dmp() (sr_port/dse_b_dmp.c), DSE DUMP -BLOCK: dumps COUNT blocks *)
(* from BLOCK on, wrapping to block 0 past the last one, holding crit     *)
(* (or, with -NOCRIT, only pretending to) for the whole loop.  A data     *)
(* block's records are dumped one dump_record() call at a time; a local   *)
(* bitmap is printed a row of 4 x 8 blocks at a time.  Ctrl-C sets        *)
(* util_interrupt asynchronously; the loops poll it.                      *)
(*                                                                         *)
(* What t_qread() returns is chosen when the block is read: a level, a    *)
(* number of records that fit below b_top, and whether a row of a bitmap *)
(* holds a corrupt entry.  Output text is left out; the state kept is     *)
(* what the call does to crit, patch_rec_counter and its own control, and *)
(* the blocks it visits.                                                   *)
(***************************************************************************)
EXTENDS Integers, Sequences

CONSTANTS
    TotalBlks,      \* cs_addrs->ti->total_blks
    BplMap,         \* cs_addrs->hdr->bplmap, blocks per local bitmap (> 0)
    MaxRecs,        \* bound on the records of a data block
    StartBlks,      \* valid blocks dse_getblk() may return for -BLOCK
    CountArgs       \* the hex values below 80000000 -COUNT may give

BADDSEBLK == -1     \* dse_getblk() found no valid block

\* -COUNT inputs besides the plain hex values: absent, not hex, and FFFFFFFF.
NoCount == -1
BadHex  == -2
AllOnes == -3

BitsPerRow == 4 * 8                      \* the iter1 and iter2 loops, lines 201-222

(* The count the call works with, lines 65-72: 1 without -COUNT; for     *)
(* FFFFFFFF, cli_get_hex() stores the uint4 through a uint4 pointer to   *)
(* count, and count, an int4, reads it back as -1.                        *)
CountOf(c) == CASE c = NoCount -> 1 [] c = AllOnes -> -1 [] OTHER -> c

Heads == {"present", "negated", "absent"}       \* cli_present("HEADER")

Ended == {"returned", "raised"}

VARIABLES
    pc,             \* "entry", "block", "records", "after", "rows", "next", "returned", "raised"
    result,         \* "TRUE"/"FALSE" returned, or the error raised
    head, nocrit, fdmp,  \* -HEADER, -NOCRIT, patch_is_fdmp
    blk, count,
    now_crit,       \* cs_addrs->now_crit
    hold,           \* cs_addrs->hold_onto_crit
    locked,         \* the region's critical section is held
    was_crit, was_hold,
    fault,          \* rel_crit() of a critical section not held
    entry,          \* <<now_crit, hold, locked>> when the call began
    util_interrupt,
    recs,           \* records dump_record() will still return for this block
    lmap_num, invalid_bitmap,
    patch_rec_counter,
    passed,         \* blocks the loop has started on, in order
    asked,          \* the count the call was given
    intr_at         \* Len(passed) when Ctrl-C came, -1 before

vars == <<pc, result, head, nocrit, fdmp, blk, count, now_crit, hold, locked, was_crit,
          was_hold, fault, entry, util_interrupt, recs, lmap_num, invalid_bitmap,
          patch_rec_counter, passed, asked, intr_at>>

crit == <<now_crit, hold, locked, fault>>

(* The process either holds no crit, or has seized it with CRIT -SEIZE    *)
(* (crit held and hold_onto_crit set).                                     *)
Init ==
    /\ \E c \in BOOLEAN : now_crit = c /\ hold = c /\ locked = c
    /\ entry = <<now_crit, hold, locked>>
    /\ head \in Heads /\ nocrit \in BOOLEAN /\ fdmp \in BOOLEAN
    /\ pc = "entry" /\ result = "none"
    /\ blk = 0 /\ count = 0
    /\ was_crit = FALSE /\ was_hold = FALSE /\ fault = FALSE
    /\ util_interrupt = FALSE
    /\ recs = 0 /\ lmap_num = 0 /\ invalid_bitmap = FALSE
    /\ patch_rec_counter = 0
    /\ passed = <<>> /\ asked = 0 /\ intr_at = -1

(* DSE_GRAB_CRIT_AS_APPROPRIATE (dse.h): unless already in crit, take it,  *)
(* or with -NOCRIT only mark it taken, and set hold_onto_crit.             *)
GrabCrit ==
    IF now_crit
    THEN UNCHANGED <<now_crit, hold, locked, was_hold>>
    ELSE /\ now_crit' = TRUE
         /\ locked' = (locked \/ ~nocrit)
         /\ was_hold' = hold
         /\ hold' = TRUE

(* A release that forgets to restore hold_onto_crit.                     *)
RelCritKeepHold ==
    IF was_crit
    THEN UNCHANGED <<now_crit, hold, locked, fault>>
    ELSE /\ UNCHANGED hold
         /\ now_crit' = FALSE
         /\ IF nocrit THEN UNCHANGED <<locked, fault>>
            ELSE /\ locked' = FALSE
                 /\ fault' = (fault \/ ~locked)

(* DSE_REL_CRIT_AS_APPROPRIATE (dse.h): give back what GrabCrit took.      *)
RelCrit ==
    IF was_crit
    THEN UNCHANGED <<now_crit, hold, locked, fault>>
    ELSE /\ hold' = was_hold
         /\ now_crit' = FALSE
         /\ IF nocrit THEN UNCHANGED <<locked, fault>>
            ELSE /\ locked' = FALSE
                 /\ fault' = (fault \/ ~locked)

Return(v) == pc' = "returned" /\ result' = v
Raise(e)  == pc' = "raised" /\ result' = e

(* Lines 62-80: the block, the count and crit.  Nothing is held before    *)
(* crit is grabbed, so the early returns release nothing.                 *)
Start ==
    /\ pc = "entry"
    /\ \E b \in StartBlks \cup {BADDSEBLK}, c \in CountArgs \cup {NoCount, BadHex, AllOnes} :
         LET n == CountOf(c) IN
         IF b = BADDSEBLK \/ c = BadHex \/ n < 1
         THEN /\ Return("FALSE")
              /\ UNCHANGED <<blk, count, asked, patch_rec_counter, was_crit, now_crit, hold, locked, was_hold>>
         ELSE /\ blk' = b /\ count' = n /\ asked' = n
              /\ patch_rec_counter' = 1
              /\ was_crit' = now_crit
              /\ GrabCrit
              /\ pc' = "block"
              /\ UNCHANGED result
    /\ UNCHANGED <<head, nocrit, fdmp, fault, entry, util_interrupt, recs, lmap_num,
                   invalid_bitmap, passed, intr_at>>

IsMap(b) == (b \div BplMap) * BplMap = b                \* line 83

(* Lines 83-128 up to the record loop: a data block (or an index block    *)
(* under a GLO/ZWR dump, refused) is read, its header printed, and its    *)
(* records are dumped unless -HEADER.                                      *)
VisitData ==
    /\ pc = "block" /\ ~IsMap(blk)
    /\ passed' = Append(passed, blk)
    /\ \/ /\ RelCrit /\ Raise("DSEBLKRDFAIL")           \* t_qread() failed
          /\ UNCHANGED <<recs, was_hold>>
       \/ \E levl \in 0..1, n \in 0..MaxRecs :
            IF levl > 0 /\ fdmp
            THEN RelCrit /\ Return("FALSE") /\ UNCHANGED <<recs, was_hold>>
            ELSE /\ recs' = IF head # "present" /\ (~fdmp \/ levl = 0) THEN n ELSE 0
                 /\ pc' = "records"
                 /\ UNCHANGED <<crit, result, was_hold>>
    /\ UNCHANGED <<head, nocrit, fdmp, blk, count, was_crit, entry, util_interrupt,
                   lmap_num, invalid_bitmap, patch_rec_counter, asked, intr_at>>

(* Lines 126-127: while (!util_interrupt && (rp = dump_record(...))).      *)
DumpRecord ==
    /\ pc = "records"
    /\ IF ~util_interrupt /\ recs > 0
       THEN /\ recs' = recs - 1
            /\ patch_rec_counter' = patch_rec_counter + 1
            /\ UNCHANGED pc
       ELSE /\ pc' = "after"
            /\ UNCHANGED <<recs, patch_rec_counter>>
    /\ UNCHANGED <<result, head, nocrit, fdmp, blk, count, crit, was_crit, was_hold, entry,
                   util_interrupt, lmap_num, invalid_bitmap, passed, asked, intr_at>>

(* Lines 129-136: Ctrl-C during the block ends the command with CTRLC.    *)
AfterRecords ==
    /\ pc = "after"
    /\ IF util_interrupt
       THEN RelCrit /\ Raise("CTRLC")
       ELSE pc' = "next" /\ UNCHANGED <<crit, result>>
    /\ UNCHANGED <<head, nocrit, fdmp, blk, count, was_crit, was_hold, entry, util_interrupt,
                   recs, lmap_num, invalid_bitmap, patch_rec_counter, passed, asked, intr_at>>

(* Lines 137-191: a local bitmap is read and, unless -HEADER, its rows    *)
(* printed; under a GLO/ZWR dump it is passed over unread.               *)
VisitMap ==
    /\ pc = "block" /\ IsMap(blk)
    /\ IF fdmp
       THEN pc' = "next" /\ UNCHANGED <<crit, result>>
       ELSE \/ RelCrit /\ Raise("DSEBLKRDFAIL")
            \/ /\ pc' = IF head = "present" THEN "next" ELSE "rows"
               /\ UNCHANGED <<crit, result>>
    /\ passed' = Append(passed, blk)
    /\ lmap_num' = 0
    /\ UNCHANGED <<head, nocrit, fdmp, blk, count, was_crit, was_hold, entry, util_interrupt,
                   recs, invalid_bitmap, patch_rec_counter, asked, intr_at>>

RowEnd(l) == IF l + BitsPerRow < BplMap THEN l + BitsPerRow ELSE BplMap

(* Lines 192-238: one row of the map; a corrupt entry sets invalid_bitmap; *)
(* Ctrl-C is polled after each row; after the last row the legend, and    *)
(* BITMAPSBAD if any entry was corrupt.                                    *)
MapRow ==
    /\ pc = "rows"
    /\ \E bad \in BOOLEAN :
         LET inv == invalid_bitmap \/ bad IN
         /\ lmap_num' = RowEnd(lmap_num)
         /\ invalid_bitmap' = inv
         /\ CASE util_interrupt         -> RelCrit /\ Raise("CTRLC")
              [] RowEnd(lmap_num) < BplMap -> UNCHANGED <<crit, result, pc>>
              [] inv                    -> RelCrit /\ Raise("BITMAPSBAD")
              [] OTHER                  -> pc' = "next" /\ UNCHANGED <<crit, result>>
    /\ UNCHANGED <<head, nocrit, fdmp, blk, count, was_crit, was_hold, entry, util_interrupt,
                   recs, patch_rec_counter, passed, asked, intr_at>>

(* Variants of lines 242 and 245: a stop test that ignores Ctrl-C, and a  *)
(* wrap test one block late.                                               *)
StopOnCountOnly(c) == c <= 0
WrapPastEnd(b) == IF b + 1 > TotalBlks THEN 0 ELSE b + 1

(* Line 242: count--; if (count <= 0 || util_interrupt) break;            *)
StopHere(c) == c <= 0 \/ util_interrupt

(* Lines 244-246: blk++; if (blk >= total_blks) blk = 0;                   *)
Wrap(b) == IF b + 1 >= TotalBlks THEN 0 ELSE b + 1

(* Lines 241-249: the next block, wrapping at total_blks, or the end.     *)
NextBlock ==
    /\ pc = "next"
    /\ count' = count - 1
    /\ IF StopHere(count - 1)
       THEN RelCrit /\ Return("TRUE") /\ UNCHANGED blk
       ELSE /\ blk' = Wrap(blk)
            /\ pc' = "block"
            /\ UNCHANGED <<crit, result>>
    /\ UNCHANGED <<head, nocrit, fdmp, was_crit, was_hold, entry, util_interrupt, recs,
                   lmap_num, invalid_bitmap, patch_rec_counter, passed, asked, intr_at>>

(* Ctrl-C: DSE's SIGINT handler sets util_interrupt at any moment.         *)
CtrlC ==
    /\ pc \notin Ended /\ ~util_interrupt
    /\ util_interrupt' = TRUE
    /\ intr_at' = Len(passed)
    /\ UNCHANGED <<pc, result, head, nocrit, fdmp, blk, count, crit, was_crit, was_hold,
                   entry, recs, lmap_num, invalid_bitmap, patch_rec_counter, passed, asked>>

Stopped == pc \in Ended /\ UNCHANGED vars

Next == Start \/ VisitData \/ DumpRecord \/ AfterRecords \/ VisitMap \/ MapRow
        \/ NextBlock \/ CtrlC \/ Stopped

Spec == Init /\ [][Next]_vars
-----------------------------------------------------------------------------
(* Whichever way dse_b_dmp() ends -- returning TRUE or FALSE, or raising  *)
(* DSEBLKRDFAIL, CTRLC or BITMAPSBAD from inside the loop -- the process   *)
(* holds crit, and hold_onto_crit, exactly as it did on entry, and never  *)
(* releases a critical section it does not hold.                          *)
CritRestored ==
    pc \in Ended => /\ <<now_crit, hold, locked>> = entry
                    /\ ~fault

(* The blocks the dump goes through are BLOCK, BLOCK+1, ... taken modulo *)
(* total_blks, and a dump that returns TRUE without Ctrl-C has gone       *)
(* through exactly COUNT blocks.                                           *)
VisitsConsecutive ==
    /\ \A i \in 1..Len(passed) : passed[i] \in 0..(TotalBlks - 1)
    /\ \A i \in 1..Len(passed) : passed[i] = (passed[1] + i - 1) % TotalBlks
    /\ (result = "TRUE" /\ ~util_interrupt) => Len(passed) = asked

(* Ctrl-C ends the dump: once util_interrupt is set, the loop starts at  *)
(* most one more block (the one it was moving to as Ctrl-C came),         *)
(* whatever the kinds of the blocks that follow.                          *)
StopsOnCtrlC ==
    intr_at >= 0 => Len(passed) <= intr_at + 1
=============================================================================
