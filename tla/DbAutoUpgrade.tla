----------------------------- MODULE DbAutoUpgrade ----------------------------
(***************************************************************************)
(* db_auto_upgrade() (sr_port/db_auto_upgrade.c): on every database open  *)
(* the file header of an older minor version gets the fields later        *)
(* releases added, through a switch whose cases fall through from the     *)
(* header's version to GDSMR134.                                          *)
(*                                                                         *)
(* A field is abstracted to the upgrade step that sets it, and a header   *)
(* to its version, the steps applied to it, and the flags the function    *)
(* reads.  Whether a header needs a step is given by a reference: the     *)
(* release that introduced the field, as the comments of each case say,  *)
(* and the lineage of the header.  YottaDB headers carry GT.M fields up   *)
(* to the GT.M release they merged, plus their own; GDSMR122 shares its   *)
(* minor version with GDSMV63007 but not its fields.                      *)
(***************************************************************************)
EXTENDS Naturals, Sequences, FiniteSets

CONSTANTS
    MaxOpens        \* bound on db_auto_upgrade() calls (database opens)

\* The minor versions in the order of the switch (gdsdbver_sp.h enum).
Versions == <<"V50000", "V51000ALT", "V51000", "V52000", "V53000", "V53003", "V53004",
              "V54000", "V54002", "V54002B", "V55000", "V60000", "V60001", "V60002",
              "V62001", "V62002", "V63000", "V63000A", "V63001", "V63003", "V63007",
              "V63012", "V63014", "R126", "R130", "R134", "R136">>
Idx(ver) == CHOOSE i \in 1..Len(Versions) : Versions[i] = ver
GDSMVCURR == "R136"

\* The steps of each case block, and the one guarded by GDSMR126 <= minor_dbver.
CaseSteps == [c \in {"V53000", "V53003", "V53004", "V54002", "V54002B", "V55000", "V60001",
                     "V60002", "V62001", "V62002", "V63000", "V63000A", "V63001", "V63003",
                     "V63007", "V63012", "R126", "R130"} |->
    CASE c = "V53000"  -> {"gvstats_upgrade"}
      [] c = "V53003"  -> {"encryption"}
      [] c = "V53004"  -> {"trigger_cycle"}
      [] c = "V54002"  -> {"jnl_eovtn"}
      [] c = "V54002B" -> {"filler_seqno"}
      [] c = "V55000"  -> {"span_defaults"}
      [] c = "V60001"  -> {"num_crit_entry"}
      [] c = "V60002"  -> {"hasht_upgrade"}
      [] c = "V62001"  -> {"hasht_upgrade", "defer_epoch_taper"}
      [] c = "V62002"  -> {"encryption_iv"}
      [] c = "V63000"  -> {"counter_halted"}
      [] c = "V63000A" -> {"eof_block"}
      [] c = "V63001"  -> {"read_only"}
      [] c = "V63003"  -> {"flush_trigger_top", "reorg_sleep_nsec"}
      [] c = "V63007"  -> {"write_fullblk"}
      [] c = "V63012"  -> {"gvstats_move"}
      [] c = "R126"    -> {"flush_time_ns"}
      [] c = "R130"    -> {"max_procs"}]
R134Steps == {"write_fullblk", "gvstats_move", "relocate"}

(***************************************************************************)
(* Reference: the release that introduced each field, its kind, and the  *)
(* fields a header of a given lineage and version already has.  "zero"   *)
(* fields need nothing (they lie in formerly unused, zeroed space);       *)
(* "value" fields need a non-zero default or clearing of an obsolete one; *)
(* "conversion" steps transform existing data and must run exactly once. *)
(***************************************************************************)
Fields == {"gvstats_upgrade", "encryption", "trigger_cycle", "jnl_eovtn", "filler_seqno",
           "span_defaults", "num_crit_entry", "hasht_upgrade", "defer_epoch_taper",
           "encryption_iv", "counter_halted", "eof_block", "read_only", "flush_trigger_top",
           "reorg_sleep_nsec", "write_fullblk", "gvstats_move", "flush_time_ns", "max_procs",
           "relocate"}
GtmIntro == [f \in Fields |->
    CASE f = "gvstats_upgrade" -> "V53003"  [] f = "encryption" -> "V53004"
      [] f = "trigger_cycle" -> "V54000"    [] f = "jnl_eovtn" -> "V54002B"
      [] f = "filler_seqno" -> "V55000"     [] f = "span_defaults" -> "V60000"
      [] f = "num_crit_entry" -> "V60002"   [] f = "hasht_upgrade" -> "V62001"
      [] f = "defer_epoch_taper" -> "V62002" [] f = "encryption_iv" -> "V63000"
      [] f = "counter_halted" -> "V63000A"  [] f = "eof_block" -> "V63001"
      [] f = "read_only" -> "V63003"        [] f = "flush_trigger_top" -> "V63007"
      [] f = "write_fullblk" -> "V63012"    [] f = "gvstats_move" -> "V63014"
      [] OTHER -> "R136"]
YdbIntro == [f \in Fields |->
    CASE f = "reorg_sleep_nsec" -> "R126" [] f = "flush_time_ns" -> "R130"
      [] f = "max_procs" -> "R134"        [] OTHER -> "R136"]
Kind(f) == CASE f \in {"gvstats_upgrade", "eof_block", "gvstats_move", "flush_time_ns"} -> "conversion"
             [] f \in {"encryption", "trigger_cycle", "read_only", "reorg_sleep_nsec",
                       "write_fullblk", "max_procs"} -> "zero"
             [] OTHER -> "value"
\* GT.M fields a YottaDB release carries: r1.22 predates V63007's, r1.26..r1.34 include them.
YdbBase(r) == IF r = "R122" THEN "V63003" ELSE "V63007"
\* r1.22 is the YottaDB release at minor version GDSMV63007; it had reorg_sleep_nsec.
YdbRank(r) == IF r = "R122" THEN Idx("R126") ELSE Idx(r)

Has(start) ==
    IF start.lineage = "gtm"
    THEN {f \in Fields : Idx(GtmIntro[f]) <= Idx(start.ver)}
    ELSE {f \in Fields : Idx(GtmIntro[f]) <= Idx(YdbBase(start.ver))
                         \/ Idx(YdbIntro[f]) <= YdbRank(start.ver)}

\* The fields from r1.34's layout only need relocating from an r1.34 header.
Needed(start) ==
    {f \in Fields \ Has(start) : Kind(f) # "zero"}
    \ (IF start.lineage = "ydb" /\ start.ver = "R134" THEN {} ELSE {"relocate"})

\* Headers the code can meet: every GT.M version from V5, and YottaDB r1.22 to r1.34.
Starts == [lineage : {"gtm"}, ver : {Versions[i] : i \in 1..Idx("V63014")}]
          \cup [lineage : {"ydb"}, ver : {"R122", "R126", "R130", "R134"}]
MinorOf(start) == IF start.ver = "R122" THEN "V63007" ELSE start.ver
-----------------------------------------------------------------------------
VARIABLES
    start,      \* the header's lineage and version before the first open
    orig,       \* the file header before the first open
    hdr,        \* the file header
    opens

vars == <<start, orig, hdr, opens>>

Init ==
    /\ start \in Starts
    /\ opens = 0
    /\ \E fl \in [{"opened53", "got_v5", "fully", "v4map", "spincnt_zero"} -> BOOLEAN] :
          hdr = [minor |-> MinorOf(start),
                 applied |-> [f \in Fields |-> 0],
                 ftt_set |-> "flush_trigger_top" \in Has(start),
                 opened_by_gtmv53 |-> fl.opened53, db_got_to_v5_once |-> fl.got_v5,
                 fully_upgraded |-> fl.fully, v4_master_map |-> fl.v4map,
                 spincnt_zero |-> fl.spincnt_zero, last_mdb_ver |-> MinorOf(start)]
    /\ orig = hdr

Apply(h, steps) == [h EXCEPT !.applied = [f \in Fields |-> @[f] + (IF f \in steps THEN 1 ELSE 0)],
                             !.ftt_set = @ \/ "flush_trigger_top" \in steps]

(* Lines 104-128: a database never opened by V53 whose master map has the *)
(* V4 size is sent back through MUPIP REORG UPGRADE; otherwise it was      *)
(* created by V5.                                                          *)
Pre53KeepFully(h) ==
    IF ~h.opened_by_gtmv53 /\ ~h.db_got_to_v5_once
    THEN [h EXCEPT !.opened_by_gtmv53 = TRUE, !.db_got_to_v5_once = ~h.v4_master_map]
    ELSE h

Pre53(h) ==
    IF ~h.opened_by_gtmv53 /\ ~h.db_got_to_v5_once
    THEN IF h.v4_master_map
         THEN [h EXCEPT !.opened_by_gtmv53 = TRUE, !.fully_upgraded = FALSE]
         ELSE [h EXCEPT !.opened_by_gtmv53 = TRUE, !.db_got_to_v5_once = TRUE]
    ELSE h

(* Lines 235-236: flush_trigger_top is set if still zero (an r1.22 header). *)
FlushTriggerIfZero(h) == IF h.ftt_set THEN h ELSE Apply(h, {"flush_trigger_top"})

R134GuardFromR130(h) == Idx("R130") <= Idx(h.minor)

R134Guard(h) == Idx("R126") <= Idx(h.minor)

(* One case block of the switch; the GDSMR134 block only for headers from  *)
(* a YottaDB release (lines 246-260).                                       *)
CaseBody(c, h) ==
    CASE c = "R126" -> FlushTriggerIfZero(Apply(h, CaseSteps[c]))
      [] c \in DOMAIN CaseSteps -> Apply(h, CaseSteps[c])
      [] c = "R134" -> IF R134Guard(h) THEN Apply(h, R134Steps) ELSE h
      [] OTHER -> h

(* Lines 129-264: enter at the header's version and fall through to the   *)
(* break after GDSMR134.                                                    *)
RECURSIVE Fall(_, _)
Fall(i, h) == IF i > Idx("R134") THEN h ELSE Fall(i + 1, CaseBody(Versions[i], h))

(* Lines 298-299. *)
Phase2Default(h) == [h EXCEPT !.spincnt_zero = FALSE]

(* Lines 301-309: last_mdb_ver, and the fix of a fully upgraded database   *)
(* that says it never reached V5.                                           *)
Epilogue(h) ==
    LET g == [h EXCEPT !.last_mdb_ver = GDSMVCURR]
    IN IF g.fully_upgraded /\ ~g.db_got_to_v5_once THEN [g EXCEPT !.db_got_to_v5_once = TRUE] ELSE g

db_auto_upgradeNoBump(h) ==
    Epilogue(IF Idx(h.minor) < Idx(GDSMVCURR)
             THEN Phase2Default(Fall(Idx(h.minor), Pre53(h)))
             ELSE h)

db_auto_upgrade(h) ==
    Epilogue(IF Idx(h.minor) < Idx(GDSMVCURR)
             THEN Phase2Default([Fall(Idx(h.minor), Pre53(h)) EXCEPT !.minor = GDSMVCURR])
             ELSE h)

(* A database open runs db_auto_upgrade() on the header.                   *)
Open ==
    /\ opens < MaxOpens
    /\ hdr' = db_auto_upgrade(hdr)
    /\ opens' = opens + 1
    /\ UNCHANGED <<start, orig>>

Done ==
    /\ opens = MaxOpens
    /\ UNCHANGED vars

Next == Open \/ Done

Spec == Init /\ [][Next]_vars
-----------------------------------------------------------------------------
TypeOK ==
    /\ start \in Starts
    /\ hdr.minor \in {Versions[i] : i \in 1..Len(Versions)}
    /\ hdr.applied \in [Fields -> 0..2]
    /\ opens \in 0..MaxOpens

(* After any number of opens the header is at GDSMVCURR with every field   *)
(* it lacked given its value, whatever its lineage: the fall-through from  *)
(* each GT.M version and the GDSMR126 test of the r1.34 block together     *)
(* cover each field exactly where the release history needs it, and a     *)
(* conversion (gvstats moves, flush_time to nanoseconds, EOF block) is     *)
(* applied exactly once, never to a header that already has it, and never *)
(* again on a later open.                                                  *)
UpgradeComplete ==
    opens >= 1 =>
        /\ hdr.minor = GDSMVCURR /\ hdr.last_mdb_ver = GDSMVCURR /\ hdr.ftt_set
        /\ \A f \in Needed(start) : hdr.applied[f] >= 1
        /\ \A f \in Fields : Kind(f) = "conversion" =>
               hdr.applied[f] = IF f \in Needed(start) THEN 1 ELSE 0

(* The V53 upgrade state stays coherent across opens: a database reported  *)
(* fully upgraded has db_got_to_v5_once set, and one with a V4-sized       *)
(* master map that no V53 version had opened stays marked for a MUPIP      *)
(* REORG UPGRADE rerun.                                                    *)
UpgradeStateCoherent ==
    opens >= 1 =>
        /\ hdr.fully_upgraded => hdr.db_got_to_v5_once
        /\ orig.v4_master_map /\ ~orig.opened_by_gtmv53 /\ ~orig.db_got_to_v5_once
               => ~hdr.fully_upgraded /\ hdr.opened_by_gtmv53
=============================================================================
