# TLA+ models of the YottaDB compiler back end, runtime and database pieces

This directory holds TLA+ specifications of parts of the YottaDB sources in
`src/`. They are checked with TLC. Each module is written from the C code.
`PROJECT.json` maps every definition that models code to the lines it
translates. It also lists the runs, the mutants that show each property can
fail, and the hazards of the code.

## The system and its parts

The sources are a sample of YottaDB. Most of them belong to the M compiler's
back end, which runs inside the runtime when indirection (`@x`, `XECUTE`) is
compiled.

| Part | Source | What it does | State it changes |
|---|---|---|---|
| Temporary allocator | `sr_port/alloc_reg.c` | One pass over the execution-ordered triple list (`exorder`). It gives every triple whose value is used a temp slot in one of five classes (TVAR, TVAL, TINT, TVAD, TCAD). It frees a slot when the last reader has been passed, and it applies several peephole rewrites. At the end it sizes the frame's temp area. | triple opcodes, operands and destinations; backpointer lists; `tempcont`, `temphigh`, `sa_temps`, `sa_temps_offset` |
| Boolean lowering | `sr_port/bx_tail.c` | Turns a Boolean expression tree into conditional jumps to a target, handling negation, AND/OR, relational operators and `$TEST` coercion. | triple opcodes; new jump triples |
| Compilation finaliser | `sr_port/comp_fini.c` | Ends an indirect compile. On success it resolves references, runs `alloc_reg`, garbage-collects and emits code. On both paths it swaps the compiler's string pool back for the runtime's. | `cg_phase`, `stringpool`, `indr_stringpool`, `compile_time` |
| Indirect command | `sr_port/op_commarg.c` | Looks up cached object code for an indirect argument. On a miss it compiles through `comp_init`/`comp_fini` and caches the result. | indirection cache; `indir_src` |
| Database auto upgrade | `sr_port/db_auto_upgrade.c` | Migrates file-header fields from older minor versions on every open. | file header |
| dbcertify signal handler | `sr_unix/dbcertify_signal_handler.c` | Defers a terminating signal while the process is in a critical section (`exit_state`), or shuts down at once. | `exit_state`, `dont_want_core`, `core_in_progress` |
| Instance freeze | `sr_port/anticipatory_freeze.h` | Before every database or journal write and fsync, waits while the replication instance is frozen; freezes it on listed errors and ENOSPC. | `jnlpool_ctl->freeze` |
| Compiler-escape substitution | `sr_port/lb_init.c` | Before a source line is lexed, replaces each compiler-escape sentinel in M code by the text of its user routine (through `ce_substitute`). It rescans each replacement, up to `MAX_SUBSTITUTIONS`. | the source buffer |
| Global key buffers | `sr_port/gvinit.c` | Binds the global directory and sizes `gv_currkey`/`gv_altkey` for its keys. It is called again after extended references. | `gd_header`, `gv_keysize`, the key buffers |
| Simple API delete | `sr_unix/ydb_delete_s.c`, `sr_port/op_kill.c` | Validates a name and dispatches KILL or ZKILL to the local or global routines. Every error becomes a negative return. | local and global data, the naked reference |
| GT.CM server output | `sr_unix/util_output_cm.c` | Appends a formatted message, after a one-byte code, to a static buffer, and on FLUSH sends it with `cmi_write()`. | `outbuff`, `outptr`, `link_info.neterr` |
| DSE block dump | `sr_port/dse_b_dmp.c` | DSE DUMP -BLOCK: dumps COUNT blocks from BLOCK on, wrapping past the last block, holding crit for the whole loop. It prints a data block's records one by one and a local bitmap row by row, and Ctrl-C stops it. | `cs_addrs->now_crit`, `hold_onto_crit`, the region's lock, `patch_rec_counter` |
| Others | `op_idiv.c`, `iott_use.c`, `gtm_env_init_sp.c`, `ious_rdone.c`, `mu_decrypt.h` | Arithmetic, environment parsing, device I/O, formatting, declarations. | see PROJECT.json |

How the parts interact: `op_commarg` calls `comp_fini`, and `comp_fini`
calls `alloc_reg`. `bx_tail` rewrites the triple list earlier, during
expression compilation, and its jump and `OC_COBOOL` triples are among those
that `alloc_reg` later allocates. The triples that reach `alloc_reg` have
already had their backpointer lists built by `resolve_ref`/`resolve_tref`.
`gvinit` and `ydb_delete_s` share `gv_currkey`: the first owns the buffer
and empties it; the second forms the key of the global it deletes there,
and that key is the naked reference.
Neither routine is in the sources. The model builds those lists from the
operands, as `resolve_tref` is specified to do, and marks that definition as
spec-modelled.

## Modules

### AllocReg (`AllocReg.tla`)

This module models `alloc_reg()` and `remove_backptr()`.

**State.** One module variable per piece of program state:

- `opcode`, `operand`, `dest`: the triples. These are functions over `1..N`. Index 0 stands for the list head `t_orig`, which `exorder.fl` of the last triple reaches.
- `backptr`: each triple's backpointer list, as a bag of reader triples.
- `tempcont`: the set of occupied slots per class.
- `temphigh`.
- `x`: the scan cursor.
- `status`: `"scan"`, `"done"`, `"TMPSTOREMAX"` for `rts_error`, or `"WILD"` for an out-of-class `tempcont` write.
- `sa_temps`, `sa_temps_offset`.
- `input`: the original graph, kept for the properties.

**Init.** `InitFrom(g)` is the state for a graph `g`, with the initial
values from lines 66–68. The model-checking module `MCAllocReg` defines
`Init` as `InitFrom` of any generated graph. It chooses the last triple
inside the quantifier, so TLC enumerates the graphs one at a time instead of
building the set of all graphs first, which is ten times faster.

**One action per case of the switch** (lines 75–145): `SkipNoop`,
`CommentLine`, `BlankLine`, `LineStart`, `LineFetch`, `Fetch`, `Passthru`,
`Sto`, `GvSavTarg`, `Other`. After its peephole, each case that falls
through to the destination and operand code runs the whole rest of the loop
body as one step, in the code's order:

- `AssignDest`: store forwarding, class selection, slot scan with `ERR_TMPSTOREMAX`, and `OC_CDADDR` → `OC_NOOP`; or the copy of a pre-resolved `TRIP_REF` destination.
- `Walk`: the operand walk. It follows `OC_PARAMETER` chains and calls `RemoveBackptr`.

So a step is one iteration of the `dqloop`. `Finish` is the layout code
after the loop (lines 220–231). `Stopped` is the terminal state after the
loop or after `rts_error`.

### MCAllocReg (`MCAllocReg.tla`)

This module generates the input graphs triple by triple from an opcode
alphabet `Ops`. The graphs satisfy what the front end and `resolve_ref`
guarantee:

- Operands reference earlier triples.
- No one references an `OC_PASSTHRU`.
- `OC_FETCH`/`OC_LINEFETCH` count an `OC_ILIT`.
- `OC_STO` stores into an `OC_VAR`.
- Parameter chains are well formed.
- Unless `CrossLines`, no value is read across a line marker.

It also gives `oc_tab` octype flags for the opcodes used, and the 64-bit
class sizes.

### BxTail (`BxTail.tla`)

This module models `bx_tail()`. The Boolean expression is a triple tree
indexed by heap position: node `i` has operands `2i` and `2i+1`.

**State.**

- `opcode`: the tree's opcodes, which the lowering rewrites.
- `code`: the compare, jump and label triples emitted so far, in execution order.
- `stack`: the pending recursive calls. These are `bx_tail` activations, plus the "next" labels that `bx_boolop` plants after the right operand.
- `extbool`: `TREF(gtm_fullbool) == EXT_BOOL`.
- `sense0`: the requested sense.
- `input`: the original tree.

**Actions.** One step is one activation of `bx_tail`. The `OCT_NEGATED` sense
flip (lines 56–57) and the `CONVERT_TO_SE` rewrite (58–72) are the
operators `Sense` and `C`. Each case of the switch is an action:

- `CoboolTruth`, `Cobool`, `Scobool`, `Com`;
- `Relop`: every relational opcode, through the table `RelTab` of lines 104–131;
- `BoolOp`: AND/NAND/OR/NOR, calling `bx_boolop` with the arguments of lines 134 and 144;
- `SBoolOp`;
- `PlaceLabel`: `bx_boolop`'s return;
- `Returned`.

Four routines are not in the sources: `bx_relop`, `bx_boolop`, `bx_sboolop`
and `CONVERT_TO_SE`. They are modelled from their documented contract, and
PROJECT.json marks them spec-modelled.

**How the properties are checked.** They run the emitted code with `Exec`,
a small interpreter of the compare and jump triples (`JMPNEQ` jumps on a
non-zero condition code, `JMPLEQ` on one ≤ 0, and so on). The code is run
for every outcome of every compare. Ordering compares give -1/0/1 and
truth-valued ones give 0/1. The result is compared with two reference
definitions written from M's semantics:

- `Truth`, the value of the expression;
- `Needed`, the operands M evaluates: short-circuit for AND/OR, and everything under EXT_BOOL.

### MCBxTail (`MCBxTail.tla`)

This module generates every tree over a leaf alphabet and a connective
alphabet up to a depth. A COBOOL leaf sits over `OC_GETTRUTH` or over an
ordinary value. The generated trees are the union of two alphabets:

- every tree of depth 1 over all 14 relational opcodes, COBOOL and SCOBOOL, joined by AND or OR;
- every tree of depth 2 over EQU, LT and COBOOL, joined by AND, NAND, OR or NOR.

One run, `bx_tail`, checks both.

### IndirCompile (`IndirCompile.tla`)

This module models `op_commarg()` together with the `comp_fini()` it calls.

**State.** `pc` is the point reached in the two functions. `v` is the
argument mval (the address and text of its string), `key` is
`indir_src.str.addr`, and `heap` maps string-pool addresses to the text
stored there or `"free"`. `cache` is the indirection cache: entries of code,
key address and object. `obj` records what the object code was compiled
from. `stringpool` says which pool is current, and `compile_time`,
`frame_count` (`SFT_COUNT`), `rval`, `args` and `calls` complete it.

**Actions.** `Call` is the entry (lines 49–52). `Hit` and the miss cases
`DoFast` (58–63), `EmptyArg` (64–80) and `CompInit` (81) follow the cache
lookup. `Parse` is one round of the argument loop (82–98): an EXPR_FAIL, the
end of line, a comma, or `ERR_INDEXTRACHARS`. Then come the `comp_fini`
paths:

- `FiniExtra` (45–53): extra characters.
- `FiniResolve` (54–64): `alloc_reg` succeeds or raises `ERR_TMPSTOREMAX`. This is how the AllocReg component composes here.
- `FiniEmit` (65–72): `stp_gcol` may move the argument, then the pool swap and `ind_code`.
- `FiniFail` (74–87): the failure path.

After them come `Put` (99–102), `Exec` (104–106), `Error` (the condition
handler's cleanup) and `Return`.

A lookup compares the text at an entry's key address with the argument's
text, as the hash table compares `icode_str` keys. Cache keys are
garbage-collection roots and stay in place. When the call returns, the
argument's string becomes garbage and its space is reused, unless a cache
key holds it.

**Refinement.** `IndirCompile` implements `IndirCache` (`IndirCache.tla`), the
abstract promise of `op_commarg`. In that promise, an argument either runs
code compiled from exactly its code and text, or nothing runs. The cache is a
set of code/text pairs that only gains the pair being run. The mapping is:

- `apc` maps `exec` to `run`, `return` to `done`, and every other non-idle point to `busy`.
- `arg` is the argument's code and text.
- `known` is the set of pairs `(code, heap[key])` over the cache entries.
- `ran` is `obj` while `exec` holds.

`Hit` and `Put` implement the abstract `Run`. `DoFast`, `EmptyArg`, `FiniFail` and `Error` implement `Skip`, and `Exec` implements `Ran`. `CompInit`, `Parse`, `FiniExtra`, `FiniResolve` and `FiniEmit` are stuttering steps, including the collector moving strings inside `FiniEmit`. A cache entry whose key text changed would change `known` in a way no abstract step allows.

### LbInit (`LbInit.tla`, `MCLbInit.tla`)

This module models `lb_init()`, which substitutes compiler-escape sentinels in
a source line before the lexer reads it.

**State.** A line is a sequence of character classes: quotation mark,
question mark, pattern-code character, other ASCII, a byte above DEL, and
the sentinels. `col` is `source_col`. `num_subs` is capped at one past the
limit, because the code only compares it with `MAX_SUBSTITUTIONS`.
`skip_count` and the CETOOMANY flag complete the state. Two history
variables serve the properties: `declined` holds the columns whose
substitution failed, and `last` records where the last call was made.

**Actions.** One action is one iteration of the `while` loop:

- `ScanEnd`: the NUL or a high byte ends the loop.
- `ScanPlain`: no sentinel, so the scan moves one column on.
- `ScanSentinel`: `ce_substitute` is called, the limit test runs, and the scan either returns to the same column or moves on.

`StrEnd` and `PatEnd` are the string and pattern skips, as recursive
operators. `Enter` is the `ce_def_list` test and `Finish` is the lexer
start.

`ce_substitute()` is not in the sources. It is modelled from its
interface: the user routine's answer replaces `skip` characters by its
text, unless it fails, skips past the end, or makes the line longer than
`MAX_SRCLINE`. In those cases `skip_count` is 0. `MCLbInit` gives the
answers: `S` can fail, become a letter, become a lone quotation mark,
grow, or eat the next character. `R` always answers `R`.

The reference for the properties is M's lexical rule for strings
(`StringCols`), applied to the whole line.

### GvInit (`GvInit.tla`)

This module models `gvinit()`.

**State.** The heap maps block addresses to their allocated size (0 when
free). `gv_currkey` and `gv_altkey` are block addresses or NULL. The rest
of the state is `gv_keysize`, `gd_header` (the key size of the bound
directory), and whether the key is empty.

**Actions.** `GvInit` is the whole call:

1. Bind the directory when `gd_header` is NULL.
2. When the key size grows, allocate two fresh blocks, free the old pair if there was one, and raise `gv_keysize`.
3. Empty both keys.

Two environment actions come from outside the sources. `SwitchDirectory`
is an extended reference rebinding `gd_header`. `FormKey` is `op_gvname`.

**Note.** The comment at line 44 says pre-existing keys must not be lost.
The code keeps the buffers, but lines 67–68 empty the keys on every call.
The model does the same. The property is stated for the buffers: exactly the
two current ones are live. Keeping the buffers when the key size shrinks is
the guard at line 49 itself, so no separate property restates it.

### YdbDeleteS (`YdbDeleteS.tla`)

This module models `ydb_delete_s()` and `op_kill()`. One call is one step,
because the Simple API is not threaded.

**Inputs.** A call takes:

- a name class: local `x`, global `^g`, an ISV, or an invalid name;
- a subscript count, 0 or 1;
- a delete method: TREE, NODE, or any other value;
- at most one failing step: `LIBYOTTADB_INIT`, `outofband_action` (only when an event is pending), the subscript copy, or the database kill (an error, or TPRETRY).

**Control.** `Call` follows the code's order:

1. The entry checks.
2. The interrupt.
3. `VALIDATE_VARNAME`.
4. For a local: the base-variable lookup, which returns `YDB_OK` for a missing local before the method is checked; the subscript copy; then the method switch.
5. For a global: `op_gvname` (setting the naked reference) before the method switch; then the kill.

**Callees.** `lv_kill`, `op_gvkill`, `op_lvzwithdraw` and `op_gvzwithdraw`
are not in the sources. They are modelled by M's KILL and ZKILL on two nodes
per variable. `SetLocal`, `SetGlobal` and `Interrupt` are the rest of the
process.

### GlobalAccess (`GlobalAccess.tla`)

This module composes GvInit and YdbDeleteS through `INSTANCE`. They share
`gv_currkey`. GvInit's `key` is substituted by whether YdbDeleteS's naked
reference (`naked`, `NoKey` when empty) is set. GvInit's `FormKey` is
replaced by the calls that really form keys, `Delete` and `SetGlobal`. A
`gvinit()` call clears the naked reference. A global is referenced only
once the key buffers exist: the directory is bound before the first global
reference, outside these sources. Heap blocks are model values under
symmetry, because `malloc()` may return any free block.

### UtilCm (`UtilCm.tla`)

This module models `util_cm_print()`. `outptr` is NULL or an offset into
`outbuff`, and a message is its length. `CmPrint` is one whole call:

1. The code byte, if the buffer is empty (`outptr == outbuff`).
2. The `memcpy` of the message.
3. The flush mode. FLUSH writes the NUL, sends the buffer and falls into RESET. RESET points `outptr` at `outbuff`.

A failed `cmi_write()` makes `PROPER` call `gvcmz_error()`, which signals,
so the fall-through is not reached. A write outside `outbuff` is recorded
in `fault`, and nothing more is modelled after it. `memcpy` of no bytes
writes nothing, even to NULL, so an empty message with RESET is a legal
first call.

### SigHandler (`SigHandler.tla`)

This module models `dbcertify_signal_handler()` and the process it
interrupts.

**State.**

- `exit_state`: 0 to 3, from EXIT_NOTPENDING to EXIT_IMMED.
- `crit`, `exit_handler_active`, `core_in_progress`, `dont_want_core`.
- `cores`: the cores forked or dumped.
- `phase`: `run`, `handler` (immediate shutdown under way), `exithandler`, `dumping`, `exited` or `cored`.
- `sigs`.
- `cause`: the signal that started an immediate shutdown, with the state it found.

**Actions.** A `Signal` activation runs up to its decision:

- `NestedFatal`: lines 91–114.
- `Defer`: line 124 and the same test in each case.
- `Immediate`: 130–133, 165, 212, 222 and 240–278.

`HandlerExit` is lines 280–291. The process's own steps are `GrabCrit`,
`RelCrit` (the deferred-exit check on leaving crit), `StartExit`,
`ExitHandlerDone` and `CoreDumped`. Message formatting is left out.

### DbAutoUpgrade (`DbAutoUpgrade.tla`)

This module models `db_auto_upgrade()` as one step per database open. It is
built from several operators:

- `Pre53`: the V53 REORG UPGRADE flags (104–128).
- `Fall`: a RECURSIVE operator that enters the switch at the header's minor version and falls through the case blocks `CaseSteps` to the break after GDSMR134. `R134Guard` is the `GDSMR126 <= minor_dbver` test.
- `Phase2Default` (297–299) and `Epilogue` (301–309).

A field is abstracted to the upgrade step that sets it. The header records
how many times each step was applied.

**The reference.** The checks compare the result with a reference written
from the case comments:

- `GtmIntro`/`YdbIntro`: the release that introduced each field.
- `Kind`: whether the field needs a value, is a data conversion, or lies in zeroed space.
- `Has`: which fields a header already has, given its lineage. A GT.M version carries every field up to itself. YottaDB r1.22 carries the fields up to V63003 plus `reorg_sleep_nsec`. r1.26 to r1.34 carry them up to V63007 plus their own.

The enum order of the minor versions is the order of the switch.
`gdsdbver_sp.h` is not in the sources.

### DseBDmp (`DseBDmp.tla`)

This module models `dse_b_dmp()` as a program counter over its loop.

**Inputs.** `Start` chooses the BLOCK and COUNT arguments, including a missing block, a non-hex count and FFFFFFFF. `cli_get_hex` stores FFFFFFFF through a `uint4` pointer into the `int4` count, which reads it back as -1, so the call returns FALSE. Whether crit is already held, `-HEADER`, `-NOCRIT` and GLO/ZWR (`patch_is_fdmp`) are chosen in `Init`. `t_qread` decides per block whether the read fails, the level and the number of records. Each bitmap row may hold a corrupt entry.

**Actions.**

- `Start`: lines 61-80, the early returns and the crit grab.
- `VisitData`: a data block, lines 83-128.
- `DumpRecord`: one record.
- `AfterRecords`: the Ctrl-C test after the records.
- `VisitMap`: a local bitmap, lines 137-191.
- `MapRow`: one row of 32 blocks, with the Ctrl-C and BITMAPSBAD exits.
- `NextBlock`: `count--`, the stop test and the wrap.
- `CtrlC`: the SIGINT handler, which can set `util_interrupt` at any step.

`GrabCrit` and `RelCrit` model `DSE_GRAB_CRIT_AS_APPROPRIATE` and `DSE_REL_CRIT_AS_APPROPRIATE` (in `dse.h`, not in the sources). They are modelled from their use: take crit, or with -NOCRIT only mark it taken, unless already held; give back only what was taken.

**Bounds.** `BplMap = 64` and `TotalBlks = 130` give two bitmaps (0 and 64) and a partial third (128). Start blocks 63 and 127 reach a bitmap on the second block. 129 wraps to bitmap 0. A count of 3 crosses both. Two rows per bitmap reach the row loop's repeat and its end.

### AnticipatoryFreeze (`AnticipatoryFreeze.tla`)

This module models the macros and inline functions of
`anticipatory_freeze.h` for a set of processes sharing one journal pool.

**Configuration.** Each process has a fixed `cfg`: journal-pool attachment,
whether replication or recovery makes its database honour the freeze,
whether the custom-error environment is loaded, and `freeze_on_fail`.

**Actions.**

- `Begin`: the `WAIT_FOR_REPL_INST_UNFREEZE_SAFE` test at the start of every write, fsync and asynchronous write, with `instance_freeze_honored`.
- `WaitPoll`: one round of the poll loop, which leaves on unfreeze or exits on a pending stop.
- `IO`: the operation. Only `DO_LSEEKWRITE` handles ENOSPC; `DiskWait` is `wait_for_disk_space`.
- `CheckError` and `FreezeInstance`: `CHECK_IF_FREEZE_ON_ERROR_NEEDED` and `FREEZE_INSTANCE_IF_NEEDED`.
- `ClearFreeze`: the operator.
- `Stop`: a stop, deferred into `exit_state` while the process holds crit.
- `DiskSpace`: the disk filling and emptying.

## Runs

The AllocReg runs use `N = 4` triples, `MaxTempCount = 2` slots per class (the code
has 1024), `MvMax = 1` and `PtrSize = 8`.

| Run | Opcodes | Properties | Result | What it shows |
|---|---|---|---|---|
| `alloc_core` | ADD, EQU, WRITE, LINESTART, CDADDR | TypeOK, ValueIntact, RefCountSound, NoSpuriousOverflow, TempFrameSound | pass, 147k states | Slots are reused only after the last reader. TMPSTOREMAX fires only with every slot live. Counts return to zero. Every temporary used has its own aligned cell in the frame. |
| `alloc_rewrites` | PARAMETER, FNPIECE, SRCHINDX, LIT, WRITE, VAR, STO, ADD, LINESTART, LINEFETCH, FETCH, ILIT, PASSTHRU, GVSAVTARG, GVRECTARG (no line entry) | ValueIntact, RefCountSound, NoWildTempWrite | pass, 199k states | The peepholes inside the switch keep values and counts right. Parameter chains of length 2 are walked and released exactly once. `remove_backptr` never indexes `tempcont` with a non-temp class. |
| `alloc_lines` | ADD, WRITE, LINESTART with `CrossLines` | ValueIntact | violation | Shows the unstated precondition of the TVAL clear at line 108 (see Findings). |

| `bx_tail` | depth 1: all 14 relational opcodes, COBOOL, SCOBOOL with AND, OR, COM; depth 2: EQU, LT, COBOOL with AND, NAND, OR, NOR, COM | TypeOK, LoweringCorrect, ShortCircuitExact | pass, 468k states, 70 s | Every row of the jump table is right for both senses, including the equal case of the ordering compares. Every nesting of two connectives gets the right intermediate sense, target and label. |

| `indir_compile` | 3 addresses, texts A, B and empty, 3 calls | PoolRestored, RunsItsOwnArgument, ImplementsIndirCache | pass, 63k states | See below. `op_commarg` with `comp_fini` implements `IndirCache`. |
| `lb_scan` | lines of up to 4 tokens, sentinels S and R, limit 2, line length 5 | TypeOK, NoSubstitutionInString, SentinelsReplaced, Terminates | pass, 127k states | See below. |
| `global_access` | 4 blocks (symmetric), key sizes 8 and 16, 2 `gvinit` calls, 2 delete calls with every name class, method and single failure | KeyBuffersExact, DeleteContract | pass, 61k states, 15 s | Growing the key buffers across directory switches neither leaks nor double-frees. A delete returning `YDB_OK` removed exactly the named node or subtree, and any other return changed no data. Mutants: freeing only the old `gv_currkey`; TREE and NODE swapped on the local path. |
| `util_cm` | 4-byte buffer, messages of 0 to 2 bytes, 3 calls | WritesInsideOutbuff | violation | The first call writes through NULL (see Findings). |
| `sig_handler` | SIGTERM, SIGQUIT, SIGSEGV, SIGUSR1; info NONE or USER; 4 signals | TypeOK, DeferredExitCompletes | pass, 243 states | See below. |
| `db_upgrade` | all 23 GT.M versions from V50000, YottaDB r1.22 to r1.34; 32 flag combinations; 2 opens | TypeOK, UpgradeComplete, UpgradeStateCoherent | pass, 2.6k states | See below. |
| `dse_dump` | 130 blocks, 64 per bitmap, start blocks 63, 127, 129; COUNT absent, 0, 3, not hex, FFFFFFFF | CritRestored, VisitsConsecutive, StopsOnCtrlC | pass, 8.6k states | See below. |
| `instance_freeze` | 2 processes, each of 16 configurations; 2 operations each | TypeOK, StopEndsFreezeWait | pass, 647k states, 35 s | See below. |

The BxTail runs range over both senses and both `gtm_fullbool` modes.

**IndirCompile properties.**

- `PoolRestored`: whenever the runtime has control (between calls, while compiled code runs, and on the way back), the runtime string pool is current and `compile_time` is off. This holds after the success path, the failure path, `ERR_INDEXTRACHARS` and `ERR_TMPSTOREMAX`. Mutant: the failure path without the pool swap.
- `RunsItsOwnArgument`: the code `comp_indr` runs was compiled from the argument given, for its code. Mutant: caching under `indir_src` without the re-read at line 101. TLC then finds a three-step failure: the collector moves the first argument, a later argument takes the freed address, and a lookup matches the stale key.
- `ImplementsIndirCache`: every behaviour of the detailed model is a behaviour of `IndirCache` under the mapping above. Mutant: the garbage collector at `Return` frees the argument's string even when a cache key points at it. The next argument then overwrites the key's text.

**LbInit properties.**

- `NoSubstitutionInString`: until CETOOMANY, every sentinel handed to `ce_substitute` stands outside the string literals of the line as it was then. Mutant: a doubled quotation mark ending the string skip.
- `SentinelsReplaced`: when `lb_init` returns without CETOOMANY, every sentinel in M code before the first high byte was replaced or its routine failed. Mutant: moving on after a substitution instead of rescanning it.
- `Terminates` (liveness): the scan ends for every line, even with a self-reproducing sentinel. Mutant: the substitution limit ignored.

Past the limit, a replacement is stepped over without being scanned. TLC
shows that a quotation mark in it can put the next sentinel inside a string
that then gets substituted. CETOOMANY has failed the compile by then, so
the property is stated for the calls before it.

**SigHandler properties.**

- The deferral test at line 124 is one comparison made inside one handler activation, and crit cannot change within it. A property of that decision would only restate the test, so none is checked; what the deferral must lead to is `DeferredExitCompletes`.
- `DeferredExitCompletes` (liveness): once `exit_state` is set, the process ends. Mutant: leaving crit without the deferred-exit check.

**DbAutoUpgrade properties.**

- `UpgradeComplete`: after each open, the header is at GDSMVCURR. Every field its lineage lacked has been given its value, and each conversion ran exactly once if and only if it was needed. The conversions are the gvstats moves, flush_time to nanoseconds and the EOF block. Mutant: the r1.34 block tested from r1.30, so an r1.26 header misses the V63014 gvstats move.
- `UpgradeStateCoherent`: `fully_upgraded` implies `db_got_to_v5_once`. A V4-format database no V53 had opened stays marked for REORG UPGRADE. Mutant: the V53 block not clearing `fully_upgraded`.

**DseBDmp properties.**

- `CritRestored`: whichever way `dse_b_dmp` ends, `now_crit`, `hold_onto_crit` and the region's lock are as they were on entry, and it never releases a lock it does not hold. The ways it ends are the two returns, the index-block refusal, and DSEBLKRDFAIL, CTRLC or BITMAPSBAD raised inside the loop. Mutant: a release that does not restore `hold_onto_crit`.
- `VisitsConsecutive`: the blocks visited are BLOCK, BLOCK+1, ... modulo `total_blks`, all valid. A dump that returns TRUE without Ctrl-C visited exactly COUNT blocks. Mutant: the wrap test `>` for `>=`.
- `StopsOnCtrlC`: after Ctrl-C the loop starts at most one more block. Mutant: the stop test after `count--` without `util_interrupt`. A bitmap skipped under GLO/ZWR, or printed with -HEADER, is not polled inside, so that test is the only one that stops the dump there.

**AnticipatoryFreeze property.**

- `StopEndsFreezeWait` (liveness): a stop deferred while a process holds crit ends the process even if the freeze is never lifted and the disk stays full. Mutant: a poll loop that only leaves on unfreeze.

**Fairness.**

- SigHandler has weak fairness on `RelCrit`, `HandlerExit`, `ExitHandlerDone` and `CoreDumped`: a critical section, the rest of a handler and an exit handler are finite code. Signal arrival and the process's other steps have none.
- AnticipatoryFreeze has weak fairness on each process's `WaitPoll`, `IO`, `DiskWait` and `FreezeInstance`. The poll loop sleeps a bounded time and polls again. With a stop pending, some branch of the poll is always enabled, so weak fairness is enough. The operator, errors, stops and the disk have none.
- LbInit has weak fairness on its whole next-state relation. It is one sequential loop, so every enabled step is taken. `Terminates` then depends only on the code's bounds.
- The other compiler modules, DbAutoUpgrade, GlobalAccess and UtilCm state only safety properties and need none.

**AllocReg properties.**

- `ValueIntact`: while a temp-holding triple still has a reader ahead, its slot stays occupied and no later triple is given the same slot. This needs reference counting, the operand walk and the peepholes to agree over several steps.
- `NoSpuriousOverflow`: at TMPSTOREMAX there really are `MaxTempCount` live values in the class.
- `RefCountSound`: at the end, every backpointer list is empty and every non-TVAR slot is free.
- `TempFrameSound`: the frame laid out from `sa_temps` and `sa_temps_offset` gives every temporary any triple was assigned a cell of its own. Each cell lies inside its class's region and overlaps no other cell. The pointer classes after the int temporaries are on a pointer boundary. This needs the high-water marks kept over slot reuse (lines 187-188) and the rounding of the int region (line 226) to agree with the allocation. Mutant: `temphigh` set to the last slot given instead of the maximum.
- `NoWildTempWrite`.

Every property of every passing run has a mutant in PROJECT.json. The mutant
is a plausible code bug, such as an eager free, a walk that skips operand 2,
a dropped max, or forwarding that leaves the `OC_STO` live,
and TLC finds it violating the property.

**BxTail properties.**

- `LoweringCorrect`: after `bx_tail` returns, the code reaches `addr` exactly when the expression's value equals the sense.
- `ShortCircuitExact`: the code evaluates exactly the operands M evaluates.

Mutants kill both. One uses JMPGTR for LT with sense FALSE, which is wrong only when the compare is equal. One passes OR the AND arguments. One lowers the right operand first. One skips the EXT_BOOL conversion.

**Why the bounds are enough.** With 4 triples and 2 slots per class the
runs reach:

- slot reuse;
- TMPSTOREMAX (three live TVAL values);
- a triple reading the same value twice;
- a chain of two parameters;
- comment and blank-line LINESTARTs;
- FETCH normalisation;
- store forwarding both taken and refused.

5 triples would multiply the graph count by about 30 and no longer finish in
minutes.

For BxTail, depth 1 covers every opcode case. Depth 2 is the smallest depth
at which a connective's target is itself a "next" label of an enclosing
connective: `(a OR b) AND c` lowers `a` to jump to the inner label and `b`
to jump to the outer one.

**Fairness.** None. The compiler is single-threaded, and `alloc_reg` is one
loop over a finite list. The properties are safety properties. The
`Stopped` step keeps the terminal state from counting as a deadlock, and
every run checks deadlock.

## Findings

- `alloc_lines` (spec gap, `alloc_reg.c:108`). The TVAL clear at every
  LINESTART/LINEFETCH frees slots whatever their reference counts. The
  comment in the code calls it a hack to hide a leak. The temp contract
  holds only if no TVAL value is read across a line marker. Nothing states
  or checks that precondition. TLC's trace: `t1` (OC_ADD) is given TVAL
  slot 0, and the LINESTART at `t2` clears slot 0 while `t1`'s value is still
  to be read by later triples. The slot is then free for the next TVAL
  allocation.
- `util_cm` (code bug, `util_output_cm.c:58`). `outptr` is a static pointer
  that starts NULL, and only the RESET branch sets it to `outbuff`. The test
  at line 50 never holds before that, so a first call with a non-empty
  message copies it to address NULL. TLC finds this in one step. Nothing
  checks a write against `OUT_BUFF_SIZE` either, so after a RESET enough
  NOFLUSH_OUT messages run past the buffer. A failed `cmi_write()` also
  leaves `outptr` past the unsent message.

## Not modelled, and why

- `op_idiv.c`: its control depends on `eb_int_div`, `EB_DIV`, `promote`/`demote` and the mval exponent constants (`EXP_INT_OVERF`, `EXP_IDX_BIAL`), none of which are in the sources. A model would guess their definitions.
- In `db_auto_upgrade`, the mutex spin-count defaults (lines 82–87) are not modelled, and neither are field offsets. Whether an r1.22 header keeps `reorg_sleep_nsec` at the r1.34 offset cannot be told without `gdsfhead.h`.
- In `anticipatory_freeze.h`, the debug-only white-box hangs and fake ENOSPC, the gvstats counters and message text are left out.
- In `op_commarg`, the call at line 99 passes six arguments to the five-parameter `comp_fini` in this snapshot. The model follows the body of `comp_fini` and treats the trailing-character test as an input.

- The opcode table (`opcode_def.h`), `resolve_ref` and the code generator are not in the sources. The octype flags are given per run.
- The slot-scan condition can read `tempcont[r][MAX_TEMP_COUNT]`, one past the row, before the bound test stops the loop. The value read cannot change the result, and the model has no array to read past.
- `dse_b_dmp`: line 83 computes `blk / bplmap` before the bitmap branch tests `0 == bplmap` at line 146. A header with `bplmap` 0 (possible on a corrupt database, which is what DSE is for) therefore raises SIGFPE, and the message at line 154 is unreachable. The model takes `BplMap > 0`.
- `dse_b_dmp`'s CTRLC exit: the model treats `rts_error_csa(... ERR_CTRLC)` at line 132 as not returning, like the other errors. The `break` after it suggests the authors allowed for a return. If CTRLC has a severity that returns, the loop would leave and line 248 would release crit a second time, which `CritRestored` would report. The message's severity and DSE's condition handler are not in the sources, so this cannot be settled here.
- `iott_use` (terminal USE): it is about termios and device parameters, and no run slot is left for it. One partial failure was noticed while reading it. Settings such as `tt_ptr->canonical`, the width and `ctrlc_on` take effect as each parameter is parsed. The termios structure and the masks are committed only after the loop. An error part way through (DEVPARMNEG, TTINVFILTER, TCSETATTR) leaves `canonical` disagreeing with the terminal's ICANON. With WRAP and a width of 0, later output can also divide by zero.
- `gtm_env_init_sp`: it reads environment variables into globals once at startup. Its helpers (`trans_numeric`, `logical_truth_value`, `TRANS_LOG_NAME`, `namelook`) are not in the sources.
- In `alloc_reg`, store forwarding (lines 149-156) is modelled, but no property checks it. A property that the forwarded store still happens would need the M value of the variable across later stores, which the model does not carry.
- `ious_rdone` is a stub and `mu_decrypt.h` holds declarations only.
- The freeze wait of `AnticipatoryFreeze` and the deferral of `SigHandler` are not composed. `dbcertify_signal_handler` is the handler of the dbcertify utility, and nothing in the sources has it running in a process that waits in the freeze macros. A composition would have to invent that link, so the two are checked apart.

## Plan

1. **AllocReg**, **BxTail**, **IndirCompile** (with its refinement of **IndirCache**), **SigHandler**, **DbAutoUpgrade**, **AnticipatoryFreeze**, **LbInit**, **GvInit** and **YdbDeleteS** (composed in **GlobalAccess**), **UtilCm** and **DseBDmp**: done.
2. Next:
   - A property for the hazards listed without one in PROJECT.json, where their callees come into the sources.
   - `iott_use`'s partial failure, should a run slot become free.
