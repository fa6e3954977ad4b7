--------------------------- MODULE AnticipatoryFreeze --------------------------
(***************************************************************************)
(* The instance freeze of sr_port/anticipatory_freeze.h.  Processes write *)
(* and fsync database and journal files (DO_LSEEKWRITE, GTM_DB_FSYNC,      *)
(* GTM_JNL_FSYNC, DO_LSEEKWRITEASYNC) holding crit; each first checks the *)
(* journal pool's freeze flag (WAIT_FOR_REPL_INST_UNFREEZE_SAFE) and, if   *)
(* its database honours the freeze, polls until it is lifted or a stop is *)
(* pending.  An error on the custom-error list (CHECK_IF_FREEZE_ON_ERROR_   *)
(* NEEDED, FREEZE_INSTANCE_IF_NEEDED) or ENOSPC freezes the instance; an  *)
(* operator lifts it (CLEAR_ANTICIPATORY_FREEZE).  A stop that arrives     *)
(* while a process holds crit is deferred in exit_state.                  *)
(*                                                                         *)
(* set_anticipatory_freeze(), is_anticipatory_freeze_needed(),            *)
(* wait_for_disk_space() and the stop handler are not in the sources and   *)
(* are modelled by their effect on the freeze flag and exit_state.        *)
(***************************************************************************)
EXTENDS Naturals, FiniteSets

CONSTANTS
    Procs,          \* processes attached to one instance
    MaxOps          \* bound on the operations of each process

\* File operations: DB/JNL_LSEEKWRITE (ENOSPC handled), fsync, asynchronous write.
Kinds == {"write", "fsync", "async"}

\* What a process's database and environment give the macros.
Configs == [attached : BOOLEAN,       \* JNLPOOL_FROM(csa) with a jnlpool_ctl
            repl : BOOLEAN,           \* REPL_ALLOWED, mupip_jnl_recover or onln_rlbk_pid
            custom : BOOLEAN,         \* instfreeze_environ_inited
            freeze_on_fail : BOOLEAN] \* csd->freeze_on_fail

VARIABLES
    cfg,            \* process -> its configuration, fixed
    freeze,         \* jnlpool_ctl->freeze
    pc,             \* process -> "idle", "wait", "io", "diskwait", "exited"
    kind,           \* process -> the operation under way
    exit_state,     \* process -> a deferred stop is pending (0 or 1)
    freeze_needed,  \* process -> FREEZE_NEEDED of an error being reported
    ops,            \* process -> operations done
    disk_full

vars == <<cfg, freeze, pc, kind, exit_state, freeze_needed, ops, disk_full>>

Init ==
    /\ cfg \in [Procs -> Configs]
    /\ freeze = FALSE
    /\ pc = [p \in Procs |-> "idle"]
    /\ kind = [p \in Procs |-> "write"]
    /\ exit_state = [p \in Procs |-> 0]
    /\ freeze_needed = [p \in Procs |-> FALSE]
    /\ ops = [p \in Procs |-> 0]
    /\ disk_full = FALSE

(* instance_freeze_honored(), lines 463-475.                              *)
Honored(p) == cfg[p].attached /\ cfg[p].repl

(* IS_REPL_INST_FROZEN_JPL / IS_REPL_INST_UNFROZEN_JPL, lines 164-169.    *)
FrozenFor(p)   == cfg[p].attached /\ freeze
UnfrozenFor(p) == cfg[p].attached /\ ~freeze

(* INST_FREEZE_ON_ERROR_ENABLED and INST_FREEZE_ON_NOSPC_ENABLED, lines   *)
(* 151-159, with the message on the custom list.                          *)
OnErrorEnabled(p) == Honored(p) /\ cfg[p].custom /\ cfg[p].freeze_on_fail

InCrit == {"wait", "io", "diskwait"}

\* Leaving crit at the end of an operation runs a deferred stop.
Release(p) ==
    /\ ops' = [ops EXCEPT ![p] = @ + 1]
    /\ pc' = [pc EXCEPT ![p] = IF exit_state[p] # 0 THEN "exited" ELSE "idle"]

(* WAIT_FOR_REPL_INST_UNFREEZE_SAFE (lines 213-222) at the start of        *)
(* DO_LSEEKWRITE, the fsync macros and DO_LSEEKWRITEASYNC; a frozen        *)
(* instance sends a process whose database honours it into the wait loop  *)
(* of wait_for_repl_inst_unfreeze() (lines 513-546).                       *)
Begin(p) ==
    /\ pc[p] = "idle"
    /\ ops[p] < MaxOps
    /\ \E k \in Kinds : kind' = [kind EXCEPT ![p] = k]
    /\ pc' = [pc EXCEPT ![p] = IF FrozenFor(p) /\ Honored(p) THEN "wait" ELSE "io"]
    /\ UNCHANGED <<cfg, freeze, exit_state, freeze_needed, ops, disk_full>>

WaitNoStop(p) ==
    /\ pc[p] = "wait"
    /\ ~freeze
    /\ pc' = [pc EXCEPT ![p] = "io"]
    /\ UNCHANGED <<cfg, freeze, kind, exit_state, freeze_needed, ops, disk_full>>

(* One round of the poll loop of wait_for_repl_inst_unfreeze_nocsa_jpl()   *)
(* (lines 477-511): leave it when the freeze is lifted, or exit when a     *)
(* stop is pending; otherwise sleep and poll again.                        *)
WaitPoll(p) ==
    /\ pc[p] = "wait"
    /\ \/ ~freeze /\ pc' = [pc EXCEPT ![p] = "io"]
       \/ freeze /\ exit_state[p] # 0 /\ pc' = [pc EXCEPT ![p] = "exited"]
    /\ UNCHANGED <<cfg, freeze, kind, exit_state, freeze_needed, ops, disk_full>>

IOAnyKind(p) ==
    /\ pc[p] = "io"
    /\ IF disk_full /\ OnErrorEnabled(p)
       THEN /\ freeze' = TRUE
            /\ pc' = [pc EXCEPT ![p] = "diskwait"]
            /\ UNCHANGED ops
       ELSE /\ Release(p)
            /\ UNCHANGED freeze
    /\ UNCHANGED <<cfg, kind, exit_state, freeze_needed, disk_full>>

(* LSEEKWRITE, fsync or the asynchronous start (lines 418-430, 265, 283,   *)
(* 438-449); only DO_LSEEKWRITE handles ENOSPC, in wait_for_disk_space(),  *)
(* which freezes the instance when freeze on ENOSPC is enabled and waits  *)
(* for space, and otherwise returns the error.                             *)
IO(p) ==
    /\ pc[p] = "io"
    /\ IF kind[p] = "write" /\ disk_full /\ OnErrorEnabled(p)
       THEN /\ freeze' = TRUE
            /\ pc' = [pc EXCEPT ![p] = "diskwait"]
            /\ UNCHANGED ops
       ELSE /\ Release(p)
            /\ UNCHANGED freeze
    /\ UNCHANGED <<cfg, kind, exit_state, freeze_needed, disk_full>>

(* wait_for_disk_space() retries the write until it succeeds, or exits on *)
(* a pending stop.                                                         *)
DiskWait(p) ==
    /\ pc[p] = "diskwait"
    /\ \/ ~disk_full /\ Release(p)
       \/ disk_full /\ exit_state[p] # 0 /\ pc' = [pc EXCEPT ![p] = "exited"] /\ UNCHANGED ops
    /\ UNCHANGED <<cfg, freeze, kind, exit_state, freeze_needed, disk_full>>

(* CHECK_IF_FREEZE_ON_ERROR_NEEDED (lines 69-83): an error on the custom   *)
(* list, reported while the instance is not frozen, needs a freeze.        *)
CheckError(p) ==
    /\ pc[p] = "idle" /\ ops[p] < MaxOps
    /\ ~freeze_needed[p]
    /\ cfg[p].attached /\ cfg[p].custom
    /\ UnfrozenFor(p) /\ OnErrorEnabled(p)
    /\ freeze_needed' = [freeze_needed EXCEPT ![p] = TRUE]
    /\ ops' = [ops EXCEPT ![p] = @ + 1]
    /\ UNCHANGED <<cfg, freeze, pc, kind, exit_state, disk_full>>

(* FREEZE_INSTANCE_IF_NEEDED (lines 85-96): set_anticipatory_freeze().     *)
FreezeInstance(p) ==
    /\ freeze_needed[p]
    /\ freeze' = TRUE
    /\ freeze_needed' = [freeze_needed EXCEPT ![p] = FALSE]
    /\ UNCHANGED <<cfg, pc, kind, exit_state, ops, disk_full>>

(* CLEAR_ANTICIPATORY_FREEZE (lines 98-108), MUPIP REPLIC -FREEZE=OFF.      *)
ClearFreeze ==
    /\ freeze
    /\ freeze' = FALSE
    /\ UNCHANGED <<cfg, pc, kind, exit_state, freeze_needed, ops, disk_full>>

(* A stop: deferred while the process holds crit, immediate otherwise.    *)
Stop(p) ==
    /\ pc[p] # "exited" /\ exit_state[p] = 0 /\ ~freeze_needed[p]
    /\ IF pc[p] \in InCrit
       THEN exit_state' = [exit_state EXCEPT ![p] = 1] /\ UNCHANGED pc
       ELSE pc' = [pc EXCEPT ![p] = "exited"] /\ UNCHANGED exit_state
    /\ UNCHANGED <<cfg, freeze, kind, freeze_needed, ops, disk_full>>

DiskSpace ==
    /\ disk_full' = ~disk_full
    /\ UNCHANGED <<cfg, freeze, pc, kind, exit_state, freeze_needed, ops>>

Done ==
    /\ \A p \in Procs : pc[p] = "exited" \/ (pc[p] = "idle" /\ ops[p] = MaxOps /\ ~freeze_needed[p])
    /\ UNCHANGED vars

Next ==
    \/ \E p \in Procs : Begin(p) \/ WaitPoll(p) \/ IO(p) \/ DiskWait(p) \/ CheckError(p)
                        \/ FreezeInstance(p) \/ Stop(p)
    \/ ClearFreeze \/ DiskSpace \/ Done

(* A process's own steps are taken: the poll loop sleeps a bounded time,  *)
(* I/O returns.  Errors, stops, the operator and the disk owe nothing.    *)
Fairness == \A p \in Procs : WF_vars(WaitPoll(p)) /\ WF_vars(IO(p)) /\ WF_vars(DiskWait(p))
                             /\ WF_vars(FreezeInstance(p))

Spec == Init /\ [][Next]_vars /\ Fairness
-----------------------------------------------------------------------------
TypeOK ==
    /\ cfg \in [Procs -> Configs]
    /\ freeze \in BOOLEAN /\ disk_full \in BOOLEAN
    /\ pc \in [Procs -> {"idle", "wait", "io", "diskwait", "exited"}]
    /\ kind \in [Procs -> Kinds]
    /\ exit_state \in [Procs -> 0..1]
    /\ freeze_needed \in [Procs -> BOOLEAN]
    /\ ops \in [Procs -> 0..MaxOps]
    /\ \A p \in Procs : pc[p] = "diskwait" => kind[p] = "write"

(* A stop deferred while a process holds crit ends the process even when  *)
(* the instance stays frozen and the disk stays full: the freeze poll loop *)
(* and the wait for disk space both test exit_state, so a process parked  *)
(* on a freeze nobody lifts does not hold crit against MUPIP STOP forever. *)
StopEndsFreezeWait == \A p \in Procs : exit_state[p] # 0 ~> pc[p] = "exited"
=============================================================================
