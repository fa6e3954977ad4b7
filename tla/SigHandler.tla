------------------------------ MODULE SigHandler ------------------------------
(***************************************************************************)
(* dbcertify_signal_handler() (sr_unix/dbcertify_signal_handler.c) and    *)
(* the process it interrupts.  The process takes and releases the         *)
(* dbcertify critical section (psa_gbl->dbc_critical) and may start its   *)
(* own exit; signals arrive at any point.  A terminating signal that      *)
(* arrives while the process holds crit, or is already exiting, is         *)
(* deferred by counting exit_state up; a signal that finds exit_state     *)
(* past EXIT_PENDING_TOLERANT, or one that cannot wait, shuts the process *)
(* down at once.                                                           *)
(*                                                                         *)
(* A handler activation runs atomically up to its decision (defer and     *)
(* return, or exit_state = EXIT_IMMED); the rest of an immediate shutdown *)
(* (core, condition handlers, EXIT) is the step HandlerExit, so further   *)
(* signals can nest between the two, as the code's first test expects.    *)
(* The crit release and the exit handler are outside the sources: they    *)
(* are modelled by the deferred-exit check GT.M performs on leaving crit  *)
(* and by an exit handler that releases crit and ends the process.        *)
(***************************************************************************)
EXTENDS Naturals

CONSTANTS
    Signals,        \* the signals delivered, e.g. SIGTERM, SIGQUIT, SIGSEGV, SIGUSR1
    InfoTypes,      \* what extract_signal_info() reports: "NONE" (kernel), "USER" (sent), "ILOC"
    MaxSignals      \* bound on the number of signals delivered in a behaviour

\* exit_state values (gtmsignal.h).
EXIT_NOTPENDING         == 0
EXIT_PENDING_TOLERANT   == 1
EXIT_PENDING_INTOLERANT == 2
EXIT_IMMED              == 3

VARIABLES
    exit_state,
    crit,               \* psa_gbl->dbc_critical
    exit_handler_active,
    core_in_progress,
    dont_want_core,
    cores,              \* cores generated: gtm_fork_n_core() and DUMP_CORE
    phase,              \* "run", "handler" (shutting down in the handler), "exithandler",
                        \* "dumping" (DUMP_CORE under way), "exited", "cored"
    sigs                \* signals delivered so far

vars == <<exit_state, crit, exit_handler_active, core_in_progress, dont_want_core,
          cores, phase, sigs>>

Init ==
    /\ exit_state = EXIT_NOTPENDING
    /\ crit = FALSE
    /\ exit_handler_active = FALSE
    /\ core_in_progress = 0
    /\ dont_want_core = FALSE
    /\ cores = 0
    /\ phase = "run"
    /\ sigs = 0

Alive == phase \in {"run", "handler", "exithandler", "dumping"}

(* Signals that may wait until the process is out of crit: SIGINT/SIGTERM *)
(* and SIGQUIT always, any other signal only when it was sent by a user.  *)
Deferrable(sig, info) == sig \in {"SIGTERM", "SIGQUIT"} \/ info = "USER"

(* Signals whose nested arrival during shutdown dumps core now.           *)
FatalSigs == {"SIGSEGV"}

(* Line 91-114: a SIGSEGV/SIGBUS/SIGILL that arrives once shutdown is     *)
(* under way dumps core, or exits at once if a core is already being made.*)
NestedFatal(sig) ==
    /\ exit_state >= EXIT_IMMED
    /\ sig \in FatalSigs
    /\ IF core_in_progress > 0
       THEN phase' = "exited" /\ UNCHANGED <<core_in_progress, cores>>
       ELSE /\ core_in_progress' = core_in_progress + 1
            /\ cores' = cores + 1
            /\ phase' = "dumping"
    /\ dont_want_core' = FALSE
    /\ UNCHANGED <<exit_state, crit, exit_handler_active>>

DeferTestUnbounded == crit \/ exit_handler_active

(* The deferral test of each case of the switch.                          *)
DeferTest == EXIT_PENDING_TOLERANT >= exit_state /\ (crit \/ exit_handler_active)

(* SET_FORCED_EXIT_STATE; exit_state++; return.  A user-sent signal of    *)
(* the default case also forks a "virgin" core first (lines 236-237).     *)
Defer(sig, info) ==
    /\ Deferrable(sig, info)
    /\ DeferTest
    /\ exit_state' = exit_state + 1
    /\ cores' = IF sig \notin {"SIGTERM", "SIGQUIT"} THEN cores + 1 ELSE cores
    /\ dont_want_core' = (sig = "SIGQUIT")
    /\ UNCHANGED <<crit, exit_handler_active, core_in_progress, phase>>

(* exit_state = EXIT_IMMED and on to the shutdown after the switch;       *)
(* SIGTERM and SIGQUIT set dont_want_core.                                *)
Immediate(sig, info) ==
    /\ ~(Deferrable(sig, info) /\ DeferTest)
    /\ exit_state' = EXIT_IMMED
    /\ dont_want_core' = (sig \in {"SIGTERM", "SIGQUIT"})
    /\ phase' = "handler"
    /\ UNCHANGED <<crit, exit_handler_active, core_in_progress, cores>>

Signal ==
    /\ Alive
    /\ sigs < MaxSignals
    /\ sigs' = sigs + 1
    /\ \E sig \in Signals, info \in InfoTypes :
          \/ NestedFatal(sig)
          \/ ~(exit_state >= EXIT_IMMED /\ sig \in FatalSigs)
             /\ (Defer(sig, info) \/ Immediate(sig, info))

(* Lines 280-291: fork a core unless unwanted, drive the condition        *)
(* handlers, EXIT.                                                         *)
HandlerExit ==
    /\ phase = "handler"
    /\ cores' = IF dont_want_core THEN cores ELSE cores + 1
    /\ phase' = "exited"
    /\ UNCHANGED <<exit_state, crit, exit_handler_active, core_in_progress,
                   dont_want_core, sigs>>

(* DUMP_CORE completes: the process dies with its core.                  *)
CoreDumped ==
    /\ phase = "dumping"
    /\ phase' = "cored"
    /\ UNCHANGED <<exit_state, crit, exit_handler_active, core_in_progress,
                   dont_want_core, cores, sigs>>

(* The process's own steps.                                                *)
GrabCrit ==
    /\ phase = "run"
    /\ ~crit
    /\ crit' = TRUE
    /\ UNCHANGED <<exit_state, exit_handler_active, core_in_progress, dont_want_core,
                   cores, phase, sigs>>

RelCritNoCheck ==
    /\ phase = "run"
    /\ crit
    /\ crit' = FALSE
    /\ UNCHANGED <<exit_state, exit_handler_active, phase, core_in_progress, dont_want_core,
                   cores, sigs>>

(* Leaving crit runs the deferred exit when one is pending.               *)
RelCrit ==
    /\ phase = "run"
    /\ crit
    /\ crit' = FALSE
    /\ IF exit_state > EXIT_NOTPENDING
       THEN exit_handler_active' = TRUE /\ phase' = "exithandler"
       ELSE UNCHANGED <<exit_handler_active, phase>>
    /\ UNCHANGED <<exit_state, core_in_progress, dont_want_core, cores, sigs>>

(* The process exits on its own, in or out of crit.                       *)
StartExit ==
    /\ phase = "run"
    /\ exit_handler_active' = TRUE
    /\ phase' = "exithandler"
    /\ UNCHANGED <<exit_state, crit, core_in_progress, dont_want_core, cores, sigs>>

(* The exit handler releases crit and the process ends.                   *)
ExitHandlerDone ==
    /\ phase = "exithandler"
    /\ crit' = FALSE
    /\ phase' = "exited"
    /\ UNCHANGED <<exit_state, exit_handler_active, core_in_progress, dont_want_core,
                   cores, sigs>>

Terminated ==
    /\ ~Alive
    /\ UNCHANGED vars

Next == Signal \/ HandlerExit \/ CoreDumped \/ GrabCrit \/ RelCrit \/ StartExit \/ ExitHandlerDone
        \/ Terminated

(* Signals need not come; the process leaves crit, and a shutdown once    *)
(* begun runs to its end: a critical section and an exit handler are      *)
(* finite code.                                                            *)
Fairness == WF_vars(RelCrit) /\ WF_vars(HandlerExit) /\ WF_vars(ExitHandlerDone)
            /\ WF_vars(CoreDumped)

Spec == Init /\ [][Next]_vars /\ Fairness

-----------------------------------------------------------------------------
TypeOK ==
    /\ exit_state \in EXIT_NOTPENDING..EXIT_IMMED
    /\ crit \in BOOLEAN /\ exit_handler_active \in BOOLEAN /\ dont_want_core \in BOOLEAN
    /\ core_in_progress \in 0..1
    /\ cores \in 0..MaxSignals + 1
    /\ phase \in {"run", "handler", "exithandler", "dumping", "exited", "cored"}
    /\ sigs \in 0..MaxSignals

(* A deferred exit is never lost: once a signal has set exit_state, the   *)
(* process ends, through the deferred-exit check on leaving crit, the     *)
(* exit handler, or a later signal.                                       *)
DeferredExitCompletes == (exit_state > EXIT_NOTPENDING) ~> ~Alive
=============================================================================
