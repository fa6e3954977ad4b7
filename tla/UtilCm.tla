-------------------------------- MODULE UtilCm --------------------------------
(***************************************************************************)
(* util_cm_print() (sr_unix/util_output_cm.c): the GT.CM server formats a  *)
(* message into the static buffer outbuff, after a one-byte message code  *)
(* when the buffer is empty, and on FLUSH terminates it with a NUL, hands *)
(* it to cmi_write() and starts the buffer again.  outptr, the fill       *)
(* pointer, is a static pointer: it starts NULL and only the RESET branch *)
(* points it at outbuff.                                                   *)
(*                                                                         *)
(* outptr is modelled as NULL or an offset into outbuff; a write is a     *)
(* range of offsets, and one outside 0..OUT_BUFF_SIZE-1 is recorded in    *)
(* fault, after which the process is not modelled further.               *)
(***************************************************************************)
EXTENDS Integers, Sequences

CONSTANTS
    BuffSize,       \* OUT_BUFF_SIZE
    MsgLens,        \* lengths util_out_print_vaparm() may format a message to
    MaxCalls        \* bound on util_cm_print() calls

NULL == -1

Flushes == {"NOFLUSH_OUT", "FLUSH", "RESET"}

VARIABLES
    outptr,         \* NULL, or the offset of outptr in outbuff
    sent,           \* lengths (cbl) of the buffers handed to cmi_write()
    neterr,         \* link_info.neterr
    fault,          \* "none", or where a write outside outbuff went
    calls

vars == <<outptr, sent, neterr, fault, calls>>

(* Lines 37-38: static storage, zero-initialised.                          *)
Init ==
    /\ outptr = NULL
    /\ sent = <<>>
    /\ neterr = FALSE
    /\ fault = "none"
    /\ calls = 0

(* A write of n bytes at p: where it lands.  memcpy() of no bytes writes  *)
(* nothing, even to NULL.                                                  *)
WriteFault(p, n) ==
    CASE n = 0              -> "none"
      [] p = NULL           -> "null"
      [] p + n > BuffSize   -> "overflow"
      [] OTHER              -> "none"

(* Lines 40-85, one call: message of len bytes, flush mode fl, and the    *)
(* status cmi_write() returns.  On a network error gvcmz_error() (not in  *)
(* these sources) signals and the fall-through into RESET is not reached. *)
CmPrint(len, fl, ok) ==
    LET p0 == IF outptr = 0 THEN 1 ELSE outptr               \* lines 50-51
        f0 == IF outptr = 0 THEN WriteFault(0, 1) ELSE "none"
        f1 == WriteFault(p0, len)                              \* line 58
        p1 == IF p0 = NULL THEN NULL ELSE p0 + len             \* line 59
        f2 == IF fl = "FLUSH" THEN WriteFault(p1, 1) ELSE "none"  \* line 71
        f  == CASE f0 # "none" -> f0 [] f1 # "none" -> f1 [] OTHER -> f2
    IN
    /\ fault' = f
    /\ sent' = IF fl = "FLUSH" /\ f = "none" THEN Append(sent, p1 + 1) ELSE sent
    /\ neterr' = (neterr \/ (fl = "FLUSH" /\ f = "none" /\ ~ok))  \* line 76
    /\ outptr' = CASE fl = "RESET" -> 0
                   [] fl = "FLUSH" /\ ok -> 0
                   [] fl = "FLUSH" -> IF p1 = NULL THEN NULL ELSE p1 + 1
                   [] OTHER -> p1

Call ==
    /\ fault = "none"
    /\ calls < MaxCalls
    /\ calls' = calls + 1
    /\ \E len \in MsgLens, fl \in Flushes, ok \in BOOLEAN :
          /\ fl # "FLUSH" => ok
          /\ CmPrint(len, fl, ok)

(* After a write outside outbuff nothing more is modelled.                 *)
Stopped ==
    /\ fault # "none" \/ calls = MaxCalls
    /\ UNCHANGED vars

Next == Call \/ Stopped

Spec == Init /\ [][Next]_vars
-----------------------------------------------------------------------------
(* util_cm_print() writes only inside outbuff[OUT_BUFF_SIZE], the buffer  *)
(* it declares for the message: the code byte, the message text and the   *)
(* terminating NUL all land in it.                                         *)
WritesInsideOutbuff == fault = "none"
=============================================================================
