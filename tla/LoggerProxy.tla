---------------------------- MODULE LoggerProxy ----------------------------
(***************************************************************************)
(* The module-level logger of __init__.py and get_logger, called by some   *)
(* thread of the application while the main thread and the signal handlers *)
(* of Runtime initialise and destroy.  Each method tests _global_runtime   *)
(* and then reads it again to reach the logger: two steps.  What the       *)
(* logger's filter makes of the record is in LogRecord.                    *)
(***************************************************************************)
EXTENDS Runtime, LogRecord

VARIABLE
    call   \* the call under way, [at, from]: from is what the test has seen

NoCall == [at |-> "idle", from |-> None]

(* Without a runtime a call does nothing, or raises a RuntimeError that    *)
(* says so; either way it is over.                                         *)
TestGlobal ==
    /\ call = NoCall
    /\ global # None
    /\ call' = [at |-> "tested", from |-> global]
    /\ UNCHANGED vars

(* A destroyed logger counts the message as dropped; without a runtime     *)
(* None has no logger, and the caller gets an AttributeError.              *)
UseGlobal ==
    /\ call.at = "tested"
    /\ call' = IF global \in Open THEN NoCall ELSE [call EXCEPT !.at = "lost"]
    /\ UNCHANGED vars

LostCallReturns ==
    /\ call.at = "lost"
    /\ call' = NoCall
    /\ UNCHANGED vars

ProxyInit == Init /\ call = NoCall
ProxyNext ==
    \/ Next /\ UNCHANGED call
    \/ TestGlobal \/ UseGlobal \/ LostCallReturns
ProxySpec == ProxyInit /\ [][ProxyNext]_<<vars, call>>

-----------------------------------------------------------------------------
(* Although the test and the use are two reads, a call is lost only to a   *)
(* destroy: the logger that was there when it began has been closed, or a  *)
(* thread that took it is on the way to close it (__init__.py:187-243,     *)
(* 252-315).  The runtime an init puts in its place is open when it can be *)
(* reached.                                                                *)
LostOnlyToDestroy ==
    call.at = "lost" =>
        \/ status[call.from] = "destroyed"
        \/ \E th \in Threads : mine[th] = call.from

(* A logger that is told to sanitise, by argument, variable or default,    *)
(* lets no secret in sight leave and every text, but that a dict with more *)
(* than one place in sight shows what it holds at one of them only         *)
(* (log_filter.py:29-39, utils.py:180-226).                                *)
SanitizerExact == \A r \in Created : config[r].sanitize => SanitizerSound
=============================================================================
