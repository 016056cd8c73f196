----------------------------- MODULE DurableLog -----------------------------
(***************************************************************************)
(* What a write-ahead log promises its users: records are appended in      *)
(* order, a prefix of them is on disk, and a crash leaves exactly that     *)
(* prefix.  LogMgr implements this specification, and the modules above    *)
(* the log (BufferPool, Transaction) use its actions instead of pages.     *)
(*                                                                         *)
(* LSNs are positions in log.  The code counts them from 0 again in every  *)
(* process, and compares them only with each other and with the last saved *)
(* one of the same process, so the shift is not observable.                *)
(***************************************************************************)
EXTENDS Naturals, Sequences

CONSTANT LogRecord

VARIABLES log,      \* every record that can still be read, oldest first
          durable   \* how many of them are on disk

logVars == <<log, durable>>

LogTypeOK == /\ log \in Seq(LogRecord)
             /\ durable \in 0..Len(log)

LogInit == log = <<>> /\ durable = 0

Latest == Len(log)

(* A record that does not fit the current page first sends that page, and  *)
(* so every older record, to disk.                                         *)
LogAppend(r) == /\ log' = Append(log, r)
                /\ durable' \in {durable, Latest}

LogFlushAll == durable' = Latest /\ UNCHANGED log

(* LogMgr::flush: nothing to do for a record that is already saved. *)
LogFlush(lsn) == IF lsn >= durable THEN LogFlushAll ELSE UNCHANGED logVars

LogCrash == log' = SubSeq(log, 1, durable) /\ UNCHANGED durable

LogNext == \/ \E r \in LogRecord : LogAppend(r)
           \/ \E lsn \in 1..Latest : LogFlush(lsn)
           \/ LogFlushAll
           \/ LogCrash

LogSpec == LogInit /\ [][LogNext]_logVars
=============================================================================
