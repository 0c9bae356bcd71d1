----------------------------- MODULE RuntimeLog -----------------------------
(***************************************************************************)
(* runtime_log.rs: records pass through a bounded channel to one worker    *)
(* that writes them to the file of the day. A full channel drops a record  *)
(* and counts it; before its next record, and once more when the log is    *)
(* closed, the worker takes the count and writes it as a marker. The count *)
(* is taken first: a marker that cannot be written takes it along.         *)
(*                                                                         *)
(* Records are numbered as they are sent. Days are numbers; the clock may  *)
(* go back. `fit` and the counters from `written` on are the reader's, not *)
(* the program's.                                                          *)
(***************************************************************************)
EXTENDS Naturals, Sequences

CONSTANTS
  LOG_CHANNEL_CAPACITY,
  RETAINED_DAYS,
  Days,        \* the days of the clock
  StartDays,   \* bound: the days the program is started on
  Kept,        \* days that have a file when the log starts
  Damaged,     \* those of them whose file is no regular private file
  DiskMayFill  \* whether a write may fail

ASSUME LogAssumption ==
  /\ {LOG_CHANNEL_CAPACITY, RETAINED_DAYS} \subseteq Nat \ {0}
  /\ Days \subseteq Nat
  /\ StartDays \subseteq Days
  /\ Kept \subseteq Days
  /\ Damaged \subseteq Kept
  /\ DiskMayFill \in BOOLEAN

VARIABLES
  channel,     \* the numbers of the records that wait
  dropped,     \* the count of dropped records
  counting,    \* 1 while a sender that met a full channel has not counted yet, else 0
  sender,      \* "open" or "taken", by Drop
  worker,      \* the worker: where it is and the record it has, 0 for none
  today,       \* the clock
  date,        \* the day of the file the worker has open
  files,       \* the days that have a file
  fit,         \* whether the log could be written on every day so far
  sent,        \* records sent
  written, last_written, lost,   \* records in a file, the last one, records whose write failed
  reported, unreported           \* dropped records told of in a file, those whose marker failed

log_vars == <<channel, dropped, counting, sender, worker, today, date, files,
              fit, sent, written, last_written, lost, reported, unreported>>

Due(d) == d + RETAINED_DAYS <= today

(* A file that is due for removal and damaged stops the cleanup, and a     *)
(* damaged file of the day cannot be opened.                               *)
CleansUp == \A d \in Damaged : ~Due(d)
open_log_file == today \notin Damaged

(* start: the old files are removed and the file of the day is open before *)
(* the worker runs, or there is no log and no program; the first record is *)
(* the start itself.                                                       *)
LogInit ==
  /\ channel = <<1>>
  /\ dropped = 0
  /\ counting = 0
  /\ sender = "open"
  /\ worker = [at |-> "recv", entry |-> 0]
  /\ today \in StartDays
  /\ CleansUp /\ open_log_file
  /\ date = today
  /\ files = {d \in Kept : ~Due(d)} \cup {today}
  /\ fit = TRUE
  /\ sent = 1
  /\ written = 0
  /\ last_written = 0
  /\ lost = 0
  /\ reported = 0
  /\ unreported = 0

-----------------------------------------------------------------------------
(* A sender has the mutex from the attempt to the count. *)
send ==
  /\ sender = "open"
  /\ counting = 0
  /\ sent' = sent + 1
  /\ IF Len(channel) < LOG_CHANNEL_CAPACITY
     THEN channel' = Append(channel, sent') /\ UNCHANGED counting
     ELSE counting' = 1 /\ UNCHANGED channel
  /\ UNCHANGED <<dropped, sender, worker, today, date, files, fit,
                 written, last_written, lost, reported, unreported>>

Count ==
  /\ counting = 1
  /\ counting' = 0
  /\ dropped' = dropped + 1
  /\ UNCHANGED <<channel, sender, worker, today, date, files, fit,
                 sent, written, last_written, lost, reported, unreported>>

recv ==
  /\ worker.at = "recv"
  /\ channel # <<>>
  /\ worker' = [at |-> "marker", entry |-> Head(channel)]
  /\ channel' = Tail(channel)
  /\ UNCHANGED <<dropped, counting, sender, today, date, files, fit,
                 sent, written, last_written, lost, reported, unreported>>

(* cleanup_old_logs meets the files in any order and gives up at one it    *)
(* does not own.                                                           *)
Old == {d \in files : Due(d)}
cleanup_old_logs(left) ==
  IF CleansUp THEN left = files \ Old
  ELSE left \in {files \ gone : gone \in SUBSET (Old \ Damaged)}

(* DailyLogWriter::write. On another day the old files go, then the file   *)
(* of the day is opened, then the day is noted; an error leaves the day    *)
(* and loses the record. Every record of that day tries again.             *)
Write(ok) ==
  \/ /\ today = date
     /\ ok \/ DiskMayFill
     /\ UNCHANGED <<date, files>>
  \/ /\ today # date
     /\ \E left \in SUBSET files :
          /\ cleanup_old_logs(left)
          /\ \/ /\ CleansUp /\ open_log_file
                /\ files' = left \cup {today}
                /\ date' = today
                /\ ok \/ DiskMayFill
             \/ /\ ~(CleansUp /\ open_log_file)
                /\ files' = left
                /\ ~ok /\ UNCHANGED date

(* The count is taken with one swap, before the write that may fail; what  *)
(* is dropped from here on waits for the next marker.                      *)
write_dropped_marker ==
  /\ dropped' = 0
  /\ IF dropped = 0 THEN UNCHANGED <<date, files, reported, unreported>>
     ELSE \/ Write(TRUE) /\ reported' = reported + dropped /\ UNCHANGED unreported
          \/ Write(FALSE) /\ unreported' = unreported + dropped /\ UNCHANGED reported

Marker ==
  /\ worker.at = "marker"
  /\ worker' = [worker EXCEPT !.at = "entry"]
  /\ write_dropped_marker
  /\ UNCHANGED <<channel, counting, sender, today, fit, sent, written, last_written, lost>>

write_entry ==
  /\ worker.at = "entry"
  /\ worker' = [at |-> "recv", entry |-> 0]
  /\ \/ /\ Write(TRUE)
        /\ written' = written + 1
        /\ last_written' = worker.entry
        /\ UNCHANGED lost
     \/ /\ Write(FALSE)
        /\ lost' = lost + 1
        /\ UNCHANGED <<written, last_written>>
  /\ UNCHANGED <<channel, dropped, counting, sender, today, fit, sent, reported, unreported>>

(* Drop has the log to itself: no sender is under way. *)
CloseLog ==
  /\ sender = "open"
  /\ counting = 0
  /\ sender' = "taken"

(* Mutant: the worker ends with the channel.                               *)
EndUntold == UNCHANGED <<dropped, date, files, reported, unreported>>
LastMarker == write_dropped_marker

(* The channel is closed and empty: one more marker, and the thread ends.  *)
EndWorker ==
  /\ worker.at = "recv"
  /\ channel = <<>>
  /\ sender = "taken"
  /\ worker' = [worker EXCEPT !.at = "gone"]
  /\ LastMarker
  /\ UNCHANGED <<channel, counting, sender, today, fit, sent, written, last_written, lost>>

ClockMoves ==
  /\ \E d \in Days \ {today} : today' = d
  /\ fit' = (fit /\ CleansUp' /\ open_log_file')
  /\ UNCHANGED <<channel, dropped, counting, sender, worker, date, files,
                 sent, written, last_written, lost, reported, unreported>>

LogStep == Count \/ recv \/ Marker \/ write_entry \/ EndWorker

LogNext ==
  \/ LogStep \/ send \/ ClockMoves
  \/ CloseLog /\ UNCHANGED <<channel, dropped, counting, worker, today, date, files, fit,
                             sent, written, last_written, lost, reported, unreported>>

LogSpec == LogInit /\ [][LogNext]_log_vars

-----------------------------------------------------------------------------
(* Properties.                                                             *)

LogTypeOK ==
  /\ channel \in Seq(Nat)
  /\ worker \in [at : {"recv", "marker", "entry", "gone"}, entry : Nat]
  /\ {dropped, sent, written, last_written, lost, reported, unreported} \subseteq Nat
  /\ counting \in {0, 1}
  /\ sender \in {"open", "taken"}
  /\ fit \in BOOLEAN

InHand == IF worker.at \in {"marker", "entry"} THEN 1 ELSE 0

Sound == fit /\ ~DiskMayFill

(* While every day so far could be written and the disk takes what it is   *)
(* given, every record sent is in a file, waits, or is among the dropped,  *)
(* which are counted or told of in a file: bursts, days that change and    *)
(* the worker's own steps lose none.                                       *)
NothingMissing ==
  Sound => sent = written + Len(channel) + InHand + counting + dropped + reported

(* Otherwise what is missing went with a write that failed: a record with  *)
(* its own, and with a marker's the drops it counted, which no later       *)
(* marker tells. No other record is missing.                               *)
LossesAreFailedWrites ==
  sent = written + lost + Len(channel) + InHand + counting + dropped + reported + unreported

(* Records reach the files in the order they were sent.                    *)
InOrder ==
  /\ \A i \in DOMAIN channel : last_written < channel[i] /\ channel[i] <= sent
  /\ \A i, j \in DOMAIN channel : i < j => channel[i] < channel[j]
  /\ worker.at \in {"marker", "entry"} =>
       /\ last_written < worker.entry /\ worker.entry <= sent
       /\ \A i \in DOMAIN channel : worker.entry < channel[i]
  /\ last_written <= sent

(* A log that was closed and waited for has every record in its files, or  *)
(* in the number of dropped ones a marker there tells, unless a write      *)
(* failed; in no case does it leave a record or a count behind untried.    *)
ClosedIsComplete ==
  worker.at = "gone" =>
    /\ channel = <<>> /\ dropped = 0 /\ counting = 0
    /\ Sound => sent = written + reported

LogAccounts == NothingMissing /\ LossesAreFailedWrites /\ InOrder /\ ClosedIsComplete

(* Only files older than the retained days are ever removed, whatever the  *)
(* clock does.                                                             *)
RecentLogsStay == [][\A d \in files \ files' : d + RETAINED_DAYS <= today]_log_vars

(* The count of what was dropped is taken in time, without another record. *)
DropsAreTold == dropped > 0 ~> dropped = 0
=============================================================================
