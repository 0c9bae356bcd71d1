----------------------------- MODULE DesktopProofs -----------------------------
EXTENDS Desktop, TLAPS
(***************************************************************************)
(* Theorems about the running application: its settings agree with each    *)
(* other, a dialog follows its operation, an open window stays, and the    *)
(* log of the whole program is a log.  SessionInv is about the form, its   *)
(* operation and the switches, ShellInv about the window around them; a    *)
(* lemma per action, in the order of the modules, shows that it keeps      *)
(* them.                                                                   *)
(***************************************************************************)

-----------------------------------------------------------------------------
(***************************************************************************)
(* The log, by itself, for every capacity of the channel, every number of  *)
(* retained days and every clock: what it promises is kept by any number   *)
(* of senders, days and failed writes.                                     *)
(*                                                                         *)
(* LogInv adds to them the types and who may still send: a worker ends     *)
(* only after the sender was taken, and the sender is taken only when      *)
(* nobody has a record left to count. Without that, a sender could count a *)
(* record after the last marker.                                           *)
(*                                                                         *)
(* SoundInv is about failed writes: on days that are fit, with a disk that *)
(* takes what it is given, there is none.                                  *)
(***************************************************************************)

Emptied == worker.at = "gone" => channel = <<>> /\ dropped = 0 /\ counting = 0

NobodySends ==
  /\ sender = "taken" => counting = 0
  /\ worker.at = "gone" => sender = "taken"

LogInv == LogTypeOK /\ LossesAreFailedWrites /\ InOrder /\ Emptied /\ NobodySends

LEMMA LogInitInv == LogInit => LogInv
  BY DEF LogInit, LogInv, LogTypeOK, LossesAreFailedWrites, InOrder, Emptied, NobodySends, InHand

\* What the types say of each variable, for a prover that does not take
\* records and enumerated sets apart.
LEMMA LogTypes ==
  ASSUME LogTypeOK
  PROVE  /\ worker.at \in {"recv", "marker", "entry", "gone"} /\ worker.entry \in Nat
         /\ channel \in Seq(Nat) /\ Len(channel) \in Nat
         /\ DOMAIN channel = 1..Len(channel)
         /\ \A i \in 1..Len(channel) : channel[i] \in Nat
         /\ dropped \in Nat /\ sent \in Nat /\ written \in Nat /\ last_written \in Nat
         /\ lost \in Nat /\ reported \in Nat /\ unreported \in Nat
         /\ counting \in Nat
  BY DEF LogTypeOK

\* A number above all of an ordered channel, appended.
LEMMA Appended ==
  ASSUME NEW s \in Seq(Nat), NEW n \in Nat,
         \A i \in 1..Len(s) : s[i] <= n,
         \A i, j \in 1..Len(s) : i < j => s[i] < s[j],
         NEW t, t = Append(s, n + 1)
  PROVE  /\ DOMAIN t = 1..(Len(s) + 1)
         /\ \A i \in 1..Len(s) : t[i] = s[i]
         /\ t[Len(s) + 1] = n + 1
         /\ \A i \in DOMAIN t : t[i] <= n + 1
         /\ \A i, j \in DOMAIN t : i < j => t[i] < t[j]
<1>1. /\ DOMAIN t = 1..(Len(s) + 1) /\ Len(s) \in Nat
      /\ \A i \in 1..Len(s) : t[i] = s[i] /\ s[i] \in Nat
      /\ t[Len(s) + 1] = n + 1
  OBVIOUS
<1>2. \A i \in DOMAIN t : i \in 1..Len(s) \/ i = Len(s) + 1
  BY <1>1
<1>3. ASSUME NEW i \in DOMAIN t PROVE t[i] <= n + 1
  <2>1. CASE i \in 1..Len(s)
    BY <2>1, <1>1
  <2>2. CASE i = Len(s) + 1
    BY <2>2, <1>1
  <2> QED
    BY <2>1, <2>2, <1>2
<1>4. ASSUME NEW i \in DOMAIN t, NEW j \in DOMAIN t, i < j PROVE t[i] < t[j]
  <2>1. i \in 1..Len(s)
    BY <1>1, <1>4
  <2>2. CASE j \in 1..Len(s)
    BY <2>1, <2>2, <1>1, <1>4
  <2>3. CASE j = Len(s) + 1
    <3>1. t[i] <= n /\ t[i] \in Nat
      BY <2>1, <1>1
    <3> QED
      BY <3>1, <2>3, <1>1
  <2> QED
    BY <2>2, <2>3, <1>2
<1> QED
  BY <1>1, <1>3, <1>4

LEMMA SendInv == LogInv /\ send => LogInv'
<1> SUFFICES ASSUME LogInv, send PROVE LogInv'
  OBVIOUS
<1> USE DEF send, LogInv
<1>1. LogTypeOK'
  <2>1. sent \in Nat /\ channel \in Seq(Nat)
    BY DEF LogTypeOK
  <2>2. channel' \in Seq(Nat) /\ sent' \in Nat
    BY <2>1
  <2>3. counting' \in {0, 1}
    BY DEF LogTypeOK
  <2> QED
    BY <2>2, <2>3 DEF LogTypeOK
<1>2. LossesAreFailedWrites'
  <2>1. Len(channel) < LOG_CHANNEL_CAPACITY => Len(channel') = Len(channel) + 1
    BY LogTypes
  <2>2. InHand \in Nat /\ InHand' = InHand
    BY DEF InHand
  <2>3. /\ sent \in Nat /\ written \in Nat /\ lost \in Nat /\ Len(channel) \in Nat
        /\ counting \in Nat /\ dropped \in Nat /\ reported \in Nat /\ unreported \in Nat
    BY LogTypes
  <2>4. UNCHANGED <<written, lost, dropped, reported, unreported>> /\ sent' = sent + 1
    OBVIOUS
  <2>5. CASE Len(channel') = Len(channel) + 1 /\ counting' = counting
    BY <2>2, <2>3, <2>4, <2>5 DEF LossesAreFailedWrites
  <2>6. CASE Len(channel') = Len(channel) /\ counting' = counting + 1
    BY <2>2, <2>3, <2>4, <2>6 DEF LossesAreFailedWrites
  <2> QED
    BY <2>1, <2>5, <2>6
<1>3. InOrder'
  <2>1. CASE Len(channel) < LOG_CHANNEL_CAPACITY
    <3>1. /\ channel' = Append(channel, sent + 1)
          /\ sent' = sent + 1 /\ last_written' = last_written /\ worker' = worker
      BY <2>1
    <3>2. /\ channel \in Seq(Nat) /\ DOMAIN channel = 1..Len(channel)
          /\ sent \in Nat /\ last_written \in Nat /\ worker.entry \in Nat
      BY LogTypes
    <3>3. /\ DOMAIN channel' = 1..(Len(channel) + 1)
          /\ \A i \in 1..Len(channel) : channel'[i] = channel[i]
          /\ channel'[Len(channel) + 1] = sent + 1
          /\ \A i \in DOMAIN channel' : channel'[i] <= sent + 1
          /\ \A i, j \in DOMAIN channel' : i < j => channel'[i] < channel'[j]
      <4> HIDE DEF send, LogInv
      <4> QED
        BY <3>1, <3>2, Appended DEF LogInv, InOrder
    <3>4. ASSUME NEW n \in Nat, n <= sent, \A i \in DOMAIN channel : n < channel[i]
          PROVE  \A i \in DOMAIN channel' : n < channel'[i]
      <4>1. \A i \in DOMAIN channel' : i \in 1..Len(channel) \/ i = Len(channel) + 1
        BY <3>3, <3>2
      <4>2. n < sent + 1
        BY <3>2, <3>4
      <4> HIDE DEF send, LogInv
      <4> QED
        BY <4>1, <4>2, <3>2, <3>3, <3>4
    <3>5. last_written <= sent /\ \A i \in DOMAIN channel' : last_written < channel'[i]
      BY <3>2, <3>4 DEF InOrder
    <3>6. worker.at \in {"marker", "entry"} =>
            /\ last_written < worker.entry /\ worker.entry <= sent
            /\ \A i \in DOMAIN channel' : worker.entry < channel'[i]
      BY <3>2, <3>4 DEF InOrder
    <3>7. \A n \in Nat : n <= sent => n <= sent + 1
      BY <3>2
    <3> HIDE DEF send, LogInv
    <3> QED
      BY <3>1, <3>2, <3>3, <3>5, <3>6, <3>7 DEF InOrder
  <2>2. CASE ~(Len(channel) < LOG_CHANNEL_CAPACITY)
    BY <2>2, LogTypes DEF InOrder
  <2> QED
    BY <2>1, <2>2
<1>4. Emptied' /\ NobodySends'
  BY DEF Emptied, NobodySends
<1> QED
  BY <1>1, <1>2, <1>3, <1>4

LEMMA CountInv == LogInv /\ Count => LogInv'
<1> SUFFICES ASSUME LogInv, Count PROVE LogInv'
  OBVIOUS
<1> USE DEF Count, LogInv
<1>1. LogTypeOK'
  BY LogTypes DEF LogTypeOK
<1>2. LossesAreFailedWrites'
  <2>1. InHand \in Nat /\ InHand' = InHand
    BY DEF InHand
  <2>2. /\ written \in Nat /\ lost \in Nat /\ Len(channel) \in Nat
        /\ dropped \in Nat /\ reported \in Nat /\ unreported \in Nat
    BY LogTypes
  <2>3. UNCHANGED <<sent, written, lost, channel, reported, unreported>>
    OBVIOUS
  <2>4. counting = 1 /\ counting' = 0 /\ dropped' = dropped + 1
    OBVIOUS
  <2> QED
    BY <2>1, <2>2, <2>3, <2>4 DEF LossesAreFailedWrites
<1>3. InOrder'
  BY DEF InOrder
<1>4. Emptied' /\ NobodySends'
  BY DEF Emptied, NobodySends
<1> QED
  BY <1>1, <1>2, <1>3, <1>4

LEMMA RecvInv == LogInv /\ recv => LogInv'
<1> SUFFICES ASSUME LogInv, recv PROVE LogInv'
  OBVIOUS
<1> USE DEF recv, LogInv
<1>1. /\ channel \in Seq(Nat) /\ channel # <<>>
      /\ channel' = Tail(channel)
      /\ Len(channel) \in Nat \ {0}
      /\ Len(channel') = Len(channel) - 1
      /\ DOMAIN channel' = 1..(Len(channel) - 1)
      /\ DOMAIN channel = 1..Len(channel)
      /\ \A i \in 1..(Len(channel) - 1) : channel'[i] = channel[i + 1]
      /\ Head(channel) = channel[1]
      /\ channel[1] \in Nat
      /\ worker.at = "recv" /\ worker'.at = "marker" /\ worker'.entry = channel[1]
  BY DEF LogTypeOK
<1>2. LogTypeOK'
  BY <1>1 DEF LogTypeOK
<1>3. LossesAreFailedWrites'
  <2>1. InHand = 0 /\ InHand' = 1
    BY <1>1 DEF InHand
  <2> QED
    BY <1>1, <2>1, LogTypes DEF LossesAreFailedWrites
<1>4. InOrder'
  <2>1. /\ \A i \in 1..Len(channel) : channel[i] \in Nat
        /\ sent \in Nat /\ last_written \in Nat
    BY LogTypes
  <2>2. \A i \in 1..(Len(channel) - 1) : last_written < channel'[i] /\ channel'[i] <= sent
    BY <1>1 DEF InOrder
  <2>3. ASSUME NEW i \in 1..(Len(channel) - 1), NEW j \in 1..(Len(channel) - 1), i < j
        PROVE  channel'[i] < channel'[j]
    <3>1. /\ i + 1 \in 1..Len(channel) /\ j + 1 \in 1..Len(channel) /\ i + 1 < j + 1
          /\ channel'[i] = channel[i + 1] /\ channel'[j] = channel[j + 1]
      BY <1>1, <2>3
    <3> QED
      BY <3>1 DEF InOrder
  <2>4. ASSUME NEW i \in 1..(Len(channel) - 1) PROVE channel[1] < channel'[i]
    <3>1. 1 \in 1..Len(channel) /\ i + 1 \in 1..Len(channel) /\ 1 < i + 1 /\ channel'[i] = channel[i + 1]
      BY <1>1
    <3> QED
      BY <1>1, <3>1 DEF InOrder
  <2>5. last_written < channel[1] /\ channel[1] <= sent
    BY <1>1 DEF InOrder
  <2>6. UNCHANGED <<sent, last_written>>
    OBVIOUS
  <2>7. last_written' <= sent'
    BY <2>6 DEF InOrder
  <2> QED
    BY <1>1, <2>2, <2>3, <2>4, <2>5, <2>6, <2>7 DEF InOrder
<1>5. Emptied' /\ NobodySends'
  BY <1>1 DEF Emptied, NobodySends
<1> QED
  BY <1>2, <1>3, <1>4, <1>5

\* A marker takes the count and tells it, or is lost with it.
LEMMA MarkerAccounts ==
  ASSUME LogTypeOK, write_dropped_marker
  PROVE  /\ dropped' = 0
         /\ reported' \in Nat /\ unreported' \in Nat
         /\ reported' + unreported' = reported + unreported + dropped
<1>1. dropped \in Nat /\ reported \in Nat /\ unreported \in Nat
  BY LogTypes
<1>2. CASE dropped = 0
  BY <1>1, <1>2 DEF write_dropped_marker
<1>3. CASE dropped # 0 /\ reported' = reported + dropped /\ unreported' = unreported
  BY <1>1, <1>3 DEF write_dropped_marker
<1>4. CASE dropped # 0 /\ unreported' = unreported + dropped /\ reported' = reported
  BY <1>1, <1>4 DEF write_dropped_marker
<1> QED
  BY <1>2, <1>3, <1>4 DEF write_dropped_marker

LEMMA MarkerForgetsNothing ==
  ASSUME LogTypeOK, LossesAreFailedWrites, write_dropped_marker, InHand \in Nat, InHand' = InHand,
         channel' = channel, counting' = counting, sent' = sent, written' = written, lost' = lost
  PROVE  LossesAreFailedWrites'
<1> DEFINE x == written + lost + Len(channel) + InHand + counting
<1>1. x \in Nat
  BY LogTypes
<1>2. x' = x
  BY SMTT(20)
<1>3. sent = x + dropped + reported + unreported
  BY DEF LossesAreFailedWrites
<1>4. /\ dropped \in Nat /\ reported \in Nat /\ unreported \in Nat
      /\ reported' \in Nat /\ unreported' \in Nat
      /\ reported' + unreported' = reported + unreported + dropped
  BY LogTypes, MarkerAccounts
<1> HIDE DEF x
<1>5. reported' + unreported' = reported + unreported + dropped =>
        x + dropped + reported + unreported = x + (reported + unreported + dropped)
  BY <1>1, <1>4
<1>6. x + 0 + reported' + unreported' = x + (reported' + unreported')
  BY <1>1, <1>4
<1>7. sent' = x' + dropped' + reported' + unreported'
  BY <1>2, <1>3, <1>4, <1>5, <1>6, MarkerAccounts
<1> QED
  BY <1>7 DEF LossesAreFailedWrites, x

LEMMA MarkerInv == LogInv /\ Marker => LogInv'
<1> SUFFICES ASSUME LogInv, Marker PROVE LogInv'
  OBVIOUS
<1>1. /\ worker \in [at : {"recv", "marker", "entry", "gone"}, entry : Nat]
      /\ worker.at = "marker" /\ worker'.at = "entry" /\ worker'.entry = worker.entry
      /\ worker' \in [at : {"recv", "marker", "entry", "gone"}, entry : Nat]
  BY DEF Marker, LogInv, LogTypeOK
<1>2. /\ dropped' = 0
      /\ reported' \in Nat /\ unreported' \in Nat
      /\ reported' + unreported' = reported + unreported + dropped
  BY MarkerAccounts DEF Marker, LogInv
<1>3. UNCHANGED <<channel, counting, sender, today, fit, sent, written, last_written, lost>>
  BY DEF Marker
<1>4. LogTypeOK'
  BY <1>1, <1>2, <1>3 DEF LogInv, LogTypeOK
<1>5. LossesAreFailedWrites'
  <2>1. InHand \in Nat /\ InHand' = InHand
    BY <1>1 DEF InHand
  <2> QED
    BY <1>3, <2>1, MarkerForgetsNothing DEF LogInv, Marker
<1>6. InOrder'
  BY <1>1, <1>3 DEF LogInv, InOrder
<1>7. Emptied' /\ NobodySends'
  BY <1>1, <1>3 DEF LogInv, Emptied, NobodySends
<1> QED
  BY <1>4, <1>5, <1>6, <1>7 DEF LogInv

LEMMA WriteEntryInv == LogInv /\ write_entry => LogInv'
<1> SUFFICES ASSUME LogInv, write_entry PROVE LogInv'
  OBVIOUS
<1>1. /\ worker.at = "entry" /\ worker.entry \in Nat
      /\ worker'.at = "recv"
      /\ worker' \in [at : {"recv", "marker", "entry", "gone"}, entry : Nat]
  BY LogTypes DEF write_entry, LogInv, LogTypeOK
<1>2. UNCHANGED <<channel, dropped, counting, sender, fit, sent, reported, unreported>>
  BY DEF write_entry
<1>3. \/ written' = written + 1 /\ last_written' = worker.entry /\ lost' = lost
      \/ lost' = lost + 1 /\ written' = written /\ last_written' = last_written
  BY DEF write_entry
<1>4. LogTypeOK'
  BY <1>1, <1>2, <1>3 DEF LogInv, LogTypeOK
<1>5. LossesAreFailedWrites'
  <2>1. InHand' = 0 /\ InHand = 1
    BY <1>1 DEF InHand
  <2>2. /\ sent \in Nat /\ written \in Nat /\ lost \in Nat /\ Len(channel) \in Nat
        /\ counting \in Nat /\ dropped \in Nat /\ reported \in Nat /\ unreported \in Nat
    BY LogTypes DEF LogInv
  <2> QED
    BY <1>2, <1>3, <2>1, <2>2 DEF LogInv, LossesAreFailedWrites
<1>6. InOrder'
  BY <1>1, <1>2, <1>3 DEF LogInv, InOrder
<1>7. Emptied' /\ NobodySends'
  BY <1>1, <1>2 DEF LogInv, Emptied, NobodySends
<1> QED
  BY <1>4, <1>5, <1>6, <1>7 DEF LogInv

LEMMA EndWorkerInv == LogInv /\ EndWorker => LogInv'
<1> SUFFICES ASSUME LogInv, EndWorker PROVE LogInv'
  OBVIOUS
<1>1. /\ worker.at = "recv" /\ worker'.at = "gone"
      /\ worker' \in [at : {"recv", "marker", "entry", "gone"}, entry : Nat]
      /\ channel = <<>> /\ sender = "taken" /\ counting = 0
  BY DEF EndWorker, LogInv, LogTypeOK, NobodySends
<1>2. /\ dropped' = 0
      /\ reported' \in Nat /\ unreported' \in Nat
      /\ reported' + unreported' = reported + unreported + dropped
  BY MarkerAccounts DEF EndWorker, LastMarker, LogInv
<1>3. UNCHANGED <<channel, counting, sender, fit, sent, written, last_written, lost>>
  BY DEF EndWorker
<1>4. LogTypeOK'
  BY <1>1, <1>2, <1>3 DEF LogInv, LogTypeOK
<1>5. LossesAreFailedWrites'
  <2>1. InHand \in Nat /\ InHand' = InHand
    BY <1>1 DEF InHand
  <2> QED
    BY <1>3, <2>1, MarkerForgetsNothing DEF LogInv, EndWorker, LastMarker
<1>6. InOrder'
  BY <1>1, <1>3 DEF LogInv, InOrder
<1>7. Emptied' /\ NobodySends'
  BY <1>1, <1>2, <1>3 DEF LogInv, Emptied, NobodySends
<1> QED
  BY <1>4, <1>5, <1>6, <1>7 DEF LogInv

\* What LogInv speaks of and does not change.
LEMMA LogInvDepends ==
  LogInv /\ fit' \in BOOLEAN
         /\ UNCHANGED <<channel, dropped, counting, sender, worker,
                        sent, written, last_written, lost, reported, unreported>> => LogInv'
  BY DEF LogInv, LogTypeOK, LossesAreFailedWrites, InHand, InOrder, Emptied, NobodySends

LEMMA LogNextInv == LogInv /\ [LogNext]_log_vars => LogInv'
<1> SUFFICES ASSUME LogInv, [LogNext]_log_vars PROVE LogInv'
  OBVIOUS
<1>1. CASE send
  BY <1>1, SendInv
<1>2. CASE Count
  BY <1>2, CountInv
<1>3. CASE recv
  BY <1>3, RecvInv
<1>4. CASE Marker
  BY <1>4, MarkerInv
<1>5. CASE write_entry
  BY <1>5, WriteEntryInv
<1>6. CASE EndWorker
  BY <1>6, EndWorkerInv
<1>7. CASE ClockMoves
  BY <1>7, LogInvDepends DEF ClockMoves, LogInv, LogTypeOK
<1>8. CASE CloseLog /\ UNCHANGED <<channel, dropped, counting, worker, today, date, files, fit,
                                   sent, written, last_written, lost, reported, unreported>>
  BY <1>8 DEF CloseLog, LogInv, LogTypeOK, LossesAreFailedWrites, InHand, InOrder, Emptied,
              NobodySends
<1>9. CASE UNCHANGED log_vars
  BY <1>9, LogInvDepends DEF log_vars, LogInv, LogTypeOK
<1> QED
  BY <1>1, <1>2, <1>3, <1>4, <1>5, <1>6, <1>7, <1>8, <1>9 DEF LogNext, LogStep

\* The invariant of the log (runtime_log.rs).
THEOREM LogInvariant == LogSpec => []LogInv
<1>1. LogInit => LogInv
  BY LogInitInv
<1>2. LogInv /\ [LogNext]_log_vars => LogInv'
  BY LogNextInv
<1> QED
  BY <1>1, <1>2, PTL DEF LogSpec

SoundInv ==
  /\ fit => CleansUp /\ open_log_file
  /\ Sound => lost = 0 /\ unreported = 0

\* DailyLogWriter::write: a fit day and a disk that takes what it is given
\* leave no way to fail.
LEMMA SoundWrites ==
  ASSUME SoundInv, Sound
  PROVE  ~Write(FALSE)
  BY DEF SoundInv, Sound, Write, CleansUp, open_log_file

LEMMA SoundNextInv == SoundInv /\ [LogNext]_log_vars => SoundInv'
<1> SUFFICES ASSUME SoundInv, [LogNext]_log_vars PROVE SoundInv'
  OBVIOUS
<1>1. CASE UNCHANGED <<fit, today, lost, unreported>>
  BY <1>1 DEF SoundInv, Sound, CleansUp, open_log_file, Due
<1>2. CASE Marker \/ EndWorker
  <2>1. UNCHANGED <<fit, today, lost>> /\ write_dropped_marker
    BY <1>2 DEF Marker, EndWorker, LastMarker
  <2>2. Sound => unreported' = unreported
    BY <2>1, SoundWrites DEF write_dropped_marker
  <2> QED
    BY <2>1, <2>2 DEF SoundInv, Sound, CleansUp, open_log_file, Due
<1>3. CASE write_entry
  <2>1. UNCHANGED <<fit, today, unreported>>
    BY <1>3 DEF write_entry
  <2>2. Sound => lost' = lost
    BY <1>3, SoundWrites DEF write_entry
  <2> QED
    BY <2>1, <2>2 DEF SoundInv, Sound, CleansUp, open_log_file, Due
<1>4. CASE ClockMoves
  <2>1. fit' = (fit /\ CleansUp' /\ open_log_file') /\ UNCHANGED <<lost, unreported>>
    BY <1>4 DEF ClockMoves
  <2> QED
    BY <2>1 DEF SoundInv, Sound
<1>5. send \/ Count \/ recv => UNCHANGED <<fit, today, lost, unreported>>
  BY DEF send, Count, recv
<1> QED
  BY <1>1, <1>2, <1>3, <1>4, <1>5 DEF LogNext, LogStep, log_vars

\* run_worker: while the days are fit and the disk takes what it is given,
\* every record that was sent is in a file, waits, or is counted or told of as
\* dropped, and a log that ended has all of them in its files; otherwise what
\* is missing went with a write that failed, the drops of a failed marker with
\* the marker. Records keep their order in any case.
THEOREM RecordsAreAccountedFor == LogSpec => []LogAccounts
<1>1. LogInit => SoundInv
  BY DEF LogInit, SoundInv, Sound
<1>2. LogSpec => []SoundInv
  BY <1>1, SoundNextInv, PTL DEF LogSpec
<1>3. LogInv /\ SoundInv => LogAccounts
  <2> SUFFICES ASSUME LogInv, SoundInv PROVE LogAccounts
    OBVIOUS
  <2>1. /\ sent = written + lost + Len(channel) + InHand + counting + dropped + reported + unreported
        /\ Sound => lost = 0 /\ unreported = 0
    BY DEF LogInv, LossesAreFailedWrites, SoundInv
  <2>2. /\ written \in Nat /\ Len(channel) \in Nat /\ InHand \in Nat /\ counting \in Nat
        /\ dropped \in Nat /\ reported \in Nat
    BY LogTypes DEF LogInv, InHand
  <2>3. NothingMissing
    BY <2>1, <2>2 DEF NothingMissing
  <2>4. ASSUME worker.at = "gone"
        PROVE  channel = <<>> /\ dropped = 0 /\ counting = 0 /\ InHand = 0
    BY <2>4 DEF LogInv, Emptied, InHand
  <2>5. ClosedIsComplete
    BY <2>2, <2>3, <2>4 DEF ClosedIsComplete, NothingMissing
  <2> QED
    BY <2>3, <2>5 DEF LogInv, LogAccounts
<1> QED
  BY <1>2, <1>3, LogInvariant, PTL

\* A write, and what it removes.
LEMMA WriteKeeps ==
  ASSUME NEW ok \in BOOLEAN, Write(ok), NEW d \in files \ files'
  PROVE  d + RETAINED_DAYS <= today
  BY DEF Write, cleanup_old_logs, Old, Due

LEMMA MarkerKeeps ==
  ASSUME write_dropped_marker, NEW d \in files \ files'
  PROVE  d + RETAINED_DAYS <= today
  BY WriteKeeps DEF write_dropped_marker

\* cleanup_old_logs: whatever the clock does, and whatever stops the cleanup
\* halfway, only files older than the retained days are removed.
THEOREM RecentLogsAreKept == LogSpec => RecentLogsStay
<1>1. [LogNext]_log_vars => [\A d \in files \ files' : d + RETAINED_DAYS <= today]_log_vars
  <2> SUFFICES ASSUME LogNext, NEW d \in files \ files'
               PROVE  d + RETAINED_DAYS <= today
    OBVIOUS
  <2>1. CASE Marker \/ EndWorker
    BY <2>1, MarkerKeeps DEF Marker, EndWorker, LastMarker
  <2>2. CASE write_entry
    BY <2>2, WriteKeeps DEF write_entry
  <2>3. CASE send \/ Count \/ recv \/ ClockMoves
    BY <2>3 DEF send, Count, recv, ClockMoves
  <2> QED
    BY <2>1, <2>2, <2>3 DEF LogNext, LogStep
<1> QED
  BY <1>1, PTL DEF LogSpec, RecentLogsStay

-----------------------------------------------------------------------------
(***************************************************************************)
(* What every variable of the session is.                                  *)
Draft == [form : Nat, id : Nat, found : BOOLEAN]
Results == {"none", "ok", "error"}
Task == [op : Nat, action : Operations, form : Nat, id : Nat,
         step : {"asked", "stored", "models", "done"}, result : Results]
Messages == {"none", "tray", "notice", "error"}
View == [open : BOOLEAN, commit : BOOLEAN, busy : BOOLEAN, pending : BOOLEAN,
         message : Messages \cup {"absent"}, draft : Draft]
Runner == [at : {"none", "look", "run", "saved", "dock", "done"}, kind : Switches \cup {""},
           choice : BOOLEAN, before : BOOLEAN, result : Results]
Settings == [Switches -> BOOLEAN]

Numbers == clicks \in Nat /\ operation \in Nat /\ cancel \in Nat /\ providers \subseteq Nat
Records == draft \in Draft /\ view \in View /\ tasks \subseteq Task
Words ==
  /\ failed \in BOOLEAN /\ busy \in BOOLEAN /\ settings_running \in BOOLEAN /\ seen \in BOOLEAN
  /\ message \in Messages
  /\ outcome \in Results
  /\ ui \in {"free", "arm", "refresh"}
FormTypes == Numbers /\ Records /\ Words

SwitchTypes ==
  /\ setting_queue \in [Switches -> {"none", "on", "off"}]
  /\ saved \in Settings /\ shown \in Settings /\ wanted \in Settings
  /\ refused \subseteq Switches
  /\ runner \in Runner
  /\ runner.at \notin {"none", "look"} => runner.kind \in Switches

(* Numbers tell operations apart; what a cancel left behind is no save and *)
(* no removal.                                                             *)
Numbered ==
  /\ \A t \in tasks : t.op <= operation
  /\ \A t, u \in tasks : t.op = u.op => t = u
  /\ \A t \in tasks : t.op = operation \/ t.action \in LateCancels
  /\ \A t \in tasks :
       /\ t.step = "models" => t.action = "discover"
       /\ t.step = "done" => t.result # "none"

(* Only a login, a test or a discovery can be cancelled, and a dialog      *)
(* waits for nothing else than a save or a removal.                        *)
Commits == {"save", "remove"}
Handled ==
  \A t \in tasks : t.op = operation =>
    /\ ui = "arm" \/ cancel # 0 => t.action \notin Commits
    /\ view.commit => t.action \in Commits

(* A switch is in the queue, in the hands of the runner, or settled.       *)
Runs(k) == runner.at \notin {"none", "look"} /\ runner.kind = k
InQueue(k) == setting_queue[k] # "none"
Agrees(k) ==
  /\ ~Runs(k) /\ (k \notin refused \/ FailuresAreClean) => shown[k] = saved[k]
  /\ InQueue(k) => wanted[k] = (setting_queue[k] = "on")
  /\ ~InQueue(k) /\ Runs(k) => wanted[k] = runner.choice
  /\ ~InQueue(k) /\ ~Runs(k) /\ k \notin refused => saved[k] = wanted[k]
Queued ==
  /\ ~settings_running => \A k \in Switches : ~InQueue(k)
  /\ \A k \in Switches : Agrees(k)

InHands(k) ==
  /\ runner.at = "run" => /\ runner.before = shown[k]
                          /\ FailuresAreClean => shown[k] = saved[k]
  /\ runner.at = "saved" => saved[k] = runner.choice
  /\ runner.at = "dock" => /\ k = "Dock" /\ shown[k] = runner.choice
                           /\ FailuresAreClean => saved[k] = runner.before
  /\ runner.at = "done" =>
       /\ runner.result # "error" \/ FailuresAreClean => shown[k] = saved[k]
       /\ runner.result # "error" => saved[k] = runner.choice
Carried == \A k \in Switches : Runs(k) => InHands(k)

(* What the view shows of the session. Between a click and the look at the *)
(* session that ends its handler, `seen` is FALSE if anything changed.     *)
Looked == ui = "free" \/ seen
Viewed ==
  /\ Looked /\ view # NoView => (busy => view.busy) /\ (settings_running => view.pending)
  /\ Looked /\ view.open => view.busy \/ Shows(view.draft, draft)

(* A commit waits for its operation, or for the view to look at the end.   *)
Awaited ==
  view.commit =>
    /\ view.open
    /\ ui = "free" => view.busy
    /\ ~busy => /\ ~seen /\ ~settings_running
                /\ outcome \in {"ok", "error"}
                /\ failed <=> outcome = "error"

SessionInv ==
  /\ FormTypes /\ SwitchTypes /\ Numbered /\ OneOperation /\ Handled
  /\ Queued /\ Carried /\ Viewed /\ Awaited

(* The shell: a window that is not shown has no view, and a release is     *)
(* under way only while the window is hidden.                              *)
Registry == [generation : Nat, pending : BOOLEAN, quitting : BOOLEAN]
ShellInv ==
  /\ registry \in Registry
  /\ window = "none" => view = NoView
  /\ ~UnhideUnseen /\ registry.pending => window = "hidden"

LEMMA RunnerGoes ==
  ASSUME NEW r \in Runner, NEW a \in {"none", "look", "run", "saved", "dock", "done"}
  PROVE  LET s == [r EXCEPT !.at = a] IN
         /\ s \in Runner /\ s.at = a
         /\ s.kind = r.kind /\ s.choice = r.choice /\ s.before = r.before /\ s.result = r.result
  BY DEF Runner

LEMMA RunnerReports ==
  ASSUME NEW r \in Runner, NEW x \in Results
  PROVE  LET s == [r EXCEPT !.at = "done", !.result = x] IN
         /\ s \in Runner /\ s.at = "done" /\ s.result = x
         /\ s.kind = r.kind /\ s.choice = r.choice /\ s.before = r.before
  BY DEF Runner

LEMMA RunnerRests ==
  LET s == [Resting EXCEPT !.at = "look"] IN
  Resting \in Runner /\ s \in Runner /\ Resting.at = "none" /\ s.at = "look"
  BY DEF Runner, Resting, Results

LEMMA TaskSteps ==
  ASSUME NEW t \in Task, NEW s \in {"asked", "stored", "models", "done"}, NEW p \in Nat
  PROVE  /\ LET u == [t EXCEPT !.step = s] IN
            u \in Task /\ u.op = t.op /\ u.action = t.action /\ u.step = s
         /\ LET u == [t EXCEPT !.step = s, !.id = p] IN
            u \in Task /\ u.op = t.op /\ u.action = t.action /\ u.step = s
         /\ \A x \in Results :
            LET u == [t EXCEPT !.step = s, !.result = x] IN
            u \in Task /\ u.op = t.op /\ u.action = t.action /\ u.step = s /\ u.result = x
  BY DEF Task

LEMMA Replaced ==
  ASSUME FormTypes, Numbered, OneOperation, Handled,
         NEW t \in tasks, NEW u \in Task, u.op = t.op, u.action = t.action,
         u.step = "models" => t.action = "discover", u.step = "done" => u.result # "none",
         Replace(t, u),
         UNCHANGED <<operation, busy, cancel, ui, view, settings_running, runner>>
  PROVE  tasks' \subseteq Task /\ Numbered' /\ OneOperation' /\ Handled'
<1>1. tasks' = (tasks \ {t}) \cup {u} /\ tasks \subseteq Task
  BY DEF Replace, FormTypes, Records
<1>2. Numbered'
  BY <1>1 DEF Numbered
<1>3. OneOperation'
  BY <1>1 DEF OneOperation
<1>4. Handled'
  BY <1>1 DEF Handled
<1> QED BY <1>1, <1>2, <1>3, <1>4


LEMMA next_settingInv ==
  ASSUME SessionInv, next_setting
  PROVE  SessionInv'
<1> USE DEF SessionInv, FormTypes, switches
<1>c. UNCHANGED <<draft, credential, message, failed, busy, operation, cancel, setting_error,
                  tasks, providers, switches, outcome, view, ui, clicks>>
  BY DEF next_setting
<1> DEFINE Turned ==
     /\ runner' \in Runner /\ runner.at = "look" /\ settings_running' \in BOOLEAN /\ seen' \in BOOLEAN
     /\ \/ runner'.at = "none" /\ settings_running' = FALSE /\ setting_queue' = setting_queue
           /\ seen' = FALSE
           /\ \A k \in Switches : setting_queue[k] = "none"
        \/ /\ runner'.at = "run" /\ UNCHANGED <<settings_running, seen>>
           /\ \E k \in Switches :
                /\ setting_queue[k] # "none"
                /\ setting_queue' = [setting_queue EXCEPT ![k] = "none"]
                /\ runner'.kind = k /\ runner'.before = shown[k]
                /\ runner'.choice = (setting_queue[k] = "on")
<1>b. Turned
  <2>1. CASE /\ \A k \in Switches : setting_queue[k] = "none"
             /\ settings_running' = FALSE /\ runner' = Resting /\ seen' = FALSE
             /\ UNCHANGED setting_queue
    BY <2>1, RunnerRests DEF next_setting
  <2>2. ASSUME NEW i \in DOMAIN Kinds, setting_queue[Kinds[i]] # "none",
               setting_queue' = [setting_queue EXCEPT ![Kinds[i]] = "none"],
               runner' = [Resting EXCEPT !.at = "run", !.kind = Kinds[i],
                           !.choice = setting_queue[Kinds[i]] = "on", !.before = shown[Kinds[i]]],
               UNCHANGED <<settings_running, seen>>
        PROVE Turned
    <3> DEFINE k == Kinds[i]
    <3>1. k \in Switches
      BY DEF Switches, ToSet
    <3>2. (setting_queue[k] = "on") \in BOOLEAN /\ shown[k] \in BOOLEAN
      BY <3>1 DEF SwitchTypes, Settings
    <3>3. /\ runner' \in Runner /\ runner'.at = "run" /\ runner'.kind = k
          /\ runner'.choice = (setting_queue[k] = "on") /\ runner'.before = shown[k]
      BY <2>2, <3>1, <3>2 DEF Runner, Resting, Results
    <3> QED BY <2>2, <3>1, <3>3 DEF next_setting, Words
  <2> QED BY <2>1, <2>2 DEF next_setting
<1>1. FormTypes'
  BY <1>b, <1>c DEF Numbers, Records, Words
<1>2. SwitchTypes'
  BY <1>b, <1>c DEF SwitchTypes
<1>3. Numbered'
  BY <1>c DEF Numbered
<1>4. OneOperation'
  BY <1>b, <1>c DEF OneOperation
<1>5. Handled'
  BY <1>c DEF Handled
<1>6. Queued'
  <2>1. settings_running
    BY <1>b DEF OneOperation
  <2>2. CASE runner'.at = "none"
    BY <1>b, <1>c, <2>2 DEF Queued, Agrees, InQueue, Runs
  <2>3. CASE runner'.at = "run"
    <3>1. PICK k \in Switches :
            /\ setting_queue[k] # "none"
            /\ setting_queue' = [setting_queue EXCEPT ![k] = "none"]
            /\ runner'.kind = k
            /\ runner'.choice = (setting_queue[k] = "on")
      BY <1>b, <2>3
    <3>2. settings_running'
      BY <1>b, <2>1, <2>3
    <3>3. ASSUME NEW j \in Switches PROVE Agrees(j)'
      <4>1. CASE j = k
        BY <1>b, <1>c, <2>3, <3>1, <4>1 DEF Queued, Agrees, InQueue, Runs, SwitchTypes
      <4>2. CASE j # k
        BY <1>b, <1>c, <2>3, <3>1, <4>2 DEF Queued, Agrees, InQueue, Runs, SwitchTypes
      <4> QED BY <4>1, <4>2
    <3> QED BY <3>2, <3>3 DEF Queued
  <2> QED BY <1>b, <2>2, <2>3
<1>7. Carried'
  BY <1>b, <1>c DEF Carried, InHands, Runs, SwitchTypes, Queued, Agrees
<1>8. Viewed'
  BY <1>b, <1>c DEF Viewed, Looked
<1>9. Awaited'
  BY <1>b, <1>c DEF Awaited, OneOperation
<1> QED BY <1>1, <1>2, <1>3, <1>4, <1>5, <1>6, <1>7, <1>8, <1>9

(* A step of the switch the runner has in its hands.                       *)
LEMMA RunnerStepInv ==
  ASSUME SessionInv, NEW at, at \notin {"none", "look"}, RunnerStep(at),
         runner' \in Runner, runner'.at \notin {"none", "look"},
         runner'.kind = runner.kind, runner'.choice = runner.choice,
         saved' \in Settings, shown' \in Settings,
         \A k \in Switches : k # runner.kind => saved'[k] = saved[k] /\ shown'[k] = shown[k],
         \A k \in Switches : k = runner.kind => InHands(k)'
  PROVE  SessionInv'
<1> USE DEF SessionInv, FormTypes
<1>a. /\ runner.at \notin {"none", "look"}
      /\ UNCHANGED <<draft, credential, message, failed, busy, operation, cancel, setting_error,
                     settings_running, setting_queue, tasks, providers, wanted, refused, outcome,
                     view, seen, ui, clicks>>
  BY DEF RunnerStep, session
<1>1. FormTypes'
  BY <1>a DEF Numbers, Records, Words
<1>2. SwitchTypes'
  BY <1>a DEF SwitchTypes
<1>3. Numbered' /\ Handled'
  BY <1>a DEF Numbered, Handled
<1>4. OneOperation'
  BY <1>a DEF OneOperation
<1>5. Queued'
  BY <1>a DEF Queued, Agrees, InQueue, Runs
<1>6. Carried'
  BY <1>a DEF Carried, Runs
<1>7. Viewed' /\ Awaited'
  BY <1>a DEF Viewed, Looked, Awaited
<1> QED BY <1>1, <1>2, <1>3, <1>4, <1>5, <1>6, <1>7

LEMMA RunnerHas ==
  ASSUME SessionInv, runner.at \notin {"none", "look"}
  PROVE  /\ runner \in Runner /\ runner.kind \in Switches
         /\ runner.choice \in BOOLEAN /\ runner.before \in BOOLEAN
         /\ saved \in Settings /\ shown \in Settings
         /\ InHands(runner.kind)
  BY DEF SessionInv, SwitchTypes, Runner, Carried, Runs

LEMMA SaveSwitchInv ==
  ASSUME SessionInv, SaveSwitch
  PROVE  SessionInv'
<1>a. RunnerStep("run") /\ runner.at = "run" /\ shown' = shown
  BY DEF SaveSwitch, RunnerStep
<1>b. /\ runner \in Runner /\ runner.kind \in Switches /\ runner.choice \in BOOLEAN
      /\ saved \in Settings /\ shown \in Settings
      /\ FailuresAreClean => shown[runner.kind] = saved[runner.kind]
  BY <1>a, RunnerHas DEF InHands
<1>1. CASE /\ runner' = [runner EXCEPT !.at = "saved"]
           /\ saved' = [saved EXCEPT ![runner.kind] = runner.choice]
  <2>1. /\ runner' \in Runner /\ runner'.at = "saved"
        /\ runner'.kind = runner.kind /\ runner'.choice = runner.choice
    BY <1>1, <1>b, RunnerGoes
  <2>2. /\ saved' \in Settings /\ saved'[runner.kind] = runner.choice
        /\ \A k \in Switches : k # runner.kind => saved'[k] = saved[k]
    BY <1>1, <1>b DEF Settings
  <2>3. \A k \in Switches : k = runner.kind => InHands(k)'
    BY <2>1, <2>2 DEF InHands
  <2> QED BY <1>a, <1>b, <2>1, <2>2, <2>3, RunnerStepInv
<1>2. CASE runner' = [runner EXCEPT !.at = "done", !.result = "error"]
  <2>1. /\ runner' \in Runner /\ runner'.at = "done" /\ runner'.result = "error"
        /\ runner'.kind = runner.kind /\ runner'.choice = runner.choice
    BY <1>2, <1>b, RunnerReports DEF Results
  <2>2. /\ saved' \in {saved, [saved EXCEPT ![runner.kind] = runner.choice]}
        /\ FailuresAreClean => saved' = saved
    BY <2>1, RunnerGoes, <1>b DEF SaveSwitch, Writes, Goes, FailuresAreClean
  <2>3. /\ saved' \in Settings
        /\ \A k \in Switches : k # runner.kind => saved'[k] = saved[k]
    BY <1>b, <2>2 DEF Settings
  <2>4. \A k \in Switches : k = runner.kind => InHands(k)'
    BY <1>a, <1>b, <2>1, <2>2 DEF InHands
  <2> QED BY <1>a, <1>b, <2>1, <2>3, <2>4, RunnerStepInv
<1> QED BY <1>1, <1>2 DEF SaveSwitch, Writes, Goes, Reports

LEMMA ShowSwitchInv ==
  ASSUME SessionInv, ShowSwitch
  PROVE  SessionInv'
<1>a. /\ RunnerStep("saved") /\ runner.at = "saved" /\ saved' = saved
      /\ shown' = [shown EXCEPT ![runner.kind] = runner.choice]
      /\ runner' = [runner EXCEPT !.at = "done", !.result = "ok"]
  BY DEF ShowSwitch, RunnerStep, Reports
<1>b. /\ runner \in Runner /\ runner.kind \in Switches /\ runner.choice \in BOOLEAN
      /\ saved \in Settings /\ shown \in Settings
      /\ saved[runner.kind] = runner.choice
  BY <1>a, RunnerHas DEF InHands
<1>1. /\ runner' \in Runner /\ runner'.at = "done"
      /\ runner'.kind = runner.kind /\ runner'.choice = runner.choice
  BY <1>a, <1>b, RunnerReports DEF Results
<1>2. /\ shown' \in Settings /\ shown'[runner.kind] = runner.choice
      /\ \A k \in Switches : k # runner.kind => shown'[k] = shown[k]
  BY <1>a, <1>b DEF Settings
<1>3. \A k \in Switches : k = runner.kind => InHands(k)'
  BY <1>a, <1>b, <1>1, <1>2 DEF InHands
<1> QED BY <1>a, <1>b, <1>1, <1>2, <1>3, RunnerStepInv

LEMMA ShowDockInv ==
  ASSUME SessionInv, ShowDock
  PROVE  SessionInv'
<1>a. RunnerStep("run") /\ runner.at = "run" /\ runner.kind = "Dock" /\ saved' = saved
  BY DEF ShowDock, RunnerStep
<1>b. /\ runner \in Runner /\ runner.kind \in Switches
      /\ runner.choice \in BOOLEAN /\ runner.before \in BOOLEAN
      /\ saved \in Settings /\ shown \in Settings
      /\ FailuresAreClean => shown["Dock"] = saved["Dock"]
      /\ runner.before = shown["Dock"]
  BY <1>a, RunnerHas DEF InHands
<1>1. CASE runner' = [runner EXCEPT !.at = "dock"] /\ shown' = [shown EXCEPT !["Dock"] = runner.choice]
  <2>1. /\ runner' \in Runner /\ runner'.at = "dock" /\ runner'.before = runner.before
        /\ runner'.kind = runner.kind /\ runner'.choice = runner.choice
    BY <1>1, <1>b, RunnerGoes
  <2>2. /\ shown' \in Settings /\ shown'["Dock"] = runner.choice
        /\ \A k \in Switches : k # "Dock" => shown'[k] = shown[k]
    BY <1>1, <1>a, <1>b DEF Settings
  <2>3. \A k \in Switches : k = runner.kind => InHands(k)'
    BY <1>a, <1>b, <2>1, <2>2 DEF InHands
  <2> QED BY <1>a, <1>b, <2>1, <2>2, <2>3, RunnerStepInv
<1>2. CASE runner' = [runner EXCEPT !.at = "done", !.result = "error"] /\ shown' = shown
  <2>1. /\ runner' \in Runner /\ runner'.at = "done" /\ runner'.result = "error"
        /\ runner'.kind = runner.kind /\ runner'.choice = runner.choice
    BY <1>2, <1>b, RunnerReports DEF Results
  <2>2. \A k \in Switches : k = runner.kind => InHands(k)'
    BY <1>2, <1>a, <1>b, <2>1 DEF InHands
  <2> QED BY <1>2, <1>a, <1>b, <2>1, <2>2, RunnerStepInv
<1> QED BY <1>1, <1>2 DEF ShowDock, Goes, Reports

LEMMA SaveDockInv ==
  ASSUME SessionInv, SaveDock
  PROVE  SessionInv'
<1>a. RunnerStep("dock") /\ runner.at = "dock"
  BY DEF SaveDock, RunnerStep
<1>b. /\ runner \in Runner /\ runner.kind \in Switches
      /\ runner.choice \in BOOLEAN /\ runner.before \in BOOLEAN
      /\ saved \in Settings /\ shown \in Settings
      /\ runner.kind = "Dock" /\ shown["Dock"] = runner.choice
      /\ FailuresAreClean => saved["Dock"] = runner.before
  BY <1>a, RunnerHas DEF InHands
<1>1. CASE /\ runner' = [runner EXCEPT !.at = "done", !.result = "ok"]
           /\ saved' = [saved EXCEPT ![runner.kind] = runner.choice]
  <2>1. /\ runner' \in Runner /\ runner'.at = "done" /\ runner'.result = "ok"
        /\ runner'.kind = runner.kind /\ runner'.choice = runner.choice
    BY <1>1, <1>b, RunnerReports DEF Results
  <2>2. /\ saved' \in Settings /\ saved'["Dock"] = runner.choice /\ shown' = shown
        /\ \A k \in Switches : k # "Dock" => saved'[k] = saved[k]
    BY <1>1, <1>b, <2>1 DEF SaveDock, Settings
  <2>3. \A k \in Switches : k = runner.kind => InHands(k)'
    BY <1>b, <2>1, <2>2 DEF InHands
  <2> QED BY <1>a, <1>b, <2>1, <2>2, <2>3, RunnerStepInv
<1>2. CASE runner' = [runner EXCEPT !.at = "done", !.result = "error"]
  <2>1. /\ runner' \in Runner /\ runner'.at = "done" /\ runner'.result = "error"
        /\ runner'.kind = runner.kind /\ runner'.choice = runner.choice
    BY <1>2, <1>b, RunnerReports DEF Results
  <2>2. /\ saved' \in {saved, [saved EXCEPT ![runner.kind] = runner.choice]}
        /\ FailuresAreClean => saved' = saved
    BY <2>1, <1>b, RunnerReports DEF SaveDock, Writes, Reports, FailuresAreClean, Results
  <2>3. /\ shown' \in {shown, [shown EXCEPT !["Dock"] = runner.before]}
        /\ FailuresAreClean => shown' = [shown EXCEPT !["Dock"] = runner.before]
    BY <2>1 DEF SaveDock, FailuresAreClean
  <2>4. /\ saved' \in Settings /\ shown' \in Settings
        /\ FailuresAreClean => shown'["Dock"] = runner.before
        /\ \A k \in Switches : k # "Dock" => shown'[k] = shown[k] /\ saved'[k] = saved[k]
    BY <1>b, <2>2, <2>3 DEF Settings
  <2>5. \A k \in Switches : k = runner.kind => InHands(k)'
    BY <1>b, <2>1, <2>2, <2>4 DEF InHands
  <2> QED BY <1>a, <1>b, <2>1, <2>4, <2>5, RunnerStepInv
<1> QED BY <1>1, <1>2 DEF SaveDock, Writes, Reports

LEMMA finish_settingInv ==
  ASSUME SessionInv, finish_setting
  PROVE  SessionInv'
<1> USE DEF SessionInv, FormTypes
<1>a. UNCHANGED <<draft, credential, busy, operation, cancel, settings_running, setting_queue,
                  tasks, providers, saved, shown, wanted, outcome, view, ui, clicks>>
  BY DEF finish_setting
<1>b. /\ runner \in Runner /\ runner.at = "done" /\ runner.kind \in Switches
      /\ runner' = [Resting EXCEPT !.at = "look"] /\ seen' = FALSE
      /\ refused' = IF runner.result = "error" THEN refused \cup {runner.kind}
                    ELSE refused \ {runner.kind}
  BY DEF finish_setting, SwitchTypes
<1>c. runner' \in Runner /\ runner'.at = "look"
  BY <1>b DEF Runner, Resting, Results
<1>1. FormTypes'
  <2>1. message' \in Messages /\ failed' \in BOOLEAN
    BY DEF finish_setting, Said, Numbers, Records, Words, Messages
  <2> QED BY <1>a, <1>b, <2>1 DEF Numbers, Records, Words
<1>2. SwitchTypes'
  BY <1>a, <1>b, <1>c DEF SwitchTypes
<1>3. Numbered' /\ Handled'
  BY <1>a DEF Numbered, Handled
<1>4. OneOperation'
  BY <1>a, <1>b, <1>c DEF OneOperation
<1>5. Queued'
  BY <1>a, <1>b, <1>c DEF Queued, Agrees, InQueue, Runs, Carried, InHands, SwitchTypes
<1>6. Carried'
  BY <1>c DEF Carried, Runs
<1>7. Viewed'
  BY <1>a, <1>b DEF Viewed, Looked
<1>8. Awaited'
  <2>1. settings_running
    BY <1>b DEF OneOperation
  <2> QED BY <1>a, <2>1 DEF Awaited, OneOperation
<1> QED BY <1>1, <1>2, <1>3, <1>4, <1>5, <1>6, <1>7, <1>8

LEMMA ArmInv ==
  ASSUME SessionInv, Arm
  PROVE  SessionInv'
<1> USE DEF SessionInv, FormTypes, switches
<1>1. FormTypes'
  BY DEF Arm, Numbers, Records, Words
<1>2. SwitchTypes'
  BY DEF Arm, SwitchTypes
<1>3. Numbered'
  BY DEF Arm, Numbered
<1>4. OneOperation'
  BY DEF Arm, OneOperation
<1>5. Handled'
  BY DEF Arm, Handled
<1>6. Queued'
  BY DEF Arm, Queued, Agrees, InQueue, Runs
<1>7. Carried'
  BY DEF Arm, Carried, InHands, Runs
<1>8. Viewed'
  BY DEF Arm, Viewed, Looked
<1>9. Awaited'
  BY DEF Arm, Awaited
<1> QED BY <1>1, <1>2, <1>3, <1>4, <1>5, <1>6, <1>7, <1>8, <1>9

LEMMA CancelInv ==
  ASSUME SessionInv, Cancel
  PROVE  SessionInv'
<1> USE DEF SessionInv, FormTypes
<1>a. /\ ui = "free" /\ ui' = "refresh" /\ clicks' = clicks + 1 /\ view.busy
      /\ UNCHANGED <<draft, credential, settings_running, setting_queue, runner, providers, saved,
                     shown, wanted, refused, outcome, view>>
  BY DEF Cancel, Click, switches
<1>b. clicks' \in Nat /\ ui' \in {"free", "arm", "refresh"}
  BY <1>a DEF Numbers, Records, Words
<1>c. SwitchTypes' /\ Queued' /\ Carried'
  BY <1>a DEF SwitchTypes, Queued, Agrees, InQueue, Runs, Carried, InHands
<1>1. CASE cancel = 0
  <2>1. UNCHANGED <<message, failed, busy, operation, cancel, setting_error, tasks, seen>>
    BY <1>1 DEF Cancel
  <2>2. FormTypes' /\ Numbered' /\ OneOperation' /\ Handled' /\ Viewed' /\ Awaited'
    BY <1>a, <1>b, <2>1 DEF Numbers, Records, Words, Numbered, OneOperation, Handled, Viewed, Looked, Awaited
  <2> QED BY <1>c, <2>2
<1>2. CASE cancel # 0
  <2>1. /\ \A t \in tasks : t.op = cancel /\ t.step # "asked" => t.action \in LateCancels
        /\ tasks' = {t \in tasks : t.op = cancel => t.step # "asked"}
        /\ cancel' = 0 /\ operation' = operation + 1 /\ busy' = FALSE /\ message' = "none"
        /\ failed' = FALSE /\ seen' = FALSE
    BY <1>2 DEF Cancel, Said
  <2>2. busy /\ cancel = operation /\ operation \in Nat /\ tasks \subseteq Task
    BY <1>2 DEF OneOperation, Numbers, Records, Words
  <2>3. \A t \in tasks : t.op \in Nat /\ t.op <= operation
    BY <2>2 DEF Numbered, Task
  <2>4. FormTypes'
    <3>1. Numbers'
      BY <1>a, <1>b, <2>1, <2>2 DEF Numbers
    <3>2. Records'
      BY <1>a, <2>1, <2>2 DEF Records
    <3>3. Words'
      BY <1>a, <2>1 DEF Words, Messages
    <3> QED BY <3>1, <3>2, <3>3
  <2>5. Numbered'
    BY <2>1, <2>2, <2>3 DEF Numbered
  <2>6. OneOperation'
    BY <1>a, <2>1, <2>2, <2>3 DEF OneOperation
  <2>7. Handled'
    BY <2>1, <2>2, <2>3 DEF Handled
  <2>8. Viewed'
    BY <1>a, <2>1, <2>2 DEF Viewed, Looked, OneOperation
  <2>9. Awaited'
    <3>1. ~view.commit
      BY <1>2, <2>2 DEF Handled, OneOperation
    <3> QED BY <1>a, <3>1 DEF Awaited
  <2> QED BY <1>c, <2>4, <2>5, <2>6, <2>7, <2>8, <2>9
<1> QED BY <1>1, <1>2

LEMMA RefreshInv ==
  ASSUME SessionInv, Refresh
  PROVE  SessionInv'
<1> USE DEF SessionInv, FormTypes, switches
<1>1. FormTypes'
  <2>1. Numbers'
    BY DEF Refresh, Numbers
  <2>2. Records'
    <3>1. Refreshed \in View
      BY DEF Refreshed, Records, Words, View
    <3>2. view' \in View
      BY <3>1 DEF Refresh, Records, View
    <3>3. NoDraft \in Draft
      BY DEF NoDraft, Draft
    <3> QED BY <3>2, <3>3 DEF Refresh, Records
  <2>3. Words'
    BY DEF Refresh, Words, Messages, Results
  <2> QED BY <2>1, <2>2, <2>3
<1>2. SwitchTypes'
  BY DEF Refresh, SwitchTypes
<1>3. Numbered'
  BY DEF Refresh, Numbered
<1>4. OneOperation'
  BY DEF Refresh, OneOperation
<1>5. Handled'
  BY DEF Refresh, Refreshed, Handled, Records, View
<1>6. Queued'
  BY DEF Refresh, Queued, Agrees, InQueue, Runs
<1>7. Carried'
  BY DEF Refresh, Carried, InHands, Runs
<1>8. Viewed'
  BY DEF Refresh, Refreshed, Viewed, Looked, Records, View, NoView, NoDraft, Shows
<1>9. Awaited'
  BY DEF Refresh, Refreshed, Awaited, Records, View, OneOperation, Viewed, Looked
<1> QED BY <1>1, <1>2, <1>3, <1>4, <1>5, <1>6, <1>7, <1>8, <1>9

LEMMA setting_actionInv ==
  ASSUME SessionInv, setting_action
  PROVE  SessionInv'
<1> USE DEF SessionInv, FormTypes
<1>a. /\ ui = "free" /\ ui' = "refresh" /\ clicks' = clicks + 1 /\ view # NoView /\ ~view.busy
      /\ UNCHANGED <<draft, credential, busy, operation, cancel, tasks, providers, saved, shown,
                     refused, outcome, view>>
  BY DEF setting_action, Click
<1>b. ~busy
  BY <1>a DEF Viewed, Looked
<1>e. \E kind \in Switches, choice \in {"on", "off"} :
        enqueue_setting(kind, choice) /\ wanted' = [wanted EXCEPT ![kind] = (choice = "on")]
  BY <1>b DEF setting_action
<1>c. PICK k \in Switches, c \in {"on", "off"} :
        /\ setting_queue' = [setting_queue EXCEPT ![k] = c]
        /\ settings_running' = TRUE
        /\ runner' = IF settings_running THEN runner ELSE [Resting EXCEPT !.at = "look"]
        /\ message' = "none" /\ failed' = FALSE /\ seen' = FALSE
        /\ wanted' = [wanted EXCEPT ![k] = (c = "on")]
  BY <1>e DEF enqueue_setting, Said
<1>d. /\ runner' \in Runner /\ runner'.at # "none"
      /\ settings_running => runner' = runner
      /\ ~settings_running => runner'.at = "look" /\ runner.at = "none"
      /\ runner'.at \notin {"none", "look"} => runner'.kind \in Switches
  <2>1. CASE settings_running
    BY <1>c, <2>1 DEF SwitchTypes, OneOperation
  <2>2. CASE ~settings_running
    BY <1>c, <2>2 DEF OneOperation, Runner, Resting, Results
  <2> QED BY <2>1, <2>2
<1>1. FormTypes'
  <2>1. Numbers'
    BY <1>a, <1>c DEF Numbers
  <2>2. Records'
    BY <1>a DEF Records
  <2>3. Words'
    BY <1>a, <1>c DEF Words, Messages, Results
  <2> QED BY <2>1, <2>2, <2>3
<1>2. SwitchTypes'
  BY <1>a, <1>c, <1>d DEF SwitchTypes, Settings
<1>3. Numbered'
  BY <1>a DEF Numbered
<1>4. OneOperation'
  BY <1>a, <1>b, <1>c, <1>d DEF OneOperation
<1>5. Handled'
  BY <1>a DEF Handled
<1>6. Queued'
  <2>1. ASSUME NEW j \in Switches PROVE Agrees(j)'
    <3>1. Runs(j)' <=> Runs(j)
      BY <1>d DEF Runs
    <3>2. CASE j = k
      BY <1>a, <1>c, <1>d, <3>1, <3>2 DEF Queued, Agrees, InQueue, SwitchTypes, Settings
    <3>3. CASE j # k
      <4>1. InQueue(j)' <=> InQueue(j)
        BY <1>c, <3>3 DEF InQueue, SwitchTypes
      <4>2. wanted'[j] = wanted[j] /\ setting_queue'[j] = setting_queue[j]
        BY <1>c, <3>3 DEF SwitchTypes, Settings
      <4>3. Runs(j) => runner' = runner
        BY <1>d DEF Runs
      <4> QED BY <1>a, <3>1, <4>1, <4>2, <4>3 DEF Queued, Agrees
    <3> QED BY <3>2, <3>3
  <2> QED BY <1>c, <2>1 DEF Queued
<1>7. Carried'
  BY <1>a, <1>d DEF Carried, InHands, Runs
<1>8. Viewed'
  BY <1>a, <1>b, <1>c DEF Viewed, Looked
<1>9. Awaited'
  BY <1>a DEF Awaited
<1> QED BY <1>1, <1>2, <1>3, <1>4, <1>5, <1>6, <1>7, <1>8, <1>9

LEMMA actionInv ==
  ASSUME SessionInv, action
  PROVE  SessionInv'
<1> USE DEF SessionInv, FormTypes
<1>a. /\ ui = "free" /\ clicks' = clicks + 1 /\ view # NoView /\ ~view.busy /\ ~view.pending
      /\ view.open
      /\ UNCHANGED <<draft, credential, cancel, settings_running, setting_queue, runner, providers,
                     saved, shown, wanted, refused>>
  BY DEF action, Click, Blocked, switches
<1>b. ~busy /\ ~settings_running /\ ~view.commit
  BY <1>a DEF Viewed, Looked, Awaited
<1> DEFINE u(a) == [op |-> operation', action |-> a, form |-> draft.form, id |-> draft.id,
                    step |-> "asked", result |-> "none"]
<1>c. PICK a \in Operations :
        /\ view' = [view EXCEPT !.commit = @ \/ a \in {"save", "remove"}]
        /\ busy' = TRUE /\ failed' = FALSE /\ operation' = operation + 1 /\ message' = "none"
        /\ tasks' = tasks \cup {u(a)}
        /\ outcome' = "none" /\ seen' = FALSE
        /\ ui' = IF a \in {"login", "test", "discover"} THEN "arm" ELSE "refresh"
  BY <1>b DEF action, Said
<1>d. /\ view' \in View /\ view'.busy = view.busy /\ view'.open = view.open
      /\ view'.commit => a \in Commits
  BY <1>b, <1>c DEF Numbers, Records, Words, View, Commits
<1>e. operation \in Nat /\ operation' \in Nat /\ cancel = 0
  BY <1>b, <1>c DEF Numbers, Records, Words, OneOperation
<1> DEFINE v == u(a)
<1>f. v \in Task /\ v.op = operation + 1 /\ v.action = a /\ v.step = "asked"
  BY <1>c, <1>e DEF Task, Results, Numbers, Records, Words, Draft
<1>g. tasks' = tasks \cup {v}
  BY <1>c
<1> HIDE DEF v
<1>h. /\ tasks \subseteq Task
      /\ \A t \in tasks : t.op \in Nat /\ t.op <= operation /\ t.op # operation
                          /\ t.op # operation'
  <2>1. tasks \subseteq Task
    BY DEF Numbers, Records, Words
  <2>2. \A t \in tasks : t.op \in Nat /\ t.op <= operation /\ t.op # operation
    BY <1>b, <2>1 DEF Numbered, OneOperation, Task
  <2> QED BY <1>c, <1>e, <2>1, <2>2
<1>1. FormTypes'
  <2>1. Numbers'
    BY <1>a, <1>c, <1>e DEF Numbers
  <2>2. Records'
    BY <1>a, <1>d, <1>f, <1>g, <1>h DEF Records
  <2>3. Words'
    BY <1>a, <1>c, <1>e DEF Words, Messages, Results
  <2> QED BY <2>1, <2>2, <2>3
<1>2. SwitchTypes' /\ Queued' /\ Carried'
  BY <1>a DEF SwitchTypes, Queued, Agrees, InQueue, Runs, Carried, InHands
<1>3. Numbered'
  BY <1>c, <1>e, <1>f, <1>g, <1>h DEF Numbered
<1>4. OneOperation'
  BY <1>a, <1>b, <1>c, <1>e, <1>f, <1>g, <1>h DEF OneOperation
<1>5. Handled'
  <2>1. \A t \in tasks' : t.op = operation' => t = v
    BY <1>g, <1>h
  <2>2. cancel' = 0
    BY <1>a, <1>e
  <2>3. ui' = "arm" => a \notin Commits
    BY <1>c DEF Commits
  <2> QED BY <1>d, <1>f, <2>1, <2>2, <2>3 DEF Handled
<1>6. Viewed'
  BY <1>c DEF Viewed, Looked
<1>7. Awaited'
  BY <1>a, <1>c, <1>d DEF Awaited
<1> QED BY <1>1, <1>2, <1>3, <1>4, <1>5, <1>6, <1>7

(* Where the view lets the user act on the form, the form is free.         *)
LEMMA FormIsFree ==
  ASSUME SessionInv, Click, ~view.busy
  PROVE  ~busy /\ ~view.commit /\ clicks' \in Nat /\ (view.open => Shows(view.draft, draft))
<1>1. ~busy /\ (view.open => Shows(view.draft, draft))
  BY DEF SessionInv, Click, Viewed, Looked
<1>2. ~view.commit
  BY DEF SessionInv, Click, Awaited
<1>3. clicks' \in Nat
  BY DEF SessionInv, FormTypes, Numbers, Click
<1> QED BY <1>1, <1>2, <1>3

(* A handler that changes the form and the dialog alone.                   *)
LEMMA HandlerInv ==
  ASSUME SessionInv, Click, ~view.busy, ui' = "refresh",
         UNCHANGED <<busy, operation, cancel, settings_running, setting_queue, tasks, runner,
                     providers, switches, outcome>>,
         draft' \in Draft, view' \in View, message' \in Messages,
         failed' \in BOOLEAN, seen' \in BOOLEAN,
         ~view'.commit,
         seen' => view' = view /\ (view.open => Shows(view.draft, draft'))
  PROVE  SessionInv'
<1> USE DEF SessionInv, FormTypes
<1>a. /\ ui = "free" /\ ~busy /\ clicks' \in Nat
      /\ UNCHANGED <<saved, shown, wanted, refused>>
  BY FormIsFree DEF Click, switches
<1>1. FormTypes'
  BY <1>a DEF Numbers, Records, Words
<1>2. SwitchTypes' /\ Queued' /\ Carried'
  BY <1>a DEF SwitchTypes, Queued, Agrees, InQueue, Runs, Carried, InHands
<1>3. Numbered'
  BY DEF Numbered
<1>4. OneOperation'
  BY DEF OneOperation
<1>5. Handled'
  BY <1>a DEF Handled, OneOperation
<1>6. Viewed'
  BY <1>a DEF Viewed, Looked
<1>7. Awaited'
  BY DEF Awaited
<1> QED BY <1>1, <1>2, <1>3, <1>4, <1>5, <1>6, <1>7

LEMMA KnownRecords ==
  ASSUME SessionInv
  PROVE  /\ draft \in Draft /\ view \in View /\ view.draft \in Draft /\ NoDraft \in Draft
         /\ message \in Messages /\ "none" \in Messages /\ failed \in BOOLEAN /\ seen \in BOOLEAN
         /\ \A x, y \in BOOLEAN : LET v == [view EXCEPT !.open = x, !.commit = y] IN
              v \in View /\ v.commit = y
         /\ \A f \in Nat : [draft EXCEPT !.form = f] \in Draft /\ [NoDraft EXCEPT !.form = f] \in Draft
<1>1. draft \in Draft /\ view \in View /\ message \in Messages /\ failed \in BOOLEAN /\ seen \in BOOLEAN
  BY DEF SessionInv, FormTypes, Records, Words
<1>2. view.draft \in Draft
  BY <1>1 DEF View
<1>3. NoDraft \in Draft /\ "none" \in Messages
  BY DEF NoDraft, Draft, Messages
<1>4. \A x, y \in BOOLEAN : LET v == [view EXCEPT !.open = x, !.commit = y] IN
        v \in View /\ v.commit = y
  BY <1>1 DEF View
<1>5. \A f \in Nat : [draft EXCEPT !.form = f] \in Draft /\ [NoDraft EXCEPT !.form = f] \in Draft
  BY <1>1, <1>3 DEF Draft
<1> QED BY <1>1, <1>2, <1>3, <1>4, <1>5

LEMMA openInv ==
  ASSUME SessionInv, open
  PROVE  SessionInv'
<1>1. /\ Click /\ ~view.busy /\ ui' = "refresh" /\ UNCHANGED failed
      /\ UNCHANGED <<busy, operation, cancel, settings_running, setting_queue, tasks, runner,
                     providers, switches, outcome>>
      /\ view' = [view EXCEPT !.open = TRUE, !.commit = FALSE]
  BY DEF open, FormHandler, Blocked
<1>2. ~busy /\ clicks' \in Nat
  BY <1>1, FormIsFree
<1>3. PICK p \in providers :
        /\ draft' = [form |-> clicks', id |-> p, found |-> FALSE]
        /\ message' = "none" /\ seen' = FALSE
  BY <1>2 DEF open, Said
<1>4. p \in Nat
  BY DEF SessionInv, FormTypes, Numbers
<1>5. draft' \in Draft
  BY <1>2, <1>3, <1>4 DEF Draft
<1> QED BY <1>1, <1>3, <1>5, KnownRecords, HandlerInv

LEMMA DialogInv ==
  ASSUME SessionInv, FormHandler, ~Blocked, clear_draft, UNCHANGED <<message, setting_error>>,
         NEW x \in BOOLEAN, view' = [view EXCEPT !.open = x, !.commit = FALSE]
  PROVE  SessionInv'
<1>1. /\ Click /\ ~view.busy /\ ui' = "refresh" /\ UNCHANGED failed
      /\ UNCHANGED <<busy, operation, cancel, settings_running, setting_queue, tasks, runner,
                     providers, switches, outcome>>
  BY DEF FormHandler, Blocked
<1>2. ~busy
  BY <1>1, FormIsFree
<1>3. draft' = NoDraft /\ seen' = FALSE
  BY <1>2 DEF clear_draft
<1> QED BY <1>1, <1>3, KnownRecords, HandlerInv

LEMMA AddProviderInv == ASSUME SessionInv, AddProvider PROVE SessionInv'
  BY DialogInv DEF AddProvider

LEMMA close_provider_dialogInv == ASSUME SessionInv, close_provider_dialog PROVE SessionInv'
  BY DialogInv DEF close_provider_dialog

LEMMA selectInv ==
  ASSUME SessionInv, select
  PROVE  SessionInv'
<1>1. /\ Click /\ ~view.busy /\ ui' = "refresh" /\ UNCHANGED <<failed, view>>
      /\ UNCHANGED <<busy, operation, cancel, settings_running, setting_queue, tasks, runner,
                     providers, switches, outcome>>
  BY DEF select, FormHandler
<1>2. ~busy /\ ~view.commit /\ clicks' \in Nat
  BY <1>1, FormIsFree
<1>3. /\ draft' \in {[draft EXCEPT !.form = clicks'], [NoDraft EXCEPT !.form = clicks']}
      /\ message' = "none" /\ seen' = FALSE
  BY <1>2 DEF select, Said
<1>4. draft' \in Draft
  BY <1>2, <1>3, KnownRecords
<1> QED BY <1>1, <1>2, <1>3, <1>4, KnownRecords, HandlerInv

LEMMA editInv ==
  ASSUME SessionInv, edit
  PROVE  SessionInv'
<1>1. /\ Click /\ ~view.busy /\ view.open /\ ui' = "refresh" /\ UNCHANGED <<failed, view, seen>>
      /\ UNCHANGED <<busy, operation, cancel, settings_running, setting_queue, tasks, runner,
                     providers, switches, outcome>>
  BY DEF edit, FormHandler
<1>2. ~busy /\ ~view.commit /\ Shows(view.draft, draft)
  BY <1>1, FormIsFree
<1>3. draft' \in {draft, view.draft} /\ message' \in {"none", message}
  BY <1>2 DEF edit, Said
<1>4. Shows(view.draft, draft')
  BY <1>2, <1>3 DEF Shows
<1> QED BY <1>1, <1>2, <1>3, <1>4, KnownRecords, HandlerInv

LEMMA dismiss_messageInv ==
  ASSUME SessionInv, dismiss_message
  PROVE  SessionInv'
<1>1. /\ Click /\ ~view.busy /\ ui' = "refresh" /\ UNCHANGED <<draft, view>>
      /\ message' = "none" /\ failed' = FALSE /\ seen' = FALSE
      /\ UNCHANGED <<busy, operation, cancel, settings_running, setting_queue, tasks, runner,
                     providers, switches, outcome>>
  BY DEF dismiss_message, Said
<1>2. ~view.commit
  BY <1>1, FormIsFree
<1> QED BY <1>1, <1>2, KnownRecords, HandlerInv

(* An operation goes on: the form changes only while it is busy.           *)
LEMMA TaskStepInv ==
  ASSUME SessionInv, NEW t \in tasks, NEW step, TaskStep(t, step),
         NEW u \in Task, u.op = t.op, u.action = t.action, Replace(t, u),
         u.step = "models" => t.action = "discover",
         u.step = "done" => u.result # "none",
         draft' \in Draft, providers' \subseteq Nat, UNCHANGED seen,
         \/ draft' = draft \/ busy
         \/ "discover" \in LateCancels /\ draft'.form = draft.form /\ draft'.id = draft.id
  PROVE  SessionInv'
<1> USE DEF SessionInv, FormTypes
<1>a. UNCHANGED <<message, failed, busy, operation, cancel, settings_running, setting_queue, runner,
                  saved, shown, wanted, refused, outcome, view, ui, clicks>>
  BY DEF TaskStep, switches
<1>1. tasks' \subseteq Task /\ Numbered' /\ OneOperation' /\ Handled'
  BY <1>a, Replaced
<1>2. FormTypes'
  BY <1>a, <1>1 DEF Numbers, Records, Words
<1>3. SwitchTypes' /\ Queued' /\ Carried'
  BY <1>a DEF SwitchTypes, Queued, Agrees, InQueue, Runs, Carried, InHands
<1>4. Viewed'
  BY <1>a DEF Viewed, Looked, NoView, Shows
<1>5. Awaited'
  BY <1>a DEF Awaited
<1> QED BY <1>1, <1>2, <1>3, <1>4, <1>5

LEMMA TaskOf ==
  ASSUME SessionInv, NEW t \in tasks
  PROVE  /\ t \in Task /\ t.id \in Nat /\ draft \in Draft /\ providers \subseteq Nat
         /\ t.step = "models" => t.action = "discover"
         /\ t.action \notin LateCancels => busy
<1>1. t \in Task /\ draft \in Draft /\ providers \subseteq Nat
  BY DEF SessionInv, FormTypes, Records, Numbers
<1>2. t.id \in Nat
  BY <1>1 DEF Task
<1>3. t.step = "models" => t.action = "discover"
  BY DEF SessionInv, Numbered
<1>4. t.action \notin LateCancels => busy
  BY DEF SessionInv, Numbered, OneOperation
<1> QED BY <1>1, <1>2, <1>3, <1>4

LEMMA AnsweredInv ==
  ASSUME SessionInv, NEW t \in tasks, Answered(t)
  PROVE  SessionInv'
<1>a. TaskStep(t, "asked") /\ UNCHANGED <<draft, seen>>
  BY DEF Answered
<1>b. t \in Task /\ t.id \in Nat /\ draft \in Draft /\ providers \subseteq Nat
  BY TaskOf
<1>c. Providers \subseteq Nat
  BY SettingsAssumption
<1>1. ASSUME NEW p \in Nat, providers' \subseteq Nat, Replace(t, [t EXCEPT !.step = "stored", !.id = p])
      PROVE  SessionInv'
  <2> DEFINE u == [t EXCEPT !.step = "stored", !.id = p]
  <2>1. u \in Task /\ u.op = t.op /\ u.action = t.action /\ u.step = "stored"
    BY <1>b DEF Task
  <2> QED BY <1>a, <1>b, <1>1, <2>1, TaskStepInv
<1>2. ASSUME providers' \subseteq Nat, Replace(t, [t EXCEPT !.step = "stored"])
      PROVE  SessionInv'
  <2> DEFINE u == [t EXCEPT !.step = "stored"]
  <2>1. u \in Task /\ u.op = t.op /\ u.action = t.action /\ u.step = "stored"
    BY <1>b DEF Task
  <2> QED BY <1>a, <1>b, <1>2, <2>1, TaskStepInv
<1>3. ASSUME UNCHANGED providers, Replace(t, [t EXCEPT !.step = "done", !.result = "error"])
      PROVE  SessionInv'
  <2> DEFINE u == [t EXCEPT !.step = "done", !.result = "error"]
  <2>1. u \in Task /\ u.op = t.op /\ u.action = t.action /\ u.step = "done" /\ u.result = "error"
    BY <1>b DEF Task, Results
  <2> QED BY <1>a, <1>b, <1>3, <2>1, TaskStepInv
<1>4. CASE t.action = "save" /\ t.id = 0
  BY <1>1, <1>3, <1>4, <1>b, <1>c DEF Answered
<1>5. CASE t.action = "save" /\ t.id # 0
  BY <1>2, <1>3, <1>5, <1>b DEF Answered
<1>6. CASE t.action = "remove"
  BY <1>2, <1>3, <1>6, <1>b DEF Answered
<1>7. CASE t.action \notin {"save", "remove"}
  BY <1>2, <1>3, <1>7, <1>b DEF Answered
<1> QED BY <1>4, <1>5, <1>6, <1>7

LEMMA StoresInv ==
  ASSUME SessionInv, NEW t \in tasks, Stores(t)
  PROVE  SessionInv'
<1>a. TaskStep(t, "stored") /\ UNCHANGED <<providers, seen>>
  BY DEF Stores
<1>b. t \in Task /\ t.id \in Nat /\ draft \in Draft /\ providers \subseteq Nat
  BY TaskOf
<1>c. PICK u \in Task : /\ u.op = t.op /\ u.action = t.action /\ Replace(t, u)
                        /\ (u.step = "models" => t.action = "discover")
                        /\ (u.step = "done" => u.result # "none")
  <2> DEFINE v == [t EXCEPT !.step = "models"]
             w == [t EXCEPT !.step = "done", !.result = "ok"]
  <2>1. /\ v \in Task /\ v.op = t.op /\ v.action = t.action /\ v.step = "models"
        /\ w \in Task /\ w.op = t.op /\ w.action = t.action /\ w.step = "done" /\ w.result = "ok"
    BY <1>b DEF Task, Results
  <2>2. CASE t.action = "discover"
    <3>1. Replace(t, v)
      BY <2>2 DEF Stores
    <3> QED BY <2>1, <2>2, <3>1
  <2>3. CASE t.action # "discover"
    <3>1. Replace(t, w)
      BY <2>3 DEF Stores
    <3> QED BY <2>1, <3>1
  <2> QED BY <2>2, <2>3
<1>d. draft' \in Draft
  <2>1. NoDraft \in Draft
    BY DEF NoDraft, Draft
  <2>2. [draft EXCEPT !.id = t.id] \in Draft
    BY <1>b DEF Draft
  <2> QED BY <1>b, <2>1, <2>2 DEF Stores
<1>e. draft' # draft => busy
  <2>1. draft' # draft => t.action \in {"save", "remove"}
    BY DEF Stores
  <2> QED BY <2>1, TaskOf, SettingsAssumption
<1> QED BY <1>a, <1>b, <1>c, <1>d, <1>e, TaskStepInv

LEMMA StoresModelsInv ==
  ASSUME SessionInv, NEW t \in tasks, StoresModels(t)
  PROVE  SessionInv'
<1>a. /\ TaskStep(t, "models") /\ UNCHANGED <<providers, seen>>
      /\ t.step = "models" /\ draft' = [draft EXCEPT !.found = TRUE]
      /\ Replace(t, [t EXCEPT !.step = "done", !.result = "ok"])
  BY DEF StoresModels, TaskStep
<1>b. t \in Task /\ draft \in Draft /\ providers \subseteq Nat /\ t.action = "discover"
  BY <1>a, TaskOf
<1>c. busy \/ "discover" \in LateCancels
  BY <1>b, TaskOf
<1>d. draft' \in Draft /\ draft'.form = draft.form /\ draft'.id = draft.id
  BY <1>a, <1>b DEF Draft
<1> DEFINE u == [t EXCEPT !.step = "done", !.result = "ok"]
<1>e. u \in Task /\ u.op = t.op /\ u.action = t.action /\ u.step = "done" /\ u.result = "ok"
  BY <1>b DEF Task, Results
<1> QED BY <1>a, <1>b, <1>c, <1>d, <1>e, TaskStepInv

LEMMA FinishInv ==
  ASSUME SessionInv, NEW t \in tasks, Finish(t)
  PROVE  SessionInv'
<1> USE DEF SessionInv, FormTypes
<1>a. /\ t.step = "done" /\ t \in Task /\ tasks' = tasks \ {t}
      /\ UNCHANGED <<draft, credential, operation, settings_running, setting_queue, runner,
                     providers, saved, shown, wanted, refused, view, ui, clicks>>
  BY DEF Finish, switches, Records
<1>b. SwitchTypes' /\ Queued' /\ Carried'
  BY <1>a DEF SwitchTypes, Queued, Agrees, InQueue, Runs, Carried, InHands
<1>1. CASE t.op = operation
  <2>1. /\ cancel' = 0 /\ busy' = FALSE /\ message' \in {"notice", "error"}
        /\ (failed' <=> t.result = "error") /\ failed' \in BOOLEAN
        /\ outcome' = t.result /\ seen' = FALSE
    BY <1>1 DEF Finish, Current, Said, Notes
  <2>2. t.result \in {"ok", "error"}
    BY <1>a DEF Numbered, Task, Results
  <2>3. ~settings_running /\ \A u \in tasks' : u.op # operation
    BY <1>1, <1>a DEF OneOperation, Numbered
  <2>4. FormTypes'
    <3>1. Numbers' /\ Records'
      BY <1>a, <2>1 DEF Numbers, Records
    <3>2. Words'
      BY <1>a, <2>1, <2>2 DEF Words, Messages, Results
    <3> QED BY <3>1, <3>2
  <2>5. Numbered' /\ Handled'
    BY <1>a, <2>1 DEF Numbered, Handled
  <2>6. OneOperation'
    BY <1>a, <2>1, <2>3 DEF OneOperation
  <2>7. Viewed' /\ Awaited'
    BY <1>a, <2>1, <2>2, <2>3 DEF Viewed, Looked, Awaited
  <2> QED BY <1>b, <2>4, <2>5, <2>6, <2>7
<1>2. CASE t.op # operation
  <2>1. UNCHANGED <<cancel, busy, message, setting_error, failed, outcome, seen>>
    BY <1>2 DEF Finish, Current
  <2>2. FormTypes'
    BY <1>a, <2>1 DEF Numbers, Records, Words
  <2>3. Numbered' /\ Handled'
    BY <1>a, <2>1 DEF Numbered, Handled
  <2>4. OneOperation'
    BY <1>2, <1>a, <2>1 DEF OneOperation
  <2>5. Viewed' /\ Awaited'
    BY <1>a, <2>1 DEF Viewed, Looked, Awaited
  <2> QED BY <1>b, <2>2, <2>3, <2>4, <2>5
<1> QED BY <1>1, <1>2

LEMMA SettingsInitInv ==
  ASSUME SettingsInit, view \in {NewView, NoView}
  PROVE  SessionInv
<1> USE DEF SettingsInit
<1>1. NoDraft \in Draft /\ NoView \in View /\ NewView \in View
  <2>1. NoDraft \in Draft
    BY DEF NoDraft, Draft
  <2>2. NoView \in View /\ NewView \in View
    BY <2>1 DEF NoView, NewView, View, Messages
  <2> QED BY <2>1, <2>2
<1>2. view \in View /\ ~view.open /\ ~view.commit
  <2>1. ~NewView.open /\ ~NewView.commit /\ ~NoView.open /\ ~NoView.commit
    BY DEF NoView, NewView
  <2> QED BY <1>1, <2>1
<1>3. FormTypes
  <2>1. (CHOOSE p \in Providers : TRUE) \in Nat
    BY SettingsAssumption
  <2>2. Numbers
    BY <2>1 DEF Numbers
  <2>3. Records
    BY <1>1, <1>2 DEF Records
  <2>4. Words
    BY DEF Words, Messages, Results
  <2> QED BY <2>2, <2>3, <2>4 DEF FormTypes
<1>4. runner \in Runner /\ runner.at = "none"
  BY RunnerRests
<1>5. SwitchTypes
  BY <1>4 DEF SwitchTypes, Settings
<1>6. Numbered /\ Handled
  BY DEF Numbered, Handled
<1>7. OneOperation
  BY <1>4 DEF OneOperation
<1>8. Queued /\ Carried
  BY <1>4 DEF Queued, Agrees, InQueue, Runs, Carried
<1>9. Viewed /\ Awaited
  BY <1>2 DEF Viewed, Awaited
<1> QED BY <1>3, <1>5, <1>6, <1>7, <1>8, <1>9 DEF SessionInv

LEMMA QuietInv ==
  ASSUME SessionInv, UNCHANGED settings_vars
  PROVE  SessionInv'
<1> USE DEF SessionInv, FormTypes, settings_vars, session, switches
<1>1. FormTypes'
  BY DEF Numbers, Records, Words
<1>2. SwitchTypes' /\ Queued' /\ Carried'
  BY DEF SwitchTypes, Queued, Agrees, InQueue, Runs, Carried, InHands
<1>3. Numbered' /\ OneOperation' /\ Handled'
  BY DEF Numbered, OneOperation, Handled
<1>4. Viewed' /\ Awaited'
  BY DEF Viewed, Looked, Awaited
<1> QED BY <1>1, <1>2, <1>3, <1>4

(* The window makes a view or drops it, and the menu bar leaves a message. *)
New(v) == v.busy = busy /\ v.pending = settings_running /\ ~v.open /\ ~v.commit
LEMMA ShellStepInv ==
  ASSUME SessionInv, ui = "free",
         UNCHANGED <<draft, credential, failed, busy, operation, cancel, settings_running,
                     setting_queue, tasks, runner, providers, switches, outcome, ui, clicks>>,
         message' \in Messages, seen' \in {seen, FALSE},
         view' \in View, view' = view \/ view' = NoView \/ New(view')
  PROVE  SessionInv'
<1> USE DEF SessionInv, FormTypes, switches
<1>1. FormTypes'
  BY DEF Numbers, Records, Words
<1>2. SwitchTypes' /\ Queued' /\ Carried'
  BY DEF SwitchTypes, Queued, Agrees, InQueue, Runs, Carried, InHands
<1>3. Numbered' /\ OneOperation'
  BY DEF Numbered, OneOperation
<1>4. view' = view \/ (~view'.open /\ ~view'.commit)
  BY DEF New, NoView
<1>5. Handled'
  BY <1>4 DEF Handled
<1>6. Viewed'
  BY <1>4 DEF Viewed, Looked, New
<1>7. Awaited'
  BY <1>4 DEF Awaited
<1> QED BY <1>1, <1>2, <1>3, <1>5, <1>6, <1>7

LEMMA NewViewIsNew ==
  ASSUME SessionInv, NEW m \in Messages
  PROVE  /\ NewView \in View /\ New(NewView) /\ NoView \in View /\ message \in Messages
         /\ [NewView EXCEPT !.message = m] \in View /\ New([NewView EXCEPT !.message = m])
<1>1. /\ busy \in BOOLEAN /\ settings_running \in BOOLEAN /\ message \in Messages /\ draft \in Draft
      /\ NoDraft \in Draft
  BY KnownRecords DEF SessionInv, FormTypes, Words
<1>2. NewView \in View /\ New(NewView) /\ NoView \in View
  BY <1>1 DEF NewView, NoView, View, New
<1>3. [NewView EXCEPT !.message = m] \in View /\ New([NewView EXCEPT !.message = m])
  BY <1>1 DEF NewView, View, New
<1> QED BY <1>1, <1>2, <1>3

LEMMA SettingsInputInv ==
  ASSUME SessionInv, SettingsInput
  PROVE  SessionInv'
BY setting_actionInv, actionInv, CancelInv, openInv, AddProviderInv, close_provider_dialogInv,
   selectInv, editInv, dismiss_messageInv DEF SettingsInput

LEMMA SettingsStepInv ==
  ASSUME SessionInv, SettingsStep
  PROVE  SessionInv'
BY next_settingInv, SaveSwitchInv, ShowSwitchInv, ShowDockInv, SaveDockInv, finish_settingInv,
   AnsweredInv, StoresInv, StoresModelsInv, FinishInv, ArmInv, RefreshInv DEF SettingsStep, Works

-----------------------------------------------------------------------------
(* The shell.                                                              *)
LEMMA Released ==
  ASSUME registry \in Registry, cancel_release
  PROVE  registry' \in Registry /\ ~registry'.pending /\ registry'.quitting = registry.quitting
<1>1. registry.generation + 1 \in Nat
  BY DEF Registry
<1> QED BY <1>1 DEF Registry, cancel_release

(* A new window is new to the session, an old one keeps its view.          *)
LEMMA OpensInv ==
  ASSUME SessionInv, ShellInv, Free, NEW n, Opens(n), SessionButView
  PROVE  SessionInv' /\ ShellInv'
<1>1. ui = "free" /\ registry \in Registry
  BY DEF Free, ShellInv
<1>2. registry' \in Registry /\ ~registry'.pending
  BY <1>1, Released DEF Opens
<1>3. /\ view' = view \/ view' = NewView
      /\ window' = "none" => window = "none" /\ view' = view
  BY DEF Opens
<1>4. ShellInv'
  BY <1>2, <1>3 DEF ShellInv
<1>5. message \in Messages
  BY KnownRecords
<1>6. view' \in View /\ (view' = view \/ New(view'))
  BY <1>3, <1>5, KnownRecords, NewViewIsNew
<1>7. SessionInv'
  BY <1>1, <1>5, <1>6, ShellStepInv DEF SessionButView, session
<1> QED BY <1>4, <1>7

(* An action that leaves the session and its view alone.                   *)
LEMMA ShellOnly ==
  ASSUME SessionInv, ShellInv, UNCHANGED settings_vars, UNCHANGED <<window, registry>>
  PROVE  SessionInv' /\ ShellInv'
<1>1. ShellInv'
  BY DEF ShellInv, settings_vars
<1> QED BY <1>1, QuietInv

LEMMA ReopenInv == ASSUME SessionInv, ShellInv, Reopen PROVE SessionInv' /\ ShellInv'
<1>1. Free /\ SessionButView
  BY DEF Reopen
<1>2. CASE Opens(0)
  BY <1>1, <1>2, OpensInv
<1>3. CASE /\ UnhideUnseen /\ window = "hidden"
           /\ window' = "shown" /\ UNCHANGED <<view, initialized, registry, errors>>
  <2>1. UNCHANGED settings_vars
    BY <1>1, <1>3 DEF SessionButView, settings_vars
  <2>2. ShellInv'
    BY <1>3 DEF ShellInv
  <2> QED BY <2>1, <2>2, QuietInv
<1> QED BY <1>2, <1>3 DEF Reopen

(* A view that goes goes with its window.                                  *)
LEMMA RemovedInv ==
  ASSUME SessionInv, ShellInv, ui = "free", SessionButView, Removed,
         registry' \in Registry, ~registry'.pending
  PROVE  SessionInv' /\ ShellInv'
<1>1. ShellInv'
  BY DEF ShellInv, Removed
<1>2. message \in Messages
  BY KnownRecords
<1>3. view' \in View /\ view' = NoView
  BY <1>2, NewViewIsNew DEF Removed
<1>4. SessionInv'
  BY <1>2, <1>3, ShellStepInv DEF SessionButView, session
<1> QED BY <1>1, <1>4

LEMMA CloseWindowInv == ASSUME SessionInv, ShellInv, CloseWindow PROVE SessionInv' /\ ShellInv'
<1>1. ui = "free" /\ SessionButView /\ registry \in Registry
  BY DEF CloseWindow, Free, ShellInv
<1>2. CASE registry.quitting
  <2>1. Removed /\ cancel_release
    BY <1>2 DEF CloseWindow
  <2> QED BY <1>1, <2>1, Released, RemovedInv
<1>3. CASE ~registry.quitting
  <2>1. /\ window' = "hidden" /\ UNCHANGED view
        /\ registry' = [registry EXCEPT !.generation = @ + 1, !.pending = TRUE]
    BY <1>3 DEF CloseWindow
  <2>2. registry' \in Registry
    <3>1. registry.generation + 1 \in Nat
      BY <1>1 DEF Registry
    <3> QED BY <1>1, <2>1, <3>1 DEF Registry
  <2>3. ShellInv'
    BY <2>1, <2>2 DEF ShellInv
  <2>4. UNCHANGED settings_vars
    BY <1>1, <2>1 DEF SessionButView, settings_vars
  <2> QED BY <2>3, <2>4, QuietInv
<1> QED BY <1>2, <1>3

LEMMA ReleaseInv == ASSUME SessionInv, ShellInv, Release PROVE SessionInv' /\ ShellInv'
<1>1. ui = "free" /\ SessionButView /\ registry \in Registry
  BY DEF Release, Free, ShellInv
<1>2. CASE Removed /\ cancel_release
  BY <1>1, <1>2, Released, RemovedInv
<1>3. CASE UNCHANGED <<window, view, registry>>
  BY <1>1, <1>3, ShellOnly DEF SessionButView, settings_vars
<1> QED BY <1>2, <1>3 DEF Release, cancel_release

LEMMA PollOpenInv == ASSUME SessionInv, ShellInv, PollOpen PROVE SessionInv' /\ ShellInv'
  BY OpensInv DEF PollOpen, Polled, Polls

LEMMA ManageInv ==
  ASSUME SessionInv, ShellInv, manage_codex_integration_from_tray
  PROVE  SessionInv' /\ ShellInv'
<1>1. Free /\ SessionButView
  BY DEF manage_codex_integration_from_tray, Polled, Polls
<1>2. CASE codex
  BY <1>1, <1>2, ShellOnly DEF manage_codex_integration_from_tray, SessionButView, settings_vars
<1>3. CASE ~codex
  BY <1>1, <1>3, OpensInv DEF manage_codex_integration_from_tray
<1> QED BY <1>2, <1>3

LEMMA RestoreEndsInv == ASSUME SessionInv, ShellInv, RestoreEnds PROVE SessionInv' /\ ShellInv'
<1>1. /\ ui = "free" /\ registry \in Registry
      /\ UNCHANGED <<draft, credential, failed, busy, operation, cancel, settings_running,
                     setting_queue, tasks, runner, providers, switches, outcome, ui, clicks>>
  BY DEF RestoreEnds, Free, ShellInv
<1>2. message' \in Messages /\ seen' \in {seen, FALSE}
  BY KnownRecords DEF RestoreEnds, sync_settings_codex_status, set_message, Said, Messages
<1>3. /\ registry' = registry \/ cancel_release
      /\ view' = view \/ view' = [NewView EXCEPT !.message = message']
      /\ window' = window \/ window' = "shown"
      /\ window' = window => view' = view \/ window # "none"
      /\ window' # window => cancel_release
  BY DEF RestoreEnds
<1>4. registry' \in Registry /\ (registry' = registry \/ ~registry'.pending)
  BY <1>1, <1>3, Released
<1>5. ShellInv'
  BY <1>3, <1>4, Released DEF ShellInv
<1>6. view' \in View /\ (view' = view \/ New(view'))
  BY <1>2, <1>3, KnownRecords, NewViewIsNew
<1>7. SessionInv'
  BY <1>1, <1>2, <1>6, ShellStepInv
<1> QED BY <1>5, <1>7

LEMMA graceful_quitInv == ASSUME SessionInv, ShellInv, graceful_quit PROVE SessionInv' /\ ShellInv'
<1>1. /\ registry' = [registry EXCEPT !.quitting = TRUE] /\ UNCHANGED window
      /\ UNCHANGED settings_vars
  BY DEF graceful_quit, Quiet
<1>2. registry' \in Registry /\ registry'.pending = registry.pending
  BY <1>1 DEF ShellInv, Registry
<1>3. ShellInv'
  BY <1>1, <1>2 DEF ShellInv, settings_vars
<1> QED BY <1>1, <1>3, QuietInv

(* The view of a window that is not there is not refreshed.                *)
LEMMA OnlyAViewChanges == SettingsStep /\ view' # view => view # NoView
  BY DEF SettingsStep, next_setting, SaveSwitch, ShowSwitch, ShowDock, SaveDock, RunnerStep,
         finish_setting, Works, Answered, Stores, StoresModels, TaskStep, Finish, Arm, Refresh

LEMMA FormInputInv ==
  ASSUME SessionInv, ShellInv, FormInput
  PROVE  SessionInv' /\ ShellInv'
<1>1. SettingsInput /\ window = "shown" /\ UNCHANGED <<window, registry>>
  BY DEF FormInput, ShellIdle
<1>2. ShellInv'
  BY <1>1 DEF ShellInv
<1> QED BY <1>1, <1>2, SettingsInputInv

LEMMA FormStepInv ==
  ASSUME SessionInv, ShellInv, FormStep
  PROVE  SessionInv' /\ ShellInv'
<1>1. SettingsStep /\ UNCHANGED <<window, registry>>
  BY DEF FormStep
<1>2. ShellInv'
  BY <1>1, OnlyAViewChanges DEF ShellInv
<1> QED BY <1>1, <1>2, SettingsStepInv

(* The actions of the menu, the log and the end.                           *)
Elsewhere ==
  MenuClick \/ refresh_locale \/ EgressStopped \/ Exit \/ RecordError \/ Observe \/ LogWorks
LEMMA ElsewhereInv == ASSUME SessionInv, ShellInv, Elsewhere PROVE SessionInv' /\ ShellInv'
<1>1. UNCHANGED <<window, registry>> /\ UNCHANGED settings_vars
  BY DEF Elsewhere, MenuClick, refresh_locale, EgressStopped, Exit, RecordError, Observe, LogWorks,
         ShellIdle, Quiet
<1> QED BY <1>1, ShellOnly

LEMMA NextInv == ASSUME SessionInv, ShellInv, [Next]_vars PROVE SessionInv' /\ ShellInv'
<1>1. CASE UNCHANGED vars
  BY <1>1, ShellOnly DEF vars, shell
<1>2. CASE Input
  BY <1>2, ReopenInv, CloseWindowInv, FormInputInv, ElsewhereInv DEF Input, Elsewhere
<1>3. CASE Program
  BY <1>3, ReleaseInv, PollOpenInv, ManageInv, graceful_quitInv, RestoreEndsInv, FormStepInv,
     ElsewhereInv DEF Program, Elsewhere
<1> QED BY <1>1, <1>2, <1>3 DEF Next

LEMMA InitInv == Init => SessionInv /\ ShellInv
<1> SUFFICES ASSUME Init PROVE SessionInv /\ ShellInv
  OBVIOUS
<1>1. view \in {NewView, NoView} /\ (window = "none" => view = NoView)
  BY DEF Init
<1>2. ShellInv
  BY <1>1 DEF Init, ShellInv, Registry
<1> QED BY <1>1, <1>2, SettingsInitInv DEF Init

-----------------------------------------------------------------------------
(* Theorems.                                                               *)

(* The inductive invariant: the session, its view and the window keep what *)
(* each knows of the others, for any switches, Providers and budgets.      *)
THEOREM DesktopInvariant == Spec => [](SessionInv /\ ShellInv)
<1>1. SessionInv /\ ShellInv /\ [Next]_vars => (SessionInv /\ ShellInv)'
  BY NextInv
<1> QED BY <1>1, InitInv, PTL DEF Spec

(* One operation at a time; switches that did not fail are shown and saved *)
(* as they were last chosen; what the user types builds on the form the    *)
(* session has: for every set of late cancels and of ways a write fails.   *)
(* The formula says what is weaker then: a switch that failed may be shown *)
(* otherwise than saved where writes fail after the rename, and the view's *)
(* copy may lack the models of a discovery cancelled too late.             *)
THEOREM SettingsAreAgreed == Spec => []SettingsAgree
<1>1. SessionInv => SettingsAgree
  <2> SUFFICES ASSUME SessionInv PROVE SettingsAgree
    OBVIOUS
  <2>1. OneOperation
    BY DEF SessionInv
  <2>2. SwitchesAgree
    BY <2>1 DEF SessionInv, Queued, Agrees, Runs, OneOperation, SwitchesAgree
  <2>3. EditsBuildOnTheForm
    BY DEF SessionInv, Viewed, Looked, NoView, EditsBuildOnTheForm
  <2> QED BY <2>1, <2>2, <2>3 DEF SettingsAgree
<1> QED BY <1>1, DesktopInvariant, PTL

LEMMA RefreshFollows ==
  ASSUME SessionInv, Refresh, view.commit, ~view'.commit
  PROVE  view'.open <=> view.open /\ outcome = "error"
<1>1. view \in View /\ view' # view
  BY DEF SessionInv, FormTypes, Records
<1>2. ~seen /\ ~busy
  BY <1>1 DEF Refresh, Refreshed, View
<1>3. ~settings_running /\ (failed <=> outcome = "error") /\ view.open
  BY <1>2 DEF SessionInv, Awaited
<1>4. view'.open <=> view.open /\ failed
  BY <1>1, <1>2, <1>3 DEF Refresh, Refreshed, View
<1> QED BY <1>3, <1>4

(* The dialog of a save or a removal goes when the operation succeeded and *)
(* stays when it failed, also when the window is closed and opened, or a   *)
(* restore reports, in between.                                            *)
THEOREM DialogFollows == Spec => DialogFollowsOperation
<1> DEFINE Follows == view.commit /\ ~view'.commit /\ view' # NoView
                        => (view'.open <=> view.open /\ outcome = "error")
<1>1. ASSUME SessionInv, ShellInv, [Next]_vars, view.commit, ~view'.commit, view' # NoView
      PROVE  view'.open <=> view.open /\ outcome = "error"
  <2>1. view \in View /\ view' # view /\ view # NoView /\ window # "none"
    BY <1>1 DEF SessionInv, FormTypes, Records, NoView, ShellInv
  <2>2. CASE UNCHANGED view
    BY <2>1, <2>2
  <2>3. CASE FormInput
    <3>1. SettingsInput
      BY <2>3 DEF FormInput
    <3>2. view.busy
      BY <1>1, <2>3 DEF SessionInv, Awaited, FormInput, Free
    <3>3. UNCHANGED view
      BY <3>1, <3>2 DEF SettingsInput, setting_action, action, Cancel, open, AddProvider,
         close_provider_dialog, select, edit, dismiss_message, Blocked
    <3> QED BY <2>2, <3>3
  <2>4. CASE FormStep
    <3>1. Refresh
      BY <2>1, <2>4 DEF FormStep, SettingsStep, next_setting, SaveSwitch, ShowSwitch, ShowDock,
         SaveDock, RunnerStep, finish_setting, Works, Answered, Stores, StoresModels, TaskStep,
         Finish, Arm
    <3> QED BY <1>1, <3>1, RefreshFollows
  <2>5. CASE Reopen \/ PollOpen \/ manage_codex_integration_from_tray \/ RestoreEnds
    BY <2>1, <2>5 DEF Reopen, PollOpen, manage_codex_integration_from_tray, RestoreEnds, Opens
  <2>6. CASE CloseWindow \/ Release
    BY <1>1, <2>1, <2>6 DEF CloseWindow, Release, Removed
  <2>7. CASE Elsewhere \/ graceful_quit
    BY <2>1, <2>7 DEF Elsewhere, MenuClick, refresh_locale, EgressStopped, Exit, RecordError,
       Observe, LogWorks, graceful_quit, Quiet, settings_vars
  <2>8. CASE UNCHANGED vars
    BY <2>1, <2>8 DEF vars, settings_vars
  <2> QED BY <1>1, <2>3, <2>4, <2>5, <2>6, <2>7, <2>8 DEF Next, Input, Program, Elsewhere
<1>2. SessionInv /\ ShellInv /\ [Next]_vars => [Follows]_settings_vars
  BY <1>1
<1> QED BY <1>2, DesktopInvariant, PTL DEF Spec, DialogFollowsOperation

(* No timer takes a window away that was opened again, unless macOS shows  *)
(* an application without telling it.                                      *)
THEOREM OpenWindowIsKept == ASSUME ~UnhideUnseen PROVE Spec => OpenWindowStays
<1> DEFINE Stays == window = "shown" /\ window' = "none" => registry.quitting
<1>1. ASSUME ShellInv, [Next]_vars, window = "shown", window' = "none"
      PROVE  registry.quitting
  <2>1. CASE Release
    BY <1>1, <2>1 DEF Release, finish_release, ShellInv
  <2>2. CASE CloseWindow
    BY <1>1, <2>2 DEF CloseWindow
  <2>3. CASE Reopen \/ PollOpen \/ manage_codex_integration_from_tray \/ RestoreEnds
    BY <1>1, <2>3 DEF Reopen, PollOpen, manage_codex_integration_from_tray, RestoreEnds, Opens
  <2>4. CASE \/ Elsewhere \/ graceful_quit \/ FormInput \/ FormStep
             \/ UNCHANGED vars
    BY <1>1, <2>4 DEF Elsewhere, MenuClick, refresh_locale, EgressStopped, Exit, RecordError,
       Observe, LogWorks, ShellIdle, graceful_quit, FormInput, FormStep, vars, shell
  <2> QED BY <1>1, <2>1, <2>2, <2>3, <2>4 DEF Next, Input, Program, Elsewhere
<1>2. ShellInv /\ [Next]_vars => [Stays]_vars
  BY <1>1
<1> QED BY <1>2, DesktopInvariant, PTL DEF Spec, OpenWindowStays

(* Whatever the program does, its log is a log: each step of the whole is  *)
(* a step of RuntimeLog or leaves the log alone.                           *)
THEOREM DesktopKeepsItsLog == Spec => LogSpec
<1>1. ASSUME [Next]_vars PROVE [LogNext]_log_vars
  <2>1. CASE RecordError \/ Observe \/ LogWorks
    BY <2>1 DEF RecordError, Observe, LogWorks, LogNext
  <2>2. CASE Exit
    BY <2>2 DEF Exit, LogNext, log_vars
  <2>3. CASE \/ Reopen \/ CloseWindow \/ MenuClick \/ FormInput
             \/ Release \/ refresh_locale \/ PollOpen \/ manage_codex_integration_from_tray
             \/ graceful_quit \/ RestoreEnds \/ EgressStopped \/ FormStep
             \/ UNCHANGED vars
    <3>1. UNCHANGED log_vars
      BY <2>3 DEF Reopen, CloseWindow, MenuClick, FormInput, Release, refresh_locale, PollOpen,
         manage_codex_integration_from_tray, graceful_quit, RestoreEnds, EgressStopped, FormStep,
         Quiet, vars
    <3> QED BY <3>1
  <2> QED BY <1>1, <2>1, <2>2, <2>3 DEF Next, Input, Program
<1>2. Init => LogInit
  BY DEF Init
<1> QED BY <1>1, <1>2, PTL DEF Spec, LogSpec

(* So every record of every part of the program is accounted for.          *)
THEOREM DesktopAccounts == Spec => []LogAccounts
  BY DesktopKeepsItsLog, RecordsAreAccountedFor, PTL

=============================================================================
