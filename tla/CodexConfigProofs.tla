-------------------------- MODULE CodexConfigProofs --------------------------
(***************************************************************************)
(* Proofs about CodexConfig, for every set of URLs, user values, bodies and *)
(* places.                                                                  *)
(***************************************************************************)
EXTENDS CodexConfig, TLAPS

(***************************************************************************)
(* Typing of the helpers.                                                   *)
(***************************************************************************)
LEMMA IdleType == IdleOp \in Operation /\ IdleOp.pc = "idle"
  BY CodexAssumption DEF IdleOp, Operation, Places, Kinds, Files, Caches, Receipts,
    Planned, Windows

LEMMA GotoType ==
  ASSUME ProcessOK, NEW t \in Ops, NEW o, NEW pc,
         [o EXCEPT !.pc = pc] \in Operation,
         op[t].pc # "idle" \/ mode = "up",
         Goto(t, o, pc), UNCHANGED <<mode, url>>
  PROVE  ProcessOK'
  <1>1. op' \in [Ops -> Operation] /\ \A s \in Ops \ {t} : op'[s] = op[s]
    BY DEF ProcessOK, Goto
  <1>2. QED
    BY <1>1 DEF ProcessOK

LEMMA AbandonType ==
  ASSUME ProcessOK, NEW t \in Ops, op[t].pc # "idle", Abandon(t)
  PROVE  ProcessOK'
  <1>1. op' \in [Ops -> Operation] /\ op' = [op EXCEPT ![t] = IdleOp]
    BY IdleType DEF ProcessOK, Abandon
  <1>2. CASE mode = "starting"
    BY <1>1, <1>2, IdleType, CodexAssumption DEF ProcessOK, Abandon, Managed
  <1>3. CASE mode # "starting"
    BY <1>1, <1>3, IdleType DEF ProcessOK, Abandon
  <1>4. QED
    BY <1>2, <1>3

LEMMA CompleteType ==
  ASSUME ProcessOK, NEW t \in Ops, op[t].pc # "idle", Complete(t)
  PROVE  ProcessOK'
  BY IdleType DEF ProcessOK, Complete

LEMMA RequireType ==
  ASSUME ProcessOK, NEW t \in Ops, op[t].pc # "idle",
         NEW guard, NEW o, NEW pc,
         guard => [o EXCEPT !.pc = pc] \in Operation,
         Require(t, guard, o, pc)
  PROVE  ProcessOK'
  <1>1. CASE guard
    BY <1>1, GotoType DEF Require
  <1>2. CASE ~guard
    BY <1>2, AbandonType DEF Require
  <1>3. QED
    BY <1>1, <1>2

\* What the documents are made of.
LEMMA FileParts ==
  ASSUME NEW f \in Files
  PROVE  AsFile(f) \in File /\ Keys(f) \in Managed /\ Body(f) \in Bodies
  BY CodexAssumption DEF Files, File, AsFile, Keys, Body, Managed

LEMMA PreparedType ==
  ASSUME NEW f \in Files, NEW c \in Caches, NEW r \in Receipts, NEW u \in Urls
  PROVE  Prepared(f, c, r, u) \in Receipt
  <1>1. [m |-> u, u |-> Body(f)] \in Files
    BY FileParts DEF Files, File, Managed
  <1>2. Installed(r) => r \in Receipt
    BY DEF Installed, Receipts
  <1>3. QED
    BY <1>1, <1>2 DEF Prepared, Receipt, Phases

LEMMA RestoreTargetType ==
  ASSUME NEW f \in Files, NEW r \in Receipt
  PROVE  RestoreTarget(f, r) \in Files
  <1>1. Keys(r.orig) \in Managed
    BY FileParts DEF Receipt
  <1>2. QED
    BY <1>1, FileParts DEF RestoreTarget, Restored, Files, File

(***************************************************************************)
(* Typing of the steps.                                                     *)
(***************************************************************************)
\* An operation moves on to any place its plan allows.
LEMMA MoveType ==
  ASSUME NEW o \in Operation, NEW pc \in Places,
         Planned([o EXCEPT !.pc = pc]) => o.plan # None
  PROVE  [o EXCEPT !.pc = pc] \in Operation
  BY DEF Operation, Planned, Applies

LEMMA StepType ==
  ASSUME TypeOK, NEW t \in Ops, Step(t)
  PROVE  TypeOK'
  <1> DEFINE o == op[t]
  <1>0. ProcessOK /\ o \in Operation
    BY DEF TypeOK, ProcessOK
  <1> USE DEF Places, Windows
  <1>1. ASSUME NEW kind \in Kinds, Request(t, kind)
        PROVE  TypeOK'
    <2>1. kind \in {"reconcile", "trayDisable", "enable", "disable"}
      BY <1>1, CodexAssumption DEF Request, Kinds
    <2>2. \A pc \in {"inspectConfig", "readReceipt"} :
            [[IdleOp EXCEPT !.kind = kind] EXCEPT !.pc = pc] \in Operation
      BY IdleType DEF Operation, Planned
    <2>3. kind = "enable" => [[IdleOp EXCEPT !.kind = kind] EXCEPT !.pc = "readConfig"] \in Operation
      BY IdleType DEF Operation, Planned, Applies
    <2>4. ProcessOK'
      BY <1>0, <1>1, <2>1, <2>2, <2>3, GotoType DEF Request
    <2>5. QED
      BY <1>1, <2>4 DEF Request, TypeOK, files
  <1>2. CASE InspectConfig(t)
    <2>1. [[o EXCEPT !.cfg = config] EXCEPT !.pc = "inspectReceipt"] \in Operation
      BY <1>0 DEF TypeOK, Operation, Planned
    <2>2. ProcessOK'
      BY <1>0, <1>2, <2>1, GotoType DEF InspectConfig, At
    <2>3. QED
      BY <1>2, <2>2 DEF InspectConfig, TypeOK, files
  <1>3. CASE InspectReceipt(t)
    <2> DEFINE pc == IF Applies(o) THEN "readConfig" ELSE "readReceipt"
    <2>0. [o EXCEPT !.cfg = None] \in Operation /\ (~ Applies(o) => pc = "readReceipt")
      BY <1>0 DEF Operation, Files, Planned, Applies
    <2>1. [[o EXCEPT !.cfg = None] EXCEPT !.pc = pc] \in Operation
      <3> DEFINE u == [o EXCEPT !.cfg = None]
      <3>1. u.kind = o.kind /\ u.plan = o.plan /\ pc \in Places
        BY <1>0 DEF Operation
      <3>2. ~ Planned([u EXCEPT !.pc = pc])
        BY <2>0, <3>1 DEF Operation, Planned, Applies
      <3> QED
        BY <2>0, <3>1, <3>2, MoveType
    <2>2. ProcessOK'
      BY <1>0, <1>3, <2>1, GotoType, CompleteType DEF InspectReceipt, At
    <2>3. QED
      BY <1>3, <2>2 DEF InspectReceipt, TypeOK, files
  <1>4. CASE ReadConfig(t)
    <2>1. [[o EXCEPT !.cfg = config] EXCEPT !.pc = "readCache"] \in Operation
      BY <1>0, <1>4 DEF TypeOK, Operation, Planned, Applies, ReadConfig, At
    <2>2. ProcessOK'
      BY <1>0, <1>4, <2>1, RequireType DEF ReadConfig, At
    <2>3. QED
      BY <1>4, <2>2 DEF ReadConfig, TypeOK, files
  <1>5. CASE ReadCache(t)
    <2> DEFINE next == [o EXCEPT !.cache = cache]
    <2>1. next \in Operation /\ (~Applies(o) => next.plan # None) /\ (Applies(next) <=> Applies(o))
      BY <1>0, <1>5 DEF TypeOK, Operation, ReadCache, At, Planned, Applies
    <2>2. PICK pc \in Places : Goto(t, next, pc) /\ (Applies(o) => pc = "readReceipt")
      BY <1>5, <2>1 DEF ReadCache
    <2>3. [next EXCEPT !.pc = pc] \in Operation
      BY <2>1, <2>2 DEF Operation, Planned, Applies
    <2>4. ProcessOK'
      BY <1>0, <1>5, <2>2, <2>3, GotoType DEF ReadCache, At
    <2>5. QED
      BY <1>5, <2>4 DEF ReadCache, TypeOK, files
  <1>6. CASE ApplyReadReceipt(t)
    <2> DEFINE plan == Prepared(o.cfg, o.cache, receipt, url)
    <2>1. url \in Urls
      BY <1>0, <1>6 DEF ApplyReadReceipt, At, ProcessOK
    <2>2. plan \in Receipt
      BY <1>0, <2>1, PreparedType DEF TypeOK, Operation
    <2>3. plan \in Receipts /\ plan # None
      BY <2>2, CodexAssumption DEF Receipts
    <2>4. [[o EXCEPT !.held = receipt, !.plan = plan] EXCEPT !.pc = "checkPrepared"] \in Operation
      <3> HIDE DEF plan
      <3> QED
        BY <1>0, <2>3 DEF TypeOK, Operation
    <2>5. ProcessOK'
      BY <1>0, <1>6, <2>4, RequireType DEF ApplyReadReceipt, At
    <2>6. QED
      BY <1>6, <2>5 DEF ApplyReadReceipt, TypeOK, files
  <1>7. CASE RestoreReadReceipt(t)
    <2> DEFINE plan == [receipt EXCEPT !.phase = "restored", !.hash = None]
               next == [o EXCEPT !.held = receipt, !.plan = plan]
    <2>1. receipt # None => plan \in Receipt
      BY DEF TypeOK, Receipts, Receipt, Phases, Files
    <2>2. receipt # None => plan \in Receipts /\ plan # None
      BY <2>1, CodexAssumption DEF Receipts
    <2>3. receipt # None => [next EXCEPT !.pc = "readConfig"] \in Operation
      <3> HIDE DEF plan
      <3> QED
        BY <1>0, <2>2 DEF TypeOK, Operation
    <2>4. ProcessOK'
      BY <1>0, <1>7, <2>3, RequireType, CompleteType DEF RestoreReadReceipt, At
    <2>5. QED
      BY <1>7, <2>4 DEF RestoreReadReceipt, TypeOK, files
  <1>8. CASE CheckPrepared(t)
    <2>1. o.plan # None
      BY <1>0, <1>8 DEF CheckPrepared, At, Operation, Planned
    <2>2. \A pc \in Places : [o EXCEPT !.pc = pc] \in Operation
      BY <1>0, <2>1, MoveType
    <2>3. ProcessOK'
      BY <1>0, <1>8, <2>2, RequireType DEF CheckPrepared, At
    <2>4. QED
      BY <1>8, <2>3 DEF CheckPrepared, TypeOK, files
  <1>9. CASE RenamePrepared(t)
    <2>1. o.plan # None
      BY <1>0, <1>9 DEF RenamePrepared, At, Operation, Planned
    <2>2. ProcessOK'
      BY <1>0, <1>9, <2>1, MoveType, GotoType DEF RenamePrepared, At
    <2>3. QED
      BY <1>0, <1>9, <2>2 DEF RenamePrepared, TypeOK, Operation
  <1>10. CASE ReadBack(t)
    <2>1. o.plan # None
      BY <1>0, <1>10 DEF ReadBack, At, Operation, Planned
    <2>2. [[o EXCEPT !.held = receipt] EXCEPT !.pc = "checkConfig"] \in Operation
      BY <1>0, <2>1 DEF TypeOK, Operation
    <2>3. ProcessOK'
      BY <1>0, <1>10, <2>2, GotoType DEF ReadBack, At
    <2>4. QED
      BY <1>10, <2>3 DEF ReadBack, TypeOK, files
  <1>11. CASE CheckConfig(t)
    <2>1. o.plan # None
      BY <1>0, <1>11 DEF CheckConfig, At, Operation, Planned
    <2>2. \A pc \in Places : [o EXCEPT !.pc = pc] \in Operation
      BY <1>0, <2>1, MoveType
    <2>3. ProcessOK'
      BY <1>0, <1>11, <2>2, RequireType DEF CheckConfig, At
    <2>4. QED
      BY <1>11, <2>3 DEF CheckConfig, TypeOK, files
  <1>12. CASE ReplaceConfig(t)
    <2>1. o.plan \in Receipt /\ o.plan # None
      BY <1>0, <1>12 DEF ReplaceConfig, At, Operation, Planned, Receipts
    <2>2. config' \in Files
      BY <1>0, <1>12, <2>1, RestoreTargetType DEF ReplaceConfig, Operation, Receipt
    <2>3. ProcessOK'
      BY <1>0, <1>12, <2>1, MoveType, GotoType DEF ReplaceConfig, At
    <2>4. QED
      BY <1>12, <2>2, <2>3 DEF ReplaceConfig, TypeOK
  <1>13. CASE CheckCache(t)
    <2>1. o.plan # None
      BY <1>0, <1>13 DEF CheckCache, At, Operation, Planned
    <2>2. \A pc \in Places : [o EXCEPT !.pc = pc] \in Operation
      BY <1>0, <2>1, MoveType
    <2>3. ProcessOK'
      BY <1>0, <1>13, <2>2, RequireType DEF CheckCache, At
    <2>4. QED
      BY <1>13, <2>3 DEF CheckCache, TypeOK, files
  <1>14. CASE RemoveCache(t)
    <2>1. o.plan # None
      BY <1>0, <1>14 DEF RemoveCache, At, Operation, Planned
    <2>2. ProcessOK'
      BY <1>0, <1>14, <2>1, MoveType, GotoType DEF RemoveCache, At
    <2>3. QED
      BY <1>14, <2>2 DEF RemoveCache, TypeOK, Caches
  <1>15. CASE CheckFinal(t)
    <2>1. o.plan # None
      BY <1>0, <1>15 DEF CheckFinal, At, Operation, Planned
    <2>2. \A pc \in Places : [o EXCEPT !.pc = pc] \in Operation
      BY <1>0, <2>1, MoveType
    <2>3. ProcessOK'
      BY <1>0, <1>15, <2>2, RequireType DEF CheckFinal, At
    <2>4. QED
      BY <1>15, <2>3 DEF CheckFinal, TypeOK, files
  <1>16. CASE SaveFinal(t)
    <2>1. o.plan \in Receipt
      BY <1>0, <1>16 DEF SaveFinal, At, Operation, Planned, Receipts
    <2>2. receipt' \in Receipts
      BY <1>16, <2>1 DEF SaveFinal, Receipts, Receipt, Phases
    <2>3. ProcessOK'
      BY <1>0, <1>16, CompleteType DEF SaveFinal, At
    <2>4. QED
      BY <1>16, <2>2, <2>3 DEF SaveFinal, TypeOK
  <1>17. CASE IoFail(t)
    BY <1>0, <1>17, AbandonType DEF IoFail, TypeOK, files
  <1>18. QED
    BY <1>1, <1>2, <1>3, <1>4, <1>5, <1>6, <1>7, <1>8, <1>9, <1>10, <1>11, <1>12,
       <1>13, <1>14, <1>15, <1>16, <1>17 DEF Step

(***************************************************************************)
(* Typing of the environment, and the theorem.                              *)
(***************************************************************************)
LEMMA EnvironmentType ==
  ASSUME TypeOK, Start \/ Crash \/ Edit \/ Regenerate
  PROVE  TypeOK'
  <1>0. ProcessOK /\ Boot \in Ops /\ None \notin Urls
    BY CodexAssumption DEF TypeOK, Managed
  <1>1. CASE Start
    <2>1. url' \in Urls
      <3>1. active_integration(config, receipt) => receipt.url \in Urls
        BY DEF TypeOK, active_integration, Receipts, Receipt
      <3>2. QED
        BY <1>1, <3>1 DEF Start, FreshUrls
    <2>2. CASE active_integration(config, receipt)
      <3> DEFINE o == [[IdleOp EXCEPT !.kind = "listener"] EXCEPT !.pc = "inspectConfig"]
      <3>1. o \in Operation
        BY IdleType DEF Operation, Planned, Places, Windows, Kinds
      <3>2. op' = [op EXCEPT ![Boot] = o] /\ mode' = "starting"
        BY <1>1, <2>2 DEF Start, Goto
      <3>3. ProcessOK'
        <4> HIDE DEF o
        <4> QED
          BY <1>0, <1>1, <2>1, <3>1, <3>2 DEF ProcessOK, Start
      <3>4. QED
        BY <1>1, <3>3 DEF Start, TypeOK, files
    <2>3. CASE ~active_integration(config, receipt)
      <3>1. op' = op /\ mode' = "up"
        BY <1>1, <2>3 DEF Start
      <3>2. ProcessOK'
        BY <1>0, <1>1, <2>1, <3>1 DEF ProcessOK, Start
      <3>3. QED
        BY <1>1, <3>2 DEF Start, TypeOK, files
    <2>4. QED
      BY <2>2, <2>3
  <1>2. CASE Crash
    <2>1. ProcessOK'
      BY <1>0, <1>2, IdleType DEF Crash, ProcessOK
    <2>2. QED
      BY <1>2, <2>1 DEF Crash, TypeOK, files
  <1>3. CASE Edit
    BY <1>3 DEF Edit, TypeOK, ProcessOK
  <1>4. CASE Regenerate
    BY <1>4, FileParts DEF Regenerate, TypeOK, ProcessOK, Caches
  <1>5. QED
    BY <1>1, <1>2, <1>3, <1>4

\* Whatever the configurations, receipts and places, and however operations
\* overlap, every file and every operation keeps its shape.
THEOREM TypeCorrect == Spec => []TypeOK
  <1>1. Init => TypeOK
    <2>1. None \notin Urls
      BY CodexAssumption DEF Managed
    <2>2. Init => ProcessOK
      BY <2>1, IdleType DEF Init, ProcessOK
    <2>3. QED
      BY <2>2, FileParts DEF Init, TypeOK, Caches, Receipts
  <1>2. TypeOK /\ [Next]_vars => TypeOK'
    <2>1. CASE UNCHANGED vars
      BY <2>1 DEF TypeOK, ProcessOK, vars, files
    <2>2. QED
      BY <2>1, StepType, EnvironmentType DEF Next
  <1>3. QED
    BY <1>1, <1>2, PTL DEF Spec

(***************************************************************************)
(* Custody of the receipt while operations do not overlap.                  *)
(***************************************************************************)
OneAtATime == \A s, t \in Ops : s = t

LEMMA DisjointKeys ==
  ASSUME NEW v \in UserValues
  PROVE  v \notin Urls
  BY CodexAssumption

\* An operation that ended holds nothing.
LEMMA IdleCustody == OperationCustody(IdleOp)'
  BY DEF OperationCustody, ApplyCustody, Applies, IdleOp, Preparing, Installing

\* What is left to show when an operation goes on, with its new record o.
LEMMA GotoCustody ==
  ASSUME OneAtATime, TypeOK, NEW t \in Ops, NEW o, NEW pc, Goto(t, o, pc),
         DiskCustody', OperationCustody([o EXCEPT !.pc = pc])'
  PROVE  Custody'
  <1> DEFINE next == [o EXCEPT !.pc = pc]
  <1>1. op' = [op EXCEPT ![t] = next]
    BY DEF Goto
  <1> HIDE DEF next
  <1>2. \A s \in Ops : op'[s] = next
    BY <1>1 DEF OneAtATime, TypeOK, ProcessOK
  <1>3. OperationCustody(next)'
    BY DEF next
  <1>4. QED
    BY <1>2, <1>3 DEF Custody

LEMMA EndCustody ==
  ASSUME OneAtATime, TypeOK, NEW t \in Ops, op' = [op EXCEPT ![t] = IdleOp], DiskCustody'
  PROVE  Custody'
  <1>1. \A s \in Ops : op'[s] = IdleOp
    BY DEF OneAtATime, TypeOK, ProcessOK
  <1>2. QED
    BY <1>1, IdleCustody DEF Custody

\* A step that leaves the files alone leaves them in custody.
LEMMA SameDisk ==
  ASSUME DiskCustody, UNCHANGED <<files, edited>>
  PROVE  DiskCustody'
  BY DEF DiskCustody, files, Displaceable

LEMMA RequireCustody ==
  ASSUME OneAtATime, TypeOK, NEW t \in Ops, NEW guard, NEW o, NEW pc,
         Require(t, guard, o, pc), DiskCustody',
         guard => OperationCustody([o EXCEPT !.pc = pc])'
  PROVE  Custody'
  <1>1. CASE guard
    BY <1>1, GotoCustody DEF Require
  <1>2. CASE ~guard
    BY <1>2, EndCustody DEF Require, Abandon
  <1>3. QED
    BY <1>1, <1>2

\* A validated configuration holds the managed keys of the receipt or the original ones.
LEMMA ValidatedDisplaceable ==
  ASSUME NEW f \in Files, NEW r \in Receipt, Installed(r), Sound(r),
         validate_current_against_receipt(f, r)
  PROVE  Displaceable(f, r)
  <1>1. r.url \in Urls
    BY DEF Receipt
  <1>2. QED
    BY <1>1 DEF validate_current_against_receipt, managed_state_matches,
      original_managed_state_matches, Displaceable, Installed, Sound

\* The configuration restore leaves has the original managed keys, written or not.
LEMMA TargetKeys ==
  ASSUME NEW f \in Files, NEW r \in Receipt
  PROVE  /\ Keys(RestoreTarget(f, r)) = Keys(r.orig)
         /\ ~RestoreWrites(f, r) => Keys(f) = Keys(r.orig)
  <1>1. Restored(f, r) # None /\ Restored(f, r).m = Keys(r.orig)
    <2>1. Restored(f, r) \in File
      BY FileParts DEF Restored, File, Receipt
    <2>2. QED
      BY <2>1, CodexAssumption DEF Restored
  <1>2. f # None => f.m = Keys(f) /\ Body(f) = f.u
    BY DEF Keys, Body, AsFile
  <1>3. CASE RestoreTarget(f, r) = None
    BY <1>1, <1>3 DEF RestoreTarget, RestoreWrites, Keys, AsFile, Restored, Body
  <1>4. CASE RestoreTarget(f, r) # None
    BY <1>1, <1>4 DEF RestoreTarget, RestoreWrites, Keys, AsFile, Restored, Body
  <1>5. QED
    BY <1>3, <1>4

LEMMA RestoredKeys ==
  ASSUME DiskCustody, Installed(receipt), NEW f \in Files,
         NEW r \in Receipt, r.orig = receipt.orig,
         Keys(config) \in Urls => Keys(f) \in Urls,
         ~RestoreWrites(f, r)
  PROVE  Keys(config) \notin Urls
  <1>1. Keys(f) \in UserValues
    BY TargetKeys DEF DiskCustody, Sound
  <1>2. QED
    BY <1>1, DisjointKeys

\* The reads of both operations.
LEMMA ReadCustody ==
  ASSUME OneAtATime, TypeOK, Custody, NEW t \in Ops,
         \/ \E kind \in Kinds : Request(t, kind)
         \/ InspectConfig(t) \/ InspectReceipt(t) \/ ReadConfig(t) \/ ReadCache(t)
  PROVE  Custody'
  <1>0. PICK o \in Operation : o = op[t]
    BY DEF TypeOK, ProcessOK
  <1>1. DiskCustody /\ OperationCustody(o)
    BY <1>0 DEF Custody
  <1> USE DEF Preparing, Installing
  <1>2. ASSUME NEW kind \in Kinds, Request(t, kind)
        PROVE  Custody'
    <2> DEFINE new == [IdleOp EXCEPT !.kind = kind]
    <2>1. DiskCustody'
      BY <1>1, <1>2, SameDisk DEF Request
    <2>2. PICK pc \in {"inspectConfig", "readConfig", "readReceipt"} :
            Goto(t, new, pc) /\ (pc = "readConfig" => Applies(new))
      <3>1. kind \in {"reconcile", "trayDisable", "enable", "disable"}
        BY <1>2, CodexAssumption DEF Request, Kinds
      <3>2. QED
        BY <1>2, <3>1 DEF Request, IdleOp, Applies
    <2>3. OperationCustody([new EXCEPT !.pc = pc])'
      <3>1. Keys(None) \notin Urls
        BY CodexAssumption, DisjointKeys DEF Keys, AsFile
      <3>2. QED
        BY <2>2, <3>1 DEF OperationCustody, ApplyCustody, RestoreCustody, Applies, IdleOp,
          Planned, Windows
    <2>4. QED
      BY <2>1, <2>2, <2>3, GotoCustody
  <1>3. CASE InspectConfig(t)
    <2>1. PICK f \in Files : f = config
      BY DEF TypeOK
    <2>2. DiskCustody'
      BY <1>1, <1>3, SameDisk DEF InspectConfig
    <2>3. OperationCustody([[o EXCEPT !.cfg = f] EXCEPT !.pc = "inspectReceipt"])'
      BY DEF OperationCustody, ApplyCustody, RestoreCustody, Applies, Planned, Windows, Operation
    <2>4. QED
      BY <1>0, <1>3, <2>1, <2>2, <2>3, GotoCustody DEF InspectConfig
  <1>4. CASE InspectReceipt(t)
    <2> DEFINE next == [o EXCEPT !.cfg = None]
               pc == IF Applies(o) THEN "readConfig" ELSE "readReceipt"
    <2>1. DiskCustody'
      BY <1>1, <1>4, SameDisk DEF InspectReceipt
    <2>2. OperationCustody([next EXCEPT !.pc = pc])'
      BY DEF OperationCustody, ApplyCustody, RestoreCustody, Applies, Planned, Windows, Operation
    <2>3. Goto(t, next, pc) \/ Complete(t)
      BY <1>0, <1>4 DEF InspectReceipt
    <2>4. QED
      BY <2>1, <2>2, <2>3, GotoCustody, EndCustody DEF Complete
  <1>5. CASE ReadConfig(t)
    <2>1. PICK f \in Files : f = config
      BY DEF TypeOK
    <2>2. DiskCustody'
      BY <1>1, <1>5, SameDisk DEF ReadConfig
    <2> DEFINE next == [[o EXCEPT !.cfg = f] EXCEPT !.pc = "readCache"]
               guard == Applies(o) \/ validate_current_against_receipt(f, o.held)
    <2>3. guard => OperationCustody(next)'
      <3>1. UNCHANGED <<config, receipt>> /\ o.pc = "readConfig"
        BY <1>0, <1>5 DEF ReadConfig, At, files
      <3>2. CASE Applies(o)
        BY <1>1, <2>1, <3>1, <3>2
          DEF OperationCustody, ApplyCustody, Applies, Operation, DiskCustody
      <3>3. CASE ~Applies(o) /\ validate_current_against_receipt(f, o.held)
        <4>1. /\ Planned(o) /\ Installed(receipt) /\ o.held = receipt
              /\ o.plan = [receipt EXCEPT !.phase = "restored", !.hash = None]
          BY <1>1, <3>1, <3>3 DEF OperationCustody, RestoreCustody, Planned
        <4>2. receipt \in Receipt /\ Sound(receipt)
          BY <1>1, <4>1 DEF TypeOK, Receipts, DiskCustody, Installed
        <4>3. Displaceable(f, receipt)
          BY <3>3, <4>1, <4>2, ValidatedDisplaceable
        <4>4. QED
          BY <2>1, <3>1, <3>3, <4>1, <4>3
            DEF OperationCustody, RestoreCustody, Applies, Operation, Planned
      <3>4. QED
        BY <3>2, <3>3
    <2>4. Require(t, guard, [o EXCEPT !.cfg = f], "readCache")
      BY <1>0, <1>5, <2>1 DEF ReadConfig
    <2>5. QED
      BY <2>2, <2>3, <2>4, RequireCustody
  <1>6. CASE ReadCache(t)
    <2>1. PICK c \in Caches : c = cache
      BY DEF TypeOK
    <2>2. DiskCustody'
      BY <1>1, <1>6, SameDisk DEF ReadCache
    <2>3. UNCHANGED <<config, receipt>> /\ o.pc = "readCache"
      BY <1>0, <1>6 DEF ReadCache, At, files
    <2> DEFINE next == [o EXCEPT !.cache = c]
    <2>4. CASE Applies(o)
      <3>1. Goto(t, next, "readReceipt")
        BY <1>0, <1>6, <2>1, <2>4 DEF ReadCache, Applies, Operation
      <3>2. OperationCustody([next EXCEPT !.pc = "readReceipt"])'
        BY <1>1, <2>3, <2>4 DEF OperationCustody, ApplyCustody, Applies, Operation
      <3>3. QED
        BY <2>2, <3>1, <3>2, GotoCustody
    <2>5. CASE ~Applies(o)
      <3>1. PICK pc \in {"checkCache", "checkConfig", "checkFinal"} :
              Goto(t, next, pc) /\ (pc = "checkFinal" => ~RestoreWrites(o.cfg, o.plan))
        BY <1>0, <1>6, <2>1, <2>5 DEF ReadCache, Applies, Operation
      <3>2. /\ Planned(o) /\ Installed(receipt) /\ o.held = receipt
            /\ o.plan = [receipt EXCEPT !.phase = "restored", !.hash = None]
            /\ Displaceable(o.cfg, receipt)
            /\ Keys(config) \in Urls => Keys(o.cfg) \in Urls
        BY <1>1, <2>3, <2>5 DEF OperationCustody, RestoreCustody, Planned
      <3>3. pc = "checkFinal" => Keys(config) \notin Urls
        <4>1. receipt \in Receipt /\ o.plan \in Receipt
          BY <3>2 DEF TypeOK, Receipts, Installed, Operation
        <4>2. o.plan.orig = receipt.orig
          BY <3>2, <4>1 DEF Receipt
        <4>3. QED
          BY <1>1, <3>1, <3>2, <4>1, <4>2, RestoredKeys DEF Operation
      <3>4. OperationCustody([next EXCEPT !.pc = pc])'
        BY <2>3, <2>5, <3>2, <3>3
          DEF OperationCustody, RestoreCustody, Applies, Operation, Planned, Windows
      <3>5. QED
        BY <2>2, <3>1, <3>4, GotoCustody
    <2>6. QED
      BY <2>4, <2>5
  <1>7. QED
    BY <1>2, <1>3, <1>4, <1>5, <1>6

\* The receipt an operation plans.
LEMMA PlanCustody ==
  ASSUME OneAtATime, TypeOK, Custody, NEW t \in Ops,
         ApplyReadReceipt(t) \/ RestoreReadReceipt(t)
  PROVE  Custody'
  <1>0. PICK o \in Operation : o = op[t]
    BY DEF TypeOK, ProcessOK
  <1>1. DiskCustody /\ OperationCustody(o)
    BY <1>0 DEF Custody
  <1>2. PICK r \in Receipts : r = receipt
    BY DEF TypeOK
  <1>3. PICK w : w = url
    OBVIOUS
  <1>4. o \in Operation /\ o.cfg \in Files /\ o.cache \in Caches
    BY DEF Operation
  <1> USE DEF Preparing, Installing
  <1>5. CASE ApplyReadReceipt(t)
    <2>1. w \in Urls /\ o.pc = "readReceipt" /\ Applies(o) /\ UNCHANGED <<files, edited>>
      BY <1>0, <1>3, <1>5 DEF ApplyReadReceipt, At, TypeOK, ProcessOK
    <2>2. DiskCustody'
      BY <1>1, <2>1, SameDisk
    <2> DEFINE plan == Prepared(o.cfg, o.cache, r, w)
               guard == Installed(r) => validate_current_against_receipt(o.cfg, r)
               next == [o EXCEPT !.held = r, !.plan = plan]
    <2>3. Require(t, guard, next, "checkPrepared")
      BY <1>0, <1>2, <1>3, <1>5 DEF ApplyReadReceipt
    <2>4. ASSUME guard
          PROVE  Sound(plan) /\ Displaceable(o.cfg, plan) /\ plan.phase = "prepared"
      <3>1. [m |-> w, u |-> Body(o.cfg)] \in File
        BY <1>4, <2>1, FileParts DEF File, Managed
      <3>2. plan.hash # None /\ Keys(plan.hash) \in Urls
        BY <2>1, <3>1, CodexAssumption DEF Prepared, Keys, AsFile
      <3>3. CASE Installed(r)
        <4>1. r \in Receipt /\ Sound(r)
          BY <1>1, <1>2, <3>3 DEF DiskCustody, Installed, Receipts
        <4>2. Displaceable(o.cfg, r)
          BY <1>4, <2>4, <3>3, <4>1, ValidatedDisplaceable
        <4>3. QED
          BY <3>2, <3>3, <4>1, <4>2 DEF Sound, Displaceable, Prepared
      <3>4. CASE ~Installed(r)
        <4>1. Keys(o.cfg) \in UserValues
          BY <1>1, <1>2, <1>4, <2>1, <3>4, FileParts DEF OperationCustody, ApplyCustody, Managed
        <4>2. QED
          BY <3>2, <3>4, <4>1 DEF Sound, Displaceable, Prepared
      <3>5. QED
        BY <3>3, <3>4
    <2>5. Installed(r) => plan.orig = r.orig /\ plan.backup = r.backup
      BY DEF Prepared
    <2>6. guard => OperationCustody([next EXCEPT !.pc = "checkPrepared"])'
      <3> HIDE DEF plan, guard
      <3>1. receipt' = r
        BY <1>2, <2>1 DEF files
      <3>2. Applies([next EXCEPT !.pc = "checkPrepared"])
        BY <2>1 DEF Applies, Operation
      <3>3. QED
        BY <2>4, <2>5, <3>1, <3>2 DEF OperationCustody, ApplyCustody, Operation
    <2>7. QED
      BY <2>2, <2>3, <2>6, RequireCustody
  <1>6. CASE RestoreReadReceipt(t)
    <2>1. o.pc = "readReceipt" /\ ~Applies(o) /\ UNCHANGED <<files, edited>>
      BY <1>0, <1>6 DEF RestoreReadReceipt, At
    <2>2. DiskCustody'
      BY <1>1, <2>1, SameDisk
    <2>3. CASE r # None /\ r.phase = "restored"
      BY <1>2, <1>6, <2>2, <2>3, EndCustody DEF RestoreReadReceipt, Complete
    <2>4. CASE ~(r # None /\ r.phase = "restored")
      <3> DEFINE plan == [r EXCEPT !.phase = "restored", !.hash = None]
                 next == [o EXCEPT !.held = r, !.plan = plan]
      <3>1. Require(t, r # None, next, "readConfig")
        BY <1>0, <1>2, <1>6, <2>4 DEF RestoreReadReceipt
      <3>2. r # None => OperationCustody([next EXCEPT !.pc = "readConfig"])'
        <4>1. receipt' = r
          BY <1>2, <2>1 DEF files
        <4>2. ~Applies([next EXCEPT !.pc = "readConfig"])
          BY <2>1 DEF Applies, Operation
        <4>3. r # None => Installed(r)
          BY <2>4 DEF Installed
        <4>4. QED
          BY <4>1, <4>2, <4>3 DEF OperationCustody, RestoreCustody, Operation
      <3>3. QED
        BY <2>2, <3>1, <3>2, RequireCustody
    <2>5. QED
      BY <2>3, <2>4
  <1>7. QED
    BY <1>5, <1>6

\* What an operation that still runs knows, in a form its checks keep.
LEMMA CheckCustody ==
  ASSUME OneAtATime, TypeOK, Custody, NEW t \in Ops,
         CheckPrepared(t) \/ ReadBack(t) \/ CheckConfig(t) \/ CheckCache(t) \/ CheckFinal(t) \/ IoFail(t)
  PROVE  Custody'
  <1>0. PICK o \in Operation : o = op[t]
    BY DEF TypeOK, ProcessOK
  <1>1. DiskCustody /\ OperationCustody(o)
    BY <1>0 DEF Custody
  <1>2. UNCHANGED <<files, edited>>
    BY DEF CheckPrepared, ReadBack, CheckConfig, CheckCache, CheckFinal, IoFail
  <1>3. DiskCustody' /\ UNCHANGED <<config, receipt>>
    BY <1>1, <1>2, SameDisk DEF files
  <1> USE DEF Preparing, Installing
  <1>4. CASE CheckPrepared(t)
    <2>1. OperationCustody([o EXCEPT !.pc = "renamePrepared"])'
      BY <1>0, <1>1, <1>3, <1>4 DEF OperationCustody, ApplyCustody, RestoreCustody, Operation,
        CheckPrepared, At, Applies
    <2>2. Require(t, receipt = o.held, o, "renamePrepared")
      BY <1>0, <1>4 DEF CheckPrepared
    <2>3. QED
      BY <1>3, <2>1, <2>2, RequireCustody
  <1>5. CASE ReadBack(t)
    <2>1. PICK r \in Receipts : r = receipt
      BY DEF TypeOK
    <2>2. OperationCustody([[o EXCEPT !.held = r] EXCEPT !.pc = "checkConfig"])'
      BY <1>0, <1>1, <1>3, <1>5 DEF OperationCustody, ApplyCustody, RestoreCustody, Operation,
        ReadBack, At, Applies
    <2>3. QED
      BY <1>0, <1>3, <1>5, <2>1, <2>2, GotoCustody DEF ReadBack
  <1>6. CASE CheckConfig(t)
    <2>1. OperationCustody([o EXCEPT !.pc = "replaceConfig"])'
      BY <1>0, <1>1, <1>3, <1>6 DEF OperationCustody, ApplyCustody, RestoreCustody, Operation,
        CheckConfig, At, Applies, Planned, Windows
    <2>2. Require(t, config = o.cfg, o, "replaceConfig")
      BY <1>0, <1>6 DEF CheckConfig
    <2>3. QED
      BY <1>3, <2>1, <2>2, RequireCustody
  <1>7. CASE CheckCache(t)
    <2>1. OperationCustody([o EXCEPT !.pc = "removeCache"])'
      BY <1>0, <1>1, <1>3, <1>7 DEF OperationCustody, ApplyCustody, RestoreCustody, Operation,
        CheckCache, At, Applies, Planned, Windows
    <2>2. Require(t, cache = o.cache, o, "removeCache")
      BY <1>0, <1>7 DEF CheckCache
    <2>3. QED
      BY <1>3, <2>1, <2>2, RequireCustody
  <1>8. CASE CheckFinal(t)
    <2>1. OperationCustody([o EXCEPT !.pc = "saveFinal"])'
      BY <1>0, <1>1, <1>3, <1>8 DEF OperationCustody, ApplyCustody, RestoreCustody, Operation,
        CheckFinal, At, Applies, Planned, Windows
    <2>2. Require(t, receipt = o.held, o, "saveFinal")
      BY <1>0, <1>8 DEF CheckFinal
    <2>3. QED
      BY <1>3, <2>1, <2>2, RequireCustody
  <1>9. CASE IoFail(t)
    BY <1>3, <1>9, EndCustody DEF IoFail, Abandon
  <1>10. QED
    BY <1>4, <1>5, <1>6, <1>7, <1>8, <1>9

\* What a restore that has planned its receipt knows about it.
LEMMA RestorePlan ==
  ASSUME TypeOK, NEW o \in Operation, OperationCustody(o), ~Applies(o), Planned(o)
  PROVE  /\ receipt \in Receipt /\ o.plan \in Receipt
         /\ Installed(receipt) /\ ~Installed(o.plan) /\ o.plan.phase = "restored"
         /\ o.plan.orig = receipt.orig
  <1>1. Installed(receipt) /\ o.plan = [receipt EXCEPT !.phase = "restored", !.hash = None]
    BY DEF OperationCustody, RestoreCustody
  <1>2. receipt \in Receipt
    BY <1>1 DEF TypeOK, Receipts, Installed
  <1>3. o.plan.phase = "restored" /\ o.plan.orig = receipt.orig
    BY <1>1, <1>2 DEF Receipt
  <1>4. o.plan \in Receipt
    BY <1>1, <1>2 DEF Receipt, Phases, Files
  <1>5. QED
    BY <1>1, <1>2, <1>3, <1>4 DEF Installed

\* The renames and the removal.
LEMMA WriteCustody ==
  ASSUME OneAtATime, TypeOK, Custody, NEW t \in Ops,
         RenamePrepared(t) \/ ReplaceConfig(t) \/ RemoveCache(t) \/ SaveFinal(t)
  PROVE  Custody'
  <1>0. PICK o \in Operation : o = op[t]
    BY DEF TypeOK, ProcessOK
  <1>1. DiskCustody /\ OperationCustody(o)
    BY <1>0 DEF Custody
  <1>2. Planned(o)
    BY <1>0 DEF RenamePrepared, ReplaceConfig, RemoveCache, SaveFinal, At, Planned, Windows
  <1>3. o.plan \in Receipt /\ o.plan # None /\ o.cfg \in Files
    BY <1>2, CodexAssumption DEF Operation, Receipts
  <1> USE DEF Preparing, Installing
  <1>4. CASE RenamePrepared(t)
    <2>1. o.pc = "renamePrepared" /\ receipt' = o.plan /\ config' = config /\ Goto(t, o, "readBack")
      BY <1>0, <1>4 DEF RenamePrepared, At
    <2>2. Applies(o) /\ ApplyCustody(o)
      BY <1>1, <2>1 DEF OperationCustody, RestoreCustody
    <2>3. o.plan.phase = "prepared" /\ Sound(o.plan) /\ Installed(o.plan)
      BY <1>3, <2>1, <2>2 DEF ApplyCustody, Installed
    <2>4. ~edited' => Displaceable(config, o.plan)
      <3>1. edited' = IF Installed(receipt) THEN edited ELSE Keys(config) # Keys(o.plan.orig)
        BY <1>0, <1>4, <2>1, <2>2 DEF RenamePrepared, ApplyCustody
      <3>2. CASE Installed(receipt)
        BY <1>1, <2>1, <2>2, <3>1, <3>2 DEF ApplyCustody, DiskCustody, Displaceable
      <3>3. CASE ~Installed(receipt)
        BY <3>1, <3>3 DEF Displaceable
      <3>4. QED
        BY <3>2, <3>3
    <2>5. DiskCustody'
      BY <2>1, <2>3, <2>4 DEF DiskCustody
    <2>6. OperationCustody([o EXCEPT !.pc = "readBack"])'
      BY <2>1, <2>2 DEF OperationCustody, ApplyCustody, Applies, Operation
    <2>7. QED
      BY <2>1, <2>5, <2>6, GotoCustody
  <1>5. CASE ReplaceConfig(t)
    <2>1. /\ o.pc = "replaceConfig" /\ UNCHANGED <<receipt, edited>>
          /\ config' = IF Applies(o) THEN o.plan.hash ELSE RestoreTarget(o.cfg, o.plan)
          /\ \E pc \in {"checkCache", "checkFinal"} :
               Goto(t, o, pc) /\ (~Applies(o) => pc = "checkFinal")
      BY <1>0, <1>5 DEF ReplaceConfig, At
    <2>2. CASE Applies(o)
      <3>1. ApplyCustody(o) /\ receipt = o.plan /\ Installed(receipt) /\ Sound(o.plan)
        BY <1>1, <1>3, <2>1, <2>2 DEF OperationCustody, ApplyCustody, Installed
      <3>2. DiskCustody'
        BY <1>1, <2>1, <2>2, <3>1 DEF DiskCustody, Displaceable, Sound
      <3>3. \A pc \in {"checkCache", "checkFinal"} : OperationCustody([o EXCEPT !.pc = pc])'
        BY <2>1, <2>2, <3>1 DEF OperationCustody, ApplyCustody, Applies, Operation
      <3>4. QED
        BY <2>1, <3>2, <3>3, GotoCustody
    <2>3. CASE ~Applies(o)
      <3>1. Keys(config') = Keys(receipt.orig) /\ Installed(receipt) /\ RestoreCustody(o)
        BY <1>1, <1>2, <1>3, <2>1, <2>3, RestorePlan, TargetKeys DEF OperationCustody
      <3>2. Keys(config') \notin Urls
        BY <1>1, <3>1, DisjointKeys DEF DiskCustody, Sound
      <3>3. DiskCustody'
        BY <1>1, <2>1, <3>1, <3>2 DEF DiskCustody, Displaceable
      <3>4. OperationCustody([o EXCEPT !.pc = "checkFinal"])'
        BY <1>2, <2>1, <2>3, <3>1, <3>2
          DEF OperationCustody, RestoreCustody, Applies, Operation, Planned
      <3>5. QED
        BY <2>1, <2>3, <3>3, <3>4, GotoCustody
    <2>4. QED
      BY <2>2, <2>3
  <1>6. CASE RemoveCache(t)
    <2>1. /\ o.pc = "removeCache" /\ UNCHANGED <<config, receipt, edited>>
          /\ \E pc \in {"checkConfig", "checkFinal"} :
               /\ Goto(t, o, pc)
               /\ Applies(o) => pc = "checkFinal"
               /\ ~Applies(o) /\ pc = "checkFinal" => ~RestoreWrites(o.cfg, o.plan)
      BY <1>0, <1>6 DEF RemoveCache, At
    <2>2. DiskCustody'
      BY <1>1, <2>1, SameDisk DEF DiskCustody, Displaceable
    <2>3. CASE Applies(o)
      <3>1. OperationCustody([o EXCEPT !.pc = "checkFinal"])'
        BY <1>1, <2>1, <2>3 DEF OperationCustody, ApplyCustody, Applies, Operation
      <3>2. QED
        BY <2>1, <2>2, <2>3, <3>1, GotoCustody
    <2>4. CASE ~Applies(o)
      <3>1. RestoreCustody(o)
        BY <1>1, <2>4 DEF OperationCustody
      <3>2. Keys(config) \in Urls => Keys(o.cfg) \in Urls
        BY <1>2, <2>1, <3>1 DEF RestoreCustody
      <3>3. ~RestoreWrites(o.cfg, o.plan) => Keys(config) \notin Urls
        BY <1>1, <1>2, <1>3, <2>4, <3>2, RestorePlan, RestoredKeys
      <3>4. \A pc \in {"checkConfig", "checkFinal"} :
              (pc = "checkFinal" => ~RestoreWrites(o.cfg, o.plan))
                => OperationCustody([o EXCEPT !.pc = pc])'
        BY <1>2, <2>1, <2>4, <3>1, <3>3
          DEF OperationCustody, RestoreCustody, Applies, Operation, Planned
      <3>5. QED
        BY <2>1, <2>2, <2>4, <3>4, GotoCustody
    <2>5. QED
      BY <2>3, <2>4
  <1>7. CASE SaveFinal(t)
    <2>1. /\ o.pc = "saveFinal" /\ UNCHANGED <<config, edited>> /\ Complete(t)
          /\ receipt' = IF Applies(o) THEN [o.plan EXCEPT !.phase = "active"] ELSE o.plan
      BY <1>0, <1>7 DEF SaveFinal, At
    <2>2. DiskCustody'
      <3>1. CASE Applies(o)
        <4>1. receipt = o.plan /\ Installed(receipt)
          BY <1>1, <1>3, <2>1, <3>1 DEF OperationCustody, ApplyCustody, Installed
        <4>2. receipt'.orig = receipt.orig /\ receipt'.hash = receipt.hash
          BY <1>3, <2>1, <3>1, <4>1 DEF Receipt
        <4>3. receipt' \in Receipt /\ receipt'.phase = "active"
          BY <1>3, <2>1, <3>1 DEF Receipt, Phases
        <4>4. Installed(receipt')
          BY <4>3, CodexAssumption DEF Installed
        <4>5. QED
          BY <1>1, <2>1, <4>1, <4>2, <4>4 DEF DiskCustody, Sound, Displaceable
      <3>2. CASE ~Applies(o)
        <4>1. ~Installed(o.plan)
          BY <1>1, <1>2, <3>2, RestorePlan
        <4>2. Keys(config) \notin Urls
          BY <1>1, <2>1, <3>2 DEF OperationCustody, RestoreCustody
        <4>3. QED
          BY <2>1, <3>2, <4>1, <4>2 DEF DiskCustody
      <3>3. QED
        BY <3>1, <3>2
    <2>3. QED
      BY <2>1, <2>2, EndCustody DEF Complete
  <1>8. QED
    BY <1>4, <1>5, <1>6, <1>7

LEMMA EnvironmentCustody ==
  ASSUME OneAtATime, TypeOK, Custody, Start \/ Crash \/ Edit \/ Regenerate
  PROVE  Custody'
  <1>1. CASE Start
    <2>1. DiskCustody'
      BY <1>1, SameDisk DEF Start, Custody
    <2>2. CASE active_integration(config, receipt)
      <3> DEFINE o == [IdleOp EXCEPT !.kind = "listener"]
      <3>1. Goto(Boot, o, "inspectConfig") /\ Boot \in Ops
        BY <1>1, <2>2, CodexAssumption DEF Start
      <3>2. OperationCustody([o EXCEPT !.pc = "inspectConfig"])'
        BY DEF OperationCustody, ApplyCustody, Applies, IdleOp, Preparing, Installing
      <3>3. QED
        BY <2>1, <3>1, <3>2, GotoCustody
    <2>3. CASE ~active_integration(config, receipt)
      <3>1. UNCHANGED <<op, config, receipt>>
        BY <1>1, <2>3 DEF Start, files
      <3>2. QED
        BY <2>1, <3>1 DEF Custody, OperationCustody, ApplyCustody, RestoreCustody
    <2>4. QED
      BY <2>2, <2>3
  <1>2. CASE Crash
    <2>1. DiskCustody'
      BY <1>2, SameDisk DEF Crash, Custody
    <2>2. \A t \in Ops : op'[t] = IdleOp
      BY <1>2 DEF Crash
    <2>3. QED
      BY <2>1, <2>2, IdleCustody DEF Custody
  <1>3. CASE Edit
    <2>1. /\ UNCHANGED <<receipt, op>>
          /\ Keys(config') \in UserValues \cup {Keys(config)}
          /\ edited' = (edited \/ Keys(config') # Keys(config))
      BY <1>3 DEF Edit
    <2>2. Keys(config') \in Urls => Keys(config') = Keys(config)
      BY <2>1, DisjointKeys
    <2>3. DiskCustody'
      BY <2>1, <2>2 DEF Custody, DiskCustody, Displaceable
    <2>4. ASSUME NEW t \in Ops
          PROVE  OperationCustody(op[t])'
      BY <2>1, <2>2 DEF Custody, OperationCustody, ApplyCustody, RestoreCustody
    <2>5. QED
      BY <2>3, <2>4 DEF Custody
  <1>4. CASE Regenerate
    <2>1. UNCHANGED <<config, receipt, op, edited>>
      BY <1>4 DEF Regenerate
    <2>2. DiskCustody'
      BY <2>1 DEF Custody, DiskCustody, Displaceable
    <2>3. QED
      BY <2>1, <2>2 DEF Custody, OperationCustody, ApplyCustody, RestoreCustody
  <1>5. QED
    BY <1>1, <1>2, <1>3, <1>4

LEMMA CustodyStep ==
  ASSUME OneAtATime, TypeOK, Custody, [Next]_vars
  PROVE  Custody'
  <1>1. CASE UNCHANGED vars
    BY <1>1 DEF vars, files, Custody, DiskCustody, Displaceable, OperationCustody, ApplyCustody,
      RestoreCustody
  <1>2. ASSUME NEW t \in Ops, Step(t)
        PROVE  Custody'
    BY <1>2, ReadCustody, PlanCustody, CheckCustody, WriteCustody DEF Step
  <1>3. QED
    BY <1>1, <1>2, EnvironmentCustody DEF Next

LEMMA CustodyInit ==
  ASSUME Init
  PROVE  Custody
  <1>1. DiskCustody
    BY DisjointKeys DEF Init, DiskCustody, Installed
  <1>2. \A t \in Ops : op[t] = IdleOp
    BY DEF Init
  <1>3. OperationCustody(IdleOp)
    BY DEF OperationCustody, ApplyCustody, Applies, IdleOp, Preparing, Installing
  <1>4. QED
    BY <1>1, <1>2, <1>3 DEF Custody

(***************************************************************************)
(* Safety of the integration while operations do not overlap.               *)
(***************************************************************************)
\* As long as operations do not overlap, the receipt is in safe hands at every step.
THEOREM CustodyHolds ==
  ASSUME OneAtATime
  PROVE  Spec => []Custody
  <1>1. TypeOK /\ Custody /\ [Next]_vars => Custody'
    BY CustodyStep
  <1>2. QED
    BY <1>1, CustodyInit, TypeCorrect, PTL DEF Spec

\* As long as operations do not overlap, a provider-x URL in the configuration is
\* always covered by a receipt that holds a value of the user.
THEOREM RecoveryDataIsKept ==
  ASSUME OneAtATime
  PROVE  Spec => []RecoveryDataKept
  <1>1. Custody => RecoveryDataKept
    BY DEF Custody, DiskCustody, Sound, RecoveryDataKept
  <1>2. QED
    BY <1>1, CustodyHolds, PTL

\* Only the two saves of an operation write the receipt.
LEMMA ReceiptWriters ==
  ASSUME [Next]_vars, receipt' # receipt
  PROVE  \E t \in Ops : RenamePrepared(t) \/ SaveFinal(t)
  BY DEF Next, Step, vars, files, Request, InspectConfig, InspectReceipt, ReadConfig, ReadCache,
    ApplyReadReceipt, RestoreReadReceipt, CheckPrepared, ReadBack, CheckConfig, ReplaceConfig,
    CheckCache, RemoveCache, CheckFinal, IoFail, Start, Crash, Edit, Regenerate

\* Only the rename of an operation and the editor write the configuration.
LEMMA ConfigWriters ==
  ASSUME [Next]_vars, config' # config
  PROVE  (\E t \in Ops : ReplaceConfig(t)) \/ Edit
  BY DEF Next, Step, vars, files, Request, InspectConfig, InspectReceipt, ReadConfig, ReadCache,
    ApplyReadReceipt, RestoreReadReceipt, CheckPrepared, RenamePrepared, ReadBack, CheckConfig,
    CheckCache, RemoveCache, CheckFinal, SaveFinal, IoFail, Start, Crash, Regenerate

\* What the two saves make of the receipt.
LEMMA SaveEffect ==
  ASSUME TypeOK, Custody, NEW t \in Ops, RenamePrepared(t) \/ SaveFinal(t)
  PROVE  \/ /\ RenamePrepared(t)
            /\ Installed(receipt') /\ receipt'.phase = "prepared"
            /\ Keys(receipt'.orig) \in UserValues
            /\ Installed(receipt) =>
                 receipt'.orig = receipt.orig /\ receipt'.backup = receipt.backup
         \/ /\ SaveFinal(t) /\ Installed(receipt) /\ Installed(receipt')
            /\ receipt'.orig = receipt.orig /\ receipt'.backup = receipt.backup
         \/ /\ SaveFinal(t) /\ Installed(receipt) /\ ~Installed(receipt')
            /\ Keys(config) \notin Urls
  <1>0. PICK o \in Operation : o = op[t]
    BY DEF TypeOK, ProcessOK
  <1>1. OperationCustody(o)
    BY <1>0 DEF Custody
  <1>2. Planned(o) /\ o.plan \in Receipt /\ o.plan # None
    <2>1. Planned(o)
      BY <1>0 DEF RenamePrepared, SaveFinal, At, Planned, Windows
    <2>2. QED
      BY <2>1 DEF Operation, Receipts
  <1> USE DEF Preparing, Installing
  <1>3. CASE RenamePrepared(t)
    <2>1. o.pc = "renamePrepared" /\ receipt' = o.plan
      BY <1>0, <1>3 DEF RenamePrepared, At
    <2>2. ApplyCustody(o)
      BY <1>1, <2>1 DEF OperationCustody, RestoreCustody
    <2>3. QED
      BY <1>2, <1>3, <2>1, <2>2 DEF ApplyCustody, Sound, Installed
  <1>4. CASE SaveFinal(t)
    <2>1. /\ o.pc = "saveFinal"
          /\ receipt' = IF Applies(o) THEN [o.plan EXCEPT !.phase = "active"] ELSE o.plan
      BY <1>0, <1>4 DEF SaveFinal, At
    <2>2. CASE Applies(o)
      <3>1. receipt = o.plan /\ Installed(receipt)
        BY <1>1, <1>2, <2>1, <2>2 DEF OperationCustody, ApplyCustody, Installed
      <3>2. /\ receipt' \in Receipt /\ receipt'.phase = "active"
            /\ receipt'.orig = receipt.orig /\ receipt'.backup = receipt.backup
        BY <1>2, <2>1, <2>2, <3>1 DEF Receipt, Phases
      <3>3. QED
        BY <1>4, <3>1, <3>2, CodexAssumption DEF Installed
    <2>3. CASE ~Applies(o)
      <3>1. Installed(receipt) /\ ~Installed(receipt')
        BY <1>1, <1>2, <2>1, <2>3, RestorePlan
      <3>2. Keys(config) \notin Urls
        BY <1>1, <2>1, <2>3 DEF OperationCustody, RestoreCustody
      <3>3. QED
        BY <1>4, <3>1, <3>2
    <2>4. QED
      BY <2>2, <2>3
  <1>5. QED
    BY <1>3, <1>4

\* As long as operations do not overlap, no reconciliation replaces the backup.
THEOREM BackupIsNotRebased ==
  ASSUME OneAtATime
  PROVE  Spec => BackupNotRebased
  <1>1. TypeOK /\ Custody /\ [Next]_vars =>
          [Installed(receipt) /\ Installed(receipt')
             => receipt'.orig = receipt.orig /\ receipt'.backup = receipt.backup]_vars
    BY ReceiptWriters, SaveEffect DEF Installed
  <1>2. QED
    BY <1>1, CustodyHolds, TypeCorrect, PTL DEF Spec, BackupNotRebased

\* As long as operations do not overlap, a restore that completes has given the
\* user back the original values, or somebody else has chosen others.
THEOREM RestoreReturnsTheOriginal ==
  ASSUME OneAtATime
  PROVE  Spec => RestoreReturnsOriginal
  <1>1. TypeOK /\ Custody /\ [Next]_vars =>
          [Installed(receipt) /\ receipt' # receipt /\ ~Installed(receipt')
             => edited \/ Keys(config) = Keys(receipt.orig)]_vars
    <2>1. SUFFICES ASSUME TypeOK, Custody, [Next]_vars,
                          Installed(receipt), receipt' # receipt, ~Installed(receipt')
                   PROVE  edited \/ Keys(config) = Keys(receipt.orig)
      OBVIOUS
    <2>2. Keys(config) \notin Urls
      BY <2>1, ReceiptWriters, SaveEffect
    <2>3. QED
      BY <2>1, <2>2 DEF Custody, DiskCustody, Displaceable
  <1>2. QED
    BY <1>1, CustodyHolds, TypeCorrect, PTL DEF Spec, RestoreReturnsOriginal

(***************************************************************************)
(* The integration implements ManagedKeys.                                  *)
(***************************************************************************)
\* An operation reaches its rename only through the comparison of the hash.
LEMMA EnterReplace ==
  ASSUME TypeOK, NEW t \in Ops, Step(t), op'[t].pc = "replaceConfig"
  PROVE  /\ CheckConfig(t)
         /\ config = op[t].cfg
         /\ op'[t] = [op[t] EXCEPT !.pc = "replaceConfig"]
  <1>0. op \in [Ops -> Operation] /\ IdleOp.pc = "idle"
    BY DEF TypeOK, ProcessOK, IdleOp
  <1>1. ASSUME NEW o, NEW pc, "pc" \in DOMAIN o, Goto(t, o, pc)
        PROVE  op'[t] = [o EXCEPT !.pc = pc] /\ op'[t].pc = pc
    BY <1>0, <1>1 DEF Goto
  <1>2. op[t] \in Operation /\ "pc" \in DOMAIN op[t]
    BY <1>0 DEF Operation
  <1>3. Abandon(t) \/ Complete(t) => op'[t].pc = "idle"
    BY <1>0 DEF Abandon, Complete
  <1>4. ASSUME NEW guard, NEW o, NEW pc, "pc" \in DOMAIN o, Require(t, guard, o, pc),
               pc # "replaceConfig"
        PROVE  FALSE
    BY <1>1, <1>3, <1>4 DEF Require
  <1>5. ~\E kind \in Kinds : Request(t, kind)
    <2>1. SUFFICES ASSUME NEW kind \in Kinds, Request(t, kind) PROVE FALSE
      OBVIOUS
    <2>2. kind \in {"reconcile", "trayDisable", "enable", "disable"}
      BY <2>1, CodexAssumption DEF Request, Kinds
    <2>3. "pc" \in DOMAIN [IdleOp EXCEPT !.kind = kind]
      BY DEF IdleOp
    <2>4. QED
      BY <1>1, <2>1, <2>2, <2>3 DEF Request
  <1>6. ~InspectConfig(t)
    <2>1. PICK o : o = [op[t] EXCEPT !.cfg = config]
      OBVIOUS
    <2>2. "pc" \in DOMAIN o
      BY <1>2, <2>1
    <2>3. QED
      BY <1>1, <2>1, <2>2 DEF InspectConfig
  <1>7. ~InspectReceipt(t)
    <2>1. PICK o : o = [op[t] EXCEPT !.cfg = None]
      OBVIOUS
    <2>2. "pc" \in DOMAIN o
      BY <1>2, <2>1
    <2>3. QED
      BY <1>1, <1>3, <2>1, <2>2 DEF InspectReceipt
  <1>8. ~ReadConfig(t)
    BY <1>2, <1>4 DEF ReadConfig
  <1>9. ~ReadCache(t)
    <2>1. PICK o : o = [op[t] EXCEPT !.cache = cache]
      OBVIOUS
    <2>2. "pc" \in DOMAIN o
      BY <1>2, <2>1
    <2>3. QED
      BY <1>1, <2>1, <2>2 DEF ReadCache
  <1>10. ~ApplyReadReceipt(t)
    BY <1>2, <1>4 DEF ApplyReadReceipt
  <1>11. ~RestoreReadReceipt(t)
    <2>1. PICK o : o = [op[t] EXCEPT !.held = receipt, !.plan = [receipt EXCEPT !.phase = "restored", !.hash = None]]
      OBVIOUS
    <2>2. "pc" \in DOMAIN o
      BY <1>2, <2>1
    <2>3. QED
      BY <1>3, <1>4, <2>1, <2>2 DEF RestoreReadReceipt
  <1>12. ~CheckPrepared(t) /\ ~CheckCache(t) /\ ~CheckFinal(t)
    BY <1>2, <1>4 DEF CheckPrepared, CheckCache, CheckFinal
  <1>13. ~RenamePrepared(t) /\ ~ReplaceConfig(t) /\ ~RemoveCache(t)
    BY <1>1, <1>2 DEF RenamePrepared, ReplaceConfig, RemoveCache
  <1>14. ~ReadBack(t)
    <2>1. PICK o : o = [op[t] EXCEPT !.held = receipt]
      OBVIOUS
    <2>2. "pc" \in DOMAIN o
      BY <1>2, <2>1
    <2>3. QED
      BY <1>1, <2>1, <2>2 DEF ReadBack
  <1>15. ~SaveFinal(t) /\ ~IoFail(t)
    BY <1>3 DEF SaveFinal, IoFail
  <1>16. CheckConfig(t)
    BY <1>5, <1>6, <1>7, <1>8, <1>9, <1>10, <1>11, <1>12, <1>13, <1>14, <1>15 DEF Step
  <1>17. QED
    BY <1>1, <1>2, <1>3, <1>16 DEF CheckConfig, Require

LEMMA UnracedStep ==
  ASSUME OneAtATime, "editor" \notin Racers, TypeOK, Unraced, [Next]_vars
  PROVE  Unraced'
  <1>1. CASE UNCHANGED vars
    BY <1>1 DEF Unraced, vars, files
  <1>2. ASSUME NEW t \in Ops, Step(t)
        PROVE  Unraced'
    <2>1. SUFFICES ASSUME op'[t].pc = "replaceConfig"
                   PROVE  config' = op'[t].cfg
      BY DEF Unraced, OneAtATime
    <2>2. CheckConfig(t) /\ config = op[t].cfg /\ op'[t] = [op[t] EXCEPT !.pc = "replaceConfig"]
      BY <1>2, <2>1, EnterReplace
    <2>3. op[t] \in Operation /\ config' = config
      BY <2>2 DEF TypeOK, ProcessOK, CheckConfig, files
    <2>4. QED
      BY <2>2, <2>3 DEF Operation
  <1>3. CASE Start
    <2>1. CASE UNCHANGED op
      BY <1>3, <2>1 DEF Start, Unraced, files
    <2>2. CASE Goto(Boot, [IdleOp EXCEPT !.kind = "listener"], "inspectConfig")
      <3>1. \A t \in Ops : t = Boot
        BY CodexAssumption DEF OneAtATime
      <3>2. op'[Boot].pc = "inspectConfig"
        BY <2>2, CodexAssumption DEF Goto, TypeOK, ProcessOK, IdleOp
      <3>3. QED
        BY <3>1, <3>2 DEF Unraced
    <2>3. QED
      BY <1>3, <2>1, <2>2 DEF Start
  <1>4. CASE Crash
    BY <1>4 DEF Crash, Unraced, IdleOp
  <1>5. CASE Edit
    BY <1>5 DEF Edit, Unraced, InWindow, Windows
  <1>6. CASE Regenerate
    BY <1>6 DEF Regenerate, Unraced
  <1>7. QED
    BY <1>1, <1>2, <1>3, <1>4, <1>5, <1>6 DEF Next

\* What a rename of the configuration does to the managed keys.
LEMMA ReplaceEffect ==
  ASSUME OneAtATime, TypeOK, Custody, Unraced, NEW t \in Ops, ReplaceConfig(t)
  PROVE  /\ Installed(receipt) /\ UNCHANGED receipt
         /\ Keys(config) \in Urls \cup {Keys(receipt.orig)}
         /\ Keys(config') \in Urls \/ Keys(config') = Keys(receipt.orig)
  <1>0. PICK o \in Operation : o = op[t]
    BY DEF TypeOK, ProcessOK
  <1>1. /\ o.pc = "replaceConfig" /\ config = o.cfg /\ receipt' = receipt
        /\ config' = IF Applies(o) THEN o.plan.hash ELSE RestoreTarget(o.cfg, o.plan)
    BY <1>0 DEF ReplaceConfig, At, Unraced
  <1>2. Planned(o) /\ OperationCustody(o)
    BY <1>0, <1>1 DEF Custody, Planned, Windows
  <1>3. o.plan \in Receipt /\ o.plan # None /\ o.cfg \in Files
    BY <1>2 DEF Operation, Receipts
  <1>4. CASE Applies(o)
    BY <1>1, <1>2, <1>3, <1>4 DEF OperationCustody, ApplyCustody, Installing, Installed,
      Displaceable, Sound
  <1>5. CASE ~Applies(o)
    <2>1. Displaceable(o.cfg, receipt)
      BY <1>1, <1>2, <1>5 DEF OperationCustody, RestoreCustody
    <2>2. QED
      BY <1>1, <1>2, <1>3, <1>5, <2>1, RestorePlan, TargetKeys DEF Displaceable
  <1>6. QED
    BY <1>4, <1>5

\* When operations do not overlap and nobody edits the configuration between a hash
\* check and its rename, every step of apply and restore is a step of ManagedKeys.
THEOREM ImplementsManagedKeys ==
  ASSUME OneAtATime, "editor" \notin Racers
  PROVE  Spec => KeepsManagedKeys
  <1> DEFINE backup == IF Installed(receipt) THEN Keys(receipt.orig) ELSE None
  <1>1. Init => Abstract!Init
    BY DEF Init, Abstract!Init, Installed
  <1>2. TypeOK /\ Custody /\ Unraced /\ [Next]_vars
          => [Abstract!Next]_<<Keys(config), backup>>
    <2>1. SUFFICES ASSUME TypeOK, Custody, Unraced, [Next]_vars
                   PROVE  Abstract!Next \/ UNCHANGED <<Keys(config), backup>>
      OBVIOUS
    <2>2. Installed(receipt) => Keys(receipt.orig) \in UserValues /\ Keys(receipt.orig) # None
      <3>1. \A v \in UserValues : v # None
        BY CodexAssumption DEF Managed
      <3>2. QED
        BY <2>1, <3>1 DEF Custody, DiskCustody, Sound
    <2>3. CASE config' # config
      <3>1. CASE Edit
        <4>1. Keys(config') \in UserValues \/ Keys(config') = Keys(config)
          BY <3>1 DEF Edit
        <4>2. UNCHANGED backup
          BY <3>1 DEF Edit
        <4>3. QED
          BY <4>1, <4>2 DEF Abstract!Next, Abstract!UserEdit
      <3>2. ASSUME NEW t \in Ops, ReplaceConfig(t)
            PROVE  Abstract!Next
        <4>1. /\ Installed(receipt) /\ UNCHANGED receipt
              /\ Keys(config) \in Urls \cup {Keys(receipt.orig)}
              /\ Keys(config') \in Urls \/ Keys(config') = Keys(receipt.orig)
          BY <2>1, <3>2, ReplaceEffect
        <4>2. QED
          BY <2>2, <4>1 DEF Abstract!Next, Abstract!Install, Abstract!GiveBack
      <3>3. QED
        BY <2>1, <2>3, <3>1, <3>2, ConfigWriters
    <2>4. CASE config' = config /\ receipt' # receipt
      <3>1. PICK t \in Ops : RenamePrepared(t) \/ SaveFinal(t)
        BY <2>1, <2>4, ReceiptWriters
      <3>2. CASE Installed(receipt')
        <4>1. /\ Keys(receipt'.orig) \in UserValues
              /\ Installed(receipt) => receipt'.orig = receipt.orig
          BY <2>1, <2>2, <3>1, <3>2, SaveEffect
        <4>2. QED
          BY <2>4, <3>2, <4>1 DEF Abstract!Next, Abstract!TakeBackup
      <3>3. CASE ~Installed(receipt')
        <4>1. Keys(config) \in UserValues
          <5>1. Keys(config) \notin Urls
            BY <2>1, <3>1, <3>3, SaveEffect
          <5>2. QED
            BY <2>1, <5>1, FileParts DEF TypeOK, Managed
        <4>2. QED
          BY <2>4, <3>3, <4>1 DEF Abstract!Next, Abstract!Forget
      <3>4. QED
        BY <3>2, <3>3
    <2>5. CASE config' = config /\ receipt' = receipt
      BY <2>5
    <2>6. QED
      BY <2>3, <2>4, <2>5
  <1>3. Init => Unraced
    BY DEF Init, Unraced, IdleOp
  <1>4. TypeOK /\ Unraced /\ [Next]_vars => Unraced'
    BY UnracedStep
  <1>5. QED
    BY <1>1, <1>2, <1>3, <1>4, CustodyHolds, TypeCorrect, PTL
      DEF Spec, KeepsManagedKeys, Abstract!Spec

(***************************************************************************)
(* The user's part of the configuration, however operations overlap.        *)
(***************************************************************************)
BodiesPlanned == \A t \in Ops : BodyPlanned(op[t])

LEMMA GotoBody ==
  ASSUME TypeOK, BodiesPlanned, NEW t \in Ops, NEW o, NEW pc, Goto(t, o, pc),
         BodyPlanned([o EXCEPT !.pc = pc])
  PROVE  BodiesPlanned'
  <1> DEFINE next == [o EXCEPT !.pc = pc]
  <1>1. op' = [op EXCEPT ![t] = next] /\ BodyPlanned(next)
    BY DEF Goto
  <1> HIDE DEF next
  <1>2. QED
    BY <1>1 DEF BodiesPlanned, TypeOK, ProcessOK

LEMMA EndBody ==
  ASSUME TypeOK, BodiesPlanned, NEW t \in Ops, Abandon(t) \/ Complete(t)
  PROVE  BodiesPlanned'
  <1>1. BodyPlanned(IdleOp)
    BY DEF BodyPlanned, IdleOp, Preparing, Installing
  <1>2. op' = [op EXCEPT ![t] = IdleOp]
    BY DEF Abandon, Complete
  <1>3. QED
    BY <1>1, <1>2 DEF BodiesPlanned, TypeOK, ProcessOK

LEMMA RequireBody ==
  ASSUME TypeOK, BodiesPlanned, NEW t \in Ops, NEW guard, NEW o, NEW pc,
         Require(t, guard, o, pc), BodyPlanned([o EXCEPT !.pc = pc])
  PROVE  BodiesPlanned'
  BY GotoBody, EndBody DEF Require

LEMMA BodyStep ==
  ASSUME TypeOK, BodiesPlanned, NEW t \in Ops, Step(t)
  PROVE  BodiesPlanned'
  <1>0. PICK o \in Operation : o = op[t]
    BY DEF TypeOK, ProcessOK
  <1>1. BodyPlanned(o)
    BY <1>0 DEF BodiesPlanned
  <1> USE DEF Preparing, Installing
  <1>2. \A pc : o.pc \in Preparing \cup Installing => BodyPlanned([o EXCEPT !.pc = pc])
    BY <1>1 DEF BodyPlanned, Operation, Applies
  <1>3. ASSUME NEW next, NEW pc, Applies(next) => pc \notin Preparing \cup Installing,
               "pc" \in DOMAIN next, "kind" \in DOMAIN next
        PROVE  BodyPlanned([next EXCEPT !.pc = pc])
    BY <1>3 DEF BodyPlanned, Applies
  <1>4. ASSUME NEW kind \in Kinds, Request(t, kind)
        PROVE  BodiesPlanned'
    <2>1. PICK next : next = [IdleOp EXCEPT !.kind = kind]
      OBVIOUS
    <2>2. "pc" \in DOMAIN next /\ "kind" \in DOMAIN next
      BY <2>1 DEF IdleOp
    <2>3. PICK pc \in {"inspectConfig", "readConfig", "readReceipt"} : Goto(t, next, pc)
      <3>1. kind \in {"reconcile", "trayDisable", "enable", "disable"}
        BY <1>4, CodexAssumption DEF Request, Kinds
      <3>2. QED
        BY <1>4, <2>1, <3>1 DEF Request
    <2>4. QED
      BY <1>3, <2>2, <2>3, GotoBody
  <1>5. CASE InspectConfig(t)
    <2>1. PICK next : next = [o EXCEPT !.cfg = config]
      OBVIOUS
    <2>2. "pc" \in DOMAIN next /\ "kind" \in DOMAIN next
      BY <2>1 DEF Operation
    <2>3. QED
      BY <1>0, <1>3, <1>5, <2>1, <2>2, GotoBody DEF InspectConfig
  <1>6. CASE InspectReceipt(t)
    <2>1. PICK next : next = [o EXCEPT !.cfg = None]
      OBVIOUS
    <2>2. "pc" \in DOMAIN next /\ "kind" \in DOMAIN next
      BY <2>1 DEF Operation
    <2>3. QED
      BY <1>0, <1>3, <1>6, <2>1, <2>2, GotoBody, EndBody DEF InspectReceipt
  <1>7. CASE ReadConfig(t)
    <2>1. PICK next : next = [o EXCEPT !.cfg = config]
      OBVIOUS
    <2>2. "pc" \in DOMAIN next /\ "kind" \in DOMAIN next
      BY <2>1 DEF Operation
    <2>3. BodyPlanned([next EXCEPT !.pc = "readCache"])
      BY <1>3, <2>2
    <2>4. QED
      BY <1>0, <1>7, <2>1, <2>3, RequireBody DEF ReadConfig
  <1>8. CASE ReadCache(t)
    <2>1. PICK next : next = [o EXCEPT !.cache = cache]
      OBVIOUS
    <2>2. "pc" \in DOMAIN next /\ "kind" \in DOMAIN next /\ (Applies(next) <=> Applies(o))
      BY <2>1 DEF Operation, Applies
    <2>3. PICK pc : Goto(t, next, pc) /\ (Applies(next) => pc = "readReceipt")
      BY <1>0, <1>8, <2>1, <2>2 DEF ReadCache
    <2>4. QED
      BY <1>3, <2>2, <2>3, GotoBody
  <1>9. CASE ApplyReadReceipt(t)
    <2>1. PICK plan : plan = Prepared(o.cfg, o.cache, receipt, url)
      OBVIOUS
    <2>2. PICK next : next = [o EXCEPT !.held = receipt, !.plan = plan]
      OBVIOUS
    <2>3. plan.hash # None /\ Body(plan.hash) = Body(o.cfg)
      <3>1. url \in Urls
        BY <1>9 DEF ApplyReadReceipt, At, TypeOK, ProcessOK
      <3>2. [m |-> url, u |-> Body(o.cfg)] \in File
        BY <3>1, FileParts DEF File, Managed, Operation
      <3>3. QED
        BY <2>1, <3>2, CodexAssumption DEF Prepared, Body, AsFile
    <2>4. BodyPlanned([next EXCEPT !.pc = "checkPrepared"])
      BY <2>2, <2>3 DEF BodyPlanned, Operation
    <2>5. QED
      BY <1>0, <1>9, <2>1, <2>2, <2>4, RequireBody DEF ApplyReadReceipt
  <1>10. CASE RestoreReadReceipt(t)
    <2>1. PICK next : next = [o EXCEPT !.held = receipt,
                                !.plan = [receipt EXCEPT !.phase = "restored", !.hash = None]]
      OBVIOUS
    <2>2. "pc" \in DOMAIN next /\ "kind" \in DOMAIN next
      BY <2>1 DEF Operation
    <2>3. BodyPlanned([next EXCEPT !.pc = "readConfig"])
      BY <1>3, <2>2
    <2>4. QED
      BY <1>0, <1>10, <2>1, <2>3, RequireBody, EndBody DEF RestoreReadReceipt
  <1>11. CASE CheckPrepared(t) \/ CheckConfig(t) \/ CheckCache(t) \/ CheckFinal(t)
    <2>1. o.pc \in Preparing \cup Installing
      BY <1>0, <1>11 DEF CheckPrepared, CheckConfig, CheckCache, CheckFinal, At
    <2>2. \E guard, pc : Require(t, guard, o, pc)
      BY <1>0, <1>11 DEF CheckPrepared, CheckConfig, CheckCache, CheckFinal
    <2>3. QED
      BY <1>2, <2>1, <2>2, RequireBody
  <1>12. CASE RenamePrepared(t) \/ ReplaceConfig(t) \/ RemoveCache(t)
    <2>1. o.pc \in Preparing \cup Installing
      BY <1>0, <1>12 DEF RenamePrepared, ReplaceConfig, RemoveCache, At
    <2>2. \E pc : Goto(t, o, pc)
      BY <1>0, <1>12 DEF RenamePrepared, ReplaceConfig, RemoveCache
    <2>3. QED
      BY <1>2, <2>1, <2>2, GotoBody
  <1>13. CASE ReadBack(t)
    <2>1. PICK next : next = [o EXCEPT !.held = receipt]
      OBVIOUS
    <2>2. BodyPlanned([next EXCEPT !.pc = "checkConfig"])
      BY <1>0, <1>1, <1>13, <2>1 DEF BodyPlanned, Operation, Applies, ReadBack, At
    <2>3. QED
      BY <1>0, <1>13, <2>1, <2>2, GotoBody DEF ReadBack
  <1>14. CASE SaveFinal(t) \/ IoFail(t)
    BY <1>14, EndBody DEF SaveFinal, IoFail
  <1>15. QED
    BY <1>4, <1>5, <1>6, <1>7, <1>8, <1>9, <1>10, <1>11, <1>12, <1>13, <1>14 DEF Step

\* A rename writes back the body that it finds.
LEMMA ReplaceBody ==
  ASSUME TypeOK, BodyCustody, NEW t \in Ops, ReplaceConfig(t)
  PROVE  Body(config') = Body(config)
  <1>0. PICK o \in Operation : o = op[t]
    BY DEF TypeOK, ProcessOK
  <1>1. /\ o.pc = "replaceConfig" /\ Body(o.cfg) = Body(config) /\ BodyPlanned(o)
        /\ config' = IF Applies(o) THEN o.plan.hash ELSE RestoreTarget(o.cfg, o.plan)
    BY <1>0 DEF ReplaceConfig, At, BodyCustody
  <1>2. CASE Applies(o)
    BY <1>1, <1>2 DEF BodyPlanned, Installing
  <1>3. CASE ~Applies(o)
    <2>1. o.plan \in Receipt /\ o.cfg \in Files
      BY <1>1 DEF Operation, Planned, Windows, Receipts
    <2>2. Restored(o.cfg, o.plan) \in File /\ Restored(o.cfg, o.plan).u = Body(o.cfg)
      BY <2>1, FileParts DEF Restored, File, Receipt
    <2>3. Body(RestoreTarget(o.cfg, o.plan)) = Body(o.cfg)
      BY <2>2, CodexAssumption DEF RestoreTarget, Body, AsFile
    <2>4. QED
      BY <1>1, <1>3, <2>3
  <1>4. QED
    BY <1>2, <1>3

LEMMA BodyCustodyStep ==
  ASSUME "editor" \notin Racers, TypeOK, BodyCustody, [Next]_vars
  PROVE  BodyCustody'
  <1>0. BodiesPlanned
    BY DEF BodyCustody, BodiesPlanned
  <1>1. CASE UNCHANGED vars
    BY <1>1 DEF BodyCustody, vars, files
  <1>2. ASSUME NEW t \in Ops, Step(t)
        PROVE  BodyCustody'
    <2>1. BodiesPlanned'
      BY <1>0, <1>2, BodyStep
    <2>2. Body(config') = Body(config)
      <3>1. ReplaceConfig(t) \/ config' = config
        BY <1>2 DEF Step, Request, InspectConfig, InspectReceipt, ReadConfig, ReadCache,
          ApplyReadReceipt, RestoreReadReceipt, CheckPrepared, RenamePrepared, ReadBack,
          CheckConfig, CheckCache, RemoveCache, CheckFinal, SaveFinal, IoFail, files
      <3>2. QED
        BY <3>1, ReplaceBody
    <2>3. ASSUME NEW s \in Ops, op'[s].pc = "replaceConfig"
          PROVE  Body(op'[s].cfg) = Body(config')
      <3>1. CASE s = t
        <4>1. config = op[t].cfg /\ op'[t] = [op[t] EXCEPT !.pc = "replaceConfig"]
          BY <1>2, <2>3, <3>1, EnterReplace
        <4>2. op[t] \in Operation
          BY DEF TypeOK, ProcessOK
        <4>3. QED
          BY <2>2, <3>1, <4>1, <4>2 DEF Operation
      <3>2. CASE s # t
        <4>1. op'[s] = op[s]
          BY <1>2, <3>2 DEF TypeOK, ProcessOK, Step, Request, InspectConfig, InspectReceipt,
            ReadConfig, ReadCache, ApplyReadReceipt, RestoreReadReceipt, CheckPrepared,
            RenamePrepared, ReadBack, CheckConfig, ReplaceConfig, CheckCache, RemoveCache,
            CheckFinal, SaveFinal, IoFail, Goto, Require, Abandon, Complete
        <4>2. QED
          BY <2>2, <2>3, <4>1 DEF BodyCustody
      <3>3. QED
        BY <3>1, <3>2
    <2>4. QED
      BY <2>1, <2>3 DEF BodyCustody, BodiesPlanned
  <1>3. CASE Start
    <2>1. \A t \in Ops : op'[t] = op[t] \/ (op'[t].pc = "inspectConfig" /\ BodyPlanned(op'[t]))
      <3>1. CASE UNCHANGED op
        BY <3>1
      <3>2. CASE Goto(Boot, [IdleOp EXCEPT !.kind = "listener"], "inspectConfig")
        <4>1. PICK next : next = [[IdleOp EXCEPT !.kind = "listener"] EXCEPT !.pc = "inspectConfig"]
          OBVIOUS
        <4>2. next.pc = "inspectConfig" /\ BodyPlanned(next)
          BY <4>1 DEF IdleOp, BodyPlanned, Preparing, Installing
        <4>3. op' = [op EXCEPT ![Boot] = next]
          BY <3>2, <4>1 DEF Goto
        <4>4. QED
          BY <4>2, <4>3 DEF TypeOK, ProcessOK
      <3>3. QED
        BY <1>3, <3>1, <3>2 DEF Start
    <2>2. QED
      BY <1>3, <2>1 DEF BodyCustody, Start, files
  <1>4. CASE Crash
    <2>1. BodyPlanned(IdleOp) /\ IdleOp.pc = "idle"
      BY DEF IdleOp, BodyPlanned, Preparing, Installing
    <2>2. \A t \in Ops : op'[t] = IdleOp
      BY <1>4 DEF Crash
    <2>3. QED
      BY <2>1, <2>2 DEF BodyCustody
  <1>5. CASE Edit
    BY <1>5 DEF Edit, BodyCustody, InWindow, Windows
  <1>6. CASE Regenerate
    BY <1>6 DEF Regenerate, BodyCustody
  <1>7. QED
    BY <1>1, <1>2, <1>3, <1>4, <1>5, <1>6 DEF Next

\* However operations overlap, the body that an operation is about to write is that of the
\* configuration it replaces, if nobody edits it between a hash check and its rename.
THEOREM BodyIsInCustody ==
  ASSUME "editor" \notin Racers
  PROVE  Spec => []BodyCustody
  <1>1. Init => BodyCustody
    BY DEF Init, BodyCustody, BodyPlanned, IdleOp, Preparing, Installing
  <1>2. TypeOK /\ BodyCustody /\ [Next]_vars => BodyCustody'
    BY BodyCustodyStep
  <1>3. QED
    BY <1>1, <1>2, TypeCorrect, PTL DEF Spec

\* And so no step of provider-x changes the unmanaged part of the configuration.
THEOREM UserContentIsPreserved ==
  ASSUME "editor" \notin Racers
  PROVE  Spec => UserContentPreserved
  <1>1. TypeOK /\ BodyCustody /\ [Next]_vars =>
          [op' # op => Body(config') = Body(config)]_vars
    BY ConfigWriters, ReplaceBody DEF Edit
  <1>2. QED
    BY <1>1, BodyIsInCustody, TypeCorrect, PTL DEF Spec, UserContentPreserved

(***************************************************************************)
(* The model cache, however operations overlap.                             *)
(***************************************************************************)
\* What an operation knows of the cache survives the removal of the cache by another.
LEMMA GotoCache ==
  ASSUME TypeOK, CachesInCustody, NEW t \in Ops, NEW o, NEW pc, Goto(t, o, pc),
         cache' \in {cache, None}, misled' \in {misled, misled \ {t}}, CacheCustody(t, [o EXCEPT !.pc = pc])'
  PROVE  CachesInCustody'
  <1> DEFINE next == [o EXCEPT !.pc = pc]
  <1>1. op' = [op EXCEPT ![t] = next] /\ CacheCustody(t, next)'
    BY DEF Goto
  <1> HIDE DEF next
  <1>2. \A s \in Ops : op'[s] = IF s = t THEN next ELSE op[s]
    BY <1>1 DEF TypeOK, ProcessOK
  <1>3. ASSUME NEW s \in Ops
        PROVE  CacheCustody(s, op[s])'
    <2>1. CASE s = t
      BY <1>1, <1>2, <2>1 DEF CacheCustody, TakesCacheAsGone
    <2>2. CASE s # t
      BY <1>2, <2>2 DEF CachesInCustody, CacheCustody, TakesCacheAsGone
    <2>3. QED
      BY <2>1, <2>2
  <1>4. QED
    BY <1>3 DEF CachesInCustody

\* An operation that ended knows nothing of it.
LEMMA EndCache ==
  ASSUME TypeOK, CachesInCustody, NEW t \in Ops, Abandon(t) \/ Complete(t), cache' = cache,
         misled' = misled
  PROVE  CachesInCustody'
  <1>1. \A s \in Ops : CacheCustody(s, IdleOp)
    BY DEF CacheCustody, TakesCacheAsGone, IdleOp, Preparing, Applies
  <1>2. op' = [op EXCEPT ![t] = IdleOp]
    BY DEF Abandon, Complete
  <1>3. \A s \in Ops : op'[s] \in {op[s], IdleOp}
    BY <1>2 DEF TypeOK, ProcessOK
  <1>4. QED
    BY <1>1, <1>3 DEF CachesInCustody, CacheCustody, TakesCacheAsGone

LEMMA RequireCache ==
  ASSUME TypeOK, CachesInCustody, NEW t \in Ops, NEW guard, NEW o, NEW pc,
         Require(t, guard, o, pc), cache' = cache, misled' = misled,
         guard => CacheCustody(t, [o EXCEPT !.pc = pc])
  PROVE  CachesInCustody'
  <1>1. CASE guard
    <2>1. CacheCustody(t, [o EXCEPT !.pc = pc])'
      BY <1>1 DEF CacheCustody, TakesCacheAsGone
    <2>2. QED
      BY <1>1, <2>1, GotoCache DEF Require
  <1>2. CASE ~guard
    BY <1>2, EndCache DEF Require
  <1>3. QED
    BY <1>1, <1>2

LEMMA CacheStep ==
  ASSUME TypeOK, CachesInCustody, NEW t \in Ops, Step(t)
  PROVE  CachesInCustody'
  <1>0. PICK o \in Operation : o = op[t]
    BY DEF TypeOK, ProcessOK
  <1>1. CacheCustody(t, o)
    BY <1>0 DEF CachesInCustody
  <1> USE DEF Preparing
  <1>2. ASSUME NEW kind \in Kinds, Request(t, kind)
        PROVE  CachesInCustody'
    <2>1. PICK pc \in {"inspectConfig", "readConfig", "readReceipt"} :
            /\ Goto(t, [IdleOp EXCEPT !.kind = kind], pc)
            /\ pc = "readReceipt" => kind = "disable"
      <3>1. kind \in {"reconcile", "trayDisable", "enable", "disable"}
        BY <1>2, CodexAssumption DEF Request, Kinds
      <3>2. QED
        BY <1>2, <3>1 DEF Request
    <2>2. CacheCustody(t, [[IdleOp EXCEPT !.kind = kind] EXCEPT !.pc = pc])'
      BY <2>1 DEF CacheCustody, TakesCacheAsGone, IdleOp, Applies
    <2>3. QED
      BY <1>2, <2>1, <2>2, GotoCache DEF Request, files
  <1>3. CASE InspectConfig(t)
    <2>1. CacheCustody(t, [[o EXCEPT !.cfg = config] EXCEPT !.pc = "inspectReceipt"])'
      BY DEF CacheCustody, TakesCacheAsGone, Applies, Operation
    <2>2. QED
      BY <1>0, <1>3, <2>1, GotoCache DEF InspectConfig, files
  <1>4. CASE InspectReceipt(t)
    <2> DEFINE pc == IF Applies(o) THEN "readConfig" ELSE "readReceipt"
    <2>1. CacheCustody(t, [[o EXCEPT !.cfg = None] EXCEPT !.pc = pc])'
      BY DEF CacheCustody, TakesCacheAsGone, Applies, Operation
    <2>2. Goto(t, [o EXCEPT !.cfg = None], pc) \/ Complete(t)
      BY <1>0, <1>4 DEF InspectReceipt
    <2>3. QED
      BY <1>4, <2>1, <2>2, GotoCache, EndCache DEF InspectReceipt, files
  <1>5. CASE ReadConfig(t)
    <2>1. CacheCustody(t, [[o EXCEPT !.cfg = config] EXCEPT !.pc = "readCache"])
      BY DEF CacheCustody, TakesCacheAsGone, Applies, Operation
    <2>2. QED
      BY <1>0, <1>5, <2>1, RequireCache DEF ReadConfig, files
  <1>6. CASE ReadCache(t)
    <2>1. PICK next : next = [o EXCEPT !.cache = cache]
      OBVIOUS
    <2>2. PICK pc \in {"readReceipt", "checkCache", "checkConfig", "checkFinal"} :
            /\ Goto(t, next, pc)
            /\ IF Applies(o) THEN pc = "readReceipt"
               ELSE pc # "readReceipt" /\ (pc # "checkCache" => cache = None)
      <3>1. Applies(next) <=> Applies(o)
        BY <2>1 DEF Applies, Operation
      <3>2. CASE Applies(o)
        <4>1. Goto(t, next, "readReceipt")
          BY <1>0, <1>6, <2>1, <3>1, <3>2 DEF ReadCache
        <4>2. QED
          BY <3>2, <4>1
      <3>3. CASE ~Applies(o)
        BY <1>0, <1>6, <2>1, <3>1, <3>3 DEF ReadCache
      <3>4. QED
        BY <3>2, <3>3
    <2>3. CacheCustody(t, [next EXCEPT !.pc = pc])
      BY <2>1, <2>2 DEF CacheCustody, TakesCacheAsGone, Applies, Operation
    <2>4. cache' = cache /\ misled' = misled
      BY <1>6 DEF ReadCache, files
    <2>5. CacheCustody(t, [next EXCEPT !.pc = pc])'
      BY <2>3, <2>4 DEF CacheCustody, TakesCacheAsGone
    <2>6. QED
      BY <2>2, <2>4, <2>5, GotoCache
  <1>7. CASE ApplyReadReceipt(t)
    <2>1. PICK plan : plan = Prepared(o.cfg, o.cache, receipt, url)
      OBVIOUS
    <2>2. plan.phase = "prepared"
      BY <2>1 DEF Prepared
    <2>3. PICK next : next = [o EXCEPT !.held = receipt, !.plan = plan]
      OBVIOUS
    <2>4. CacheCustody(t, [next EXCEPT !.pc = "checkPrepared"])
      BY <1>0, <1>1, <1>7, <2>2, <2>3 DEF CacheCustody, TakesCacheAsGone, Applies, Operation, ApplyReadReceipt, At
    <2>5. QED
      BY <1>0, <1>7, <2>1, <2>3, <2>4, RequireCache DEF ApplyReadReceipt, files
  <1>8. CASE RestoreReadReceipt(t)
    <2>1. PICK next : next = [o EXCEPT !.held = receipt,
                                !.plan = [receipt EXCEPT !.phase = "restored", !.hash = None]]
      OBVIOUS
    <2>2. CacheCustody(t, [next EXCEPT !.pc = "readConfig"])
      BY <2>1 DEF CacheCustody, TakesCacheAsGone, Applies, Operation
    <2>3. QED
      BY <1>0, <1>8, <2>1, <2>2, RequireCache, EndCache DEF RestoreReadReceipt, files
  <1>9. CASE CheckPrepared(t) \/ CheckConfig(t)
    <2>1. PICK guard, pc : /\ Require(t, guard, o, pc)
                           /\ <<o.pc, pc>> \in {<<"checkPrepared", "renamePrepared">>,
                                                <<"checkConfig", "replaceConfig">>}
      <3>1. CASE CheckPrepared(t)
        BY <1>0, <3>1 DEF CheckPrepared, At
      <3>2. CASE CheckConfig(t)
        BY <1>0, <3>2 DEF CheckConfig, At
      <3>3. QED
        BY <1>9, <3>1, <3>2
    <2>2. CacheCustody(t, [o EXCEPT !.pc = pc])
      BY <1>1, <2>1 DEF CacheCustody, TakesCacheAsGone, Applies, Operation
    <2>3. QED
      BY <1>9, <2>1, <2>2, RequireCache DEF CheckPrepared, CheckConfig, files
  <1>10. CASE CheckCache(t)
    <2>1. CacheCustody(t, [o EXCEPT !.pc = "removeCache"])
      BY DEF CacheCustody, TakesCacheAsGone, Applies, Operation
    <2>2. QED
      BY <1>0, <1>10, <2>1, RequireCache DEF CheckCache, files
  <1>11. CASE CheckFinal(t)
    <2>1. CacheCustody(t, [o EXCEPT !.pc = "saveFinal"])
      BY <1>0, <1>1, <1>11 DEF CacheCustody, TakesCacheAsGone, Applies, Operation, CheckFinal, At
    <2>2. QED
      BY <1>0, <1>11, <2>1, RequireCache DEF CheckFinal, files
  <1>12. CASE RenamePrepared(t)
    <2>1. CacheCustody(t, [o EXCEPT !.pc = "readBack"])'
      BY <1>0, <1>1, <1>12 DEF CacheCustody, TakesCacheAsGone, Applies, Operation, RenamePrepared, At
    <2>2. QED
      BY <1>0, <1>12, <2>1, GotoCache DEF RenamePrepared
  <1>13. CASE ReadBack(t)
    <2>1. CacheCustody(t, [[o EXCEPT !.held = receipt] EXCEPT !.pc = "checkConfig"])'
      BY <1>0, <1>1, <1>13 DEF CacheCustody, TakesCacheAsGone, Applies, Operation, ReadBack, At, files
    <2>2. QED
      BY <1>0, <1>13, <2>1, GotoCache DEF ReadBack, files
  <1>14. CASE ReplaceConfig(t)
    <2>1. PICK pc \in {"checkCache", "checkFinal"} :
            /\ Goto(t, o, pc)
            /\ pc = "checkFinal" => (Applies(o) => o.cache = None)
      BY <1>0, <1>14 DEF ReplaceConfig
    <2>2. CacheCustody(t, [o EXCEPT !.pc = pc])'
      BY <1>0, <1>1, <1>14, <2>1 DEF CacheCustody, TakesCacheAsGone, Applies, Operation, ReplaceConfig, At
    <2>3. QED
      BY <1>14, <2>1, <2>2, GotoCache DEF ReplaceConfig
  <1>15. CASE RemoveCache(t)
    <2>1. PICK pc \in {"checkConfig", "checkFinal"} :
            Goto(t, o, pc) /\ (pc = "checkConfig" => ~Applies(o))
      BY <1>0, <1>15 DEF RemoveCache
    <2>2. CacheCustody(t, [o EXCEPT !.pc = pc])'
      BY <1>15, <2>1 DEF CacheCustody, TakesCacheAsGone, Applies, Operation, RemoveCache
    <2>3. QED
      BY <1>15, <2>1, <2>2, GotoCache DEF RemoveCache
  <1>16. CASE SaveFinal(t) \/ IoFail(t)
    BY <1>16, EndCache DEF SaveFinal, IoFail, files
  <1>17. QED
    BY <1>2, <1>3, <1>4, <1>5, <1>6, <1>7, <1>8, <1>9, <1>10, <1>11, <1>12, <1>13, <1>14, <1>15,
      <1>16 DEF Step

LEMMA CacheNext ==
  ASSUME TypeOK, CachesInCustody, [Next]_vars
  PROVE  CachesInCustody'
  <1> USE DEF Preparing, TakesCacheAsGone
  <1>1. CASE UNCHANGED vars \/ Edit
    BY <1>1 DEF CachesInCustody, CacheCustody, vars, files, Edit
  <1>2. CASE Start
    <2>1. cache' = cache
      BY <1>2 DEF Start, files
    <2>2. CASE UNCHANGED <<op, misled>>
      BY <2>1, <2>2 DEF CachesInCustody, CacheCustody
    <2>3. CASE Goto(Boot, [IdleOp EXCEPT !.kind = "listener"], "inspectConfig")
               /\ misled' = misled \ {Boot}
      <3>1. CacheCustody(Boot, [[IdleOp EXCEPT !.kind = "listener"] EXCEPT !.pc = "inspectConfig"])'
        BY DEF CacheCustody, Applies, IdleOp
      <3>2. QED
        BY <2>1, <2>3, <3>1, GotoCache, CodexAssumption
    <2>4. QED
      BY <1>2, <2>2, <2>3 DEF Start
  <1>3. CASE Crash
    <2>1. \A t \in Ops : op'[t].pc = "idle"
      BY <1>3 DEF Crash, IdleOp
    <2>2. QED
      BY <2>1 DEF CachesInCustody, CacheCustody
  <1>4. CASE Regenerate
    <2>1. /\ op' = op
          /\ misled' = misled \cup {t \in Ops : TakesCacheAsGone(op[t])}
      BY <1>4 DEF Regenerate
    <2> HIDE DEF TakesCacheAsGone
    <2>2. QED
      BY <2>1 DEF CachesInCustody, CacheCustody
  <1>5. QED
    BY <1>1, <1>2, <1>3, <1>4, CacheStep DEF Next

\* However operations overlap, whoever edits the configuration and whenever Codex writes its
\* model cache, an apply or a restore that completes leaves no cache of another configuration,
\* unless Codex wrote it after the operation had found or made it absent.
THEOREM CacheFollows == Spec => CacheFollowsConfig
  <1>1. Init => CachesInCustody
    BY DEF Init, CachesInCustody, CacheCustody, TakesCacheAsGone, IdleOp, Preparing
  <1>2. TypeOK /\ CachesInCustody /\ [Next]_vars => CachesInCustody'
    BY CacheNext
  <1>3. CachesInCustody =>
          [\A t \in Ops \ misled : Completes(t) => cache \in {None, Keys(config)}]_vars
    BY DEF CachesInCustody, CacheCustody, TakesCacheAsGone, Completes
  <1>4. QED
    BY <1>1, <1>2, <1>3, TypeCorrect, PTL DEF Spec, CacheFollowsConfig

(***************************************************************************)
(* What can block the integration, while operations do not overlap.         *)
(***************************************************************************)
ActiveUrl ==
  Installed(receipt) /\ receipt.phase = "active" /\ Keys(config) \in Urls
    => Keys(config) = receipt.url

LEMMA GotoUrl ==
  ASSUME OneAtATime, TypeOK, NEW t \in Ops, NEW o, NEW pc, Goto(t, o, pc),
         ActiveUrl', UrlCustody([o EXCEPT !.pc = pc])'
  PROVE  UrlsInCustody'
  <1> DEFINE next == [o EXCEPT !.pc = pc]
  <1>1. op' = [op EXCEPT ![t] = next] /\ UrlCustody(next)'
    BY DEF Goto
  <1> HIDE DEF next
  <1>2. \A s \in Ops : op'[s] = next
    BY <1>1 DEF OneAtATime, TypeOK, ProcessOK
  <1>3. QED
    BY <1>1, <1>2 DEF UrlsInCustody, ActiveUrl, UrlCustody

LEMMA EndUrl ==
  ASSUME OneAtATime, TypeOK, NEW t \in Ops, Abandon(t) \/ Complete(t), ActiveUrl'
  PROVE  UrlsInCustody'
  <1>1. IdleOp.pc = "idle"
    BY DEF IdleOp
  <1>2. \A s \in Ops : op'[s] = IdleOp
    BY DEF OneAtATime, TypeOK, ProcessOK, Abandon, Complete
  <1>3. QED
    BY <1>1, <1>2 DEF UrlsInCustody, ActiveUrl, UrlCustody, Preparing, Installing

\* A step that leaves configuration and receipt alone and goes on with its plan.
LEMMA SameUrl ==
  ASSUME OneAtATime, TypeOK, UrlsInCustody, NEW t \in Ops, UNCHANGED <<config, receipt>>,
         NEW guard, NEW o, NEW pc,
         Goto(t, o, pc) \/ Abandon(t) \/ Complete(t) \/ Require(t, guard, o, pc),
         UrlCustody([o EXCEPT !.pc = pc])
  PROVE  UrlsInCustody'
  <1>1. ActiveUrl'
    BY DEF UrlsInCustody, ActiveUrl
  <1>2. UrlCustody([o EXCEPT !.pc = pc])'
    BY DEF UrlCustody
  <1>3. QED
    BY <1>1, <1>2, GotoUrl, EndUrl DEF Require

LEMMA UrlStep ==
  ASSUME OneAtATime, TypeOK, Custody, UrlsInCustody, NEW t \in Ops, Step(t)
  PROVE  UrlsInCustody'
  <1>0. PICK o \in Operation : o = op[t]
    BY DEF TypeOK, ProcessOK
  <1>1. UrlCustody(o) /\ OperationCustody(o) /\ DiskCustody /\ ActiveUrl
    BY <1>0 DEF UrlsInCustody, Custody, ActiveUrl
  <1> USE DEF Preparing, Installing
  \* Before a receipt is planned.
  <1>2. ASSUME NEW kind \in Kinds, Request(t, kind)
        PROVE  UrlsInCustody'
    <2>1. PICK pc \in {"inspectConfig", "readConfig", "readReceipt"} :
            Goto(t, [IdleOp EXCEPT !.kind = kind], pc)
      <3>1. kind \in {"reconcile", "trayDisable", "enable", "disable"}
        BY <1>2, CodexAssumption DEF Request, Kinds
      <3>2. QED
        BY <1>2, <3>1 DEF Request
    <2>2. UrlCustody([[IdleOp EXCEPT !.kind = kind] EXCEPT !.pc = pc])
      BY <2>1 DEF UrlCustody, IdleOp
    <2>3. QED
      BY <1>2, <2>1, <2>2, SameUrl DEF Request, files
  <1>3. CASE InspectConfig(t)
    <2>1. UrlCustody([[o EXCEPT !.cfg = config] EXCEPT !.pc = "inspectReceipt"])
      BY DEF UrlCustody, Operation
    <2>2. QED
      BY <1>0, <1>3, <2>1, SameUrl DEF InspectConfig, files
  <1>4. CASE InspectReceipt(t)
    <2>1. PICK pc \in {"readConfig", "readReceipt"} :
            Goto(t, [o EXCEPT !.cfg = None], pc) \/ Complete(t)
      BY <1>0, <1>4 DEF InspectReceipt
    <2>2. UrlCustody([[o EXCEPT !.cfg = None] EXCEPT !.pc = pc])
      BY DEF UrlCustody, Operation
    <2>3. QED
      BY <1>4, <2>1, <2>2, SameUrl DEF InspectReceipt, files
  <1>5. CASE ReadConfig(t)
    <2>1. UrlCustody([[o EXCEPT !.cfg = config] EXCEPT !.pc = "readCache"])
      BY DEF UrlCustody, Operation
    <2>2. QED
      BY <1>0, <1>5, <2>1, SameUrl DEF ReadConfig, files
  <1>6. CASE ReadCache(t)
    <2>1. PICK next : next = [o EXCEPT !.cache = cache]
      OBVIOUS
    <2>2. Applies(next) <=> Applies(o)
      BY <2>1 DEF Applies, Operation
    <2>3. PICK pc : Goto(t, next, pc) /\ (Applies(o) => pc = "readReceipt")
      BY <1>0, <1>6, <2>1, <2>2 DEF ReadCache
    <2>4. UrlCustody([next EXCEPT !.pc = pc])
      BY <2>1, <2>3 DEF UrlCustody, Applies, Operation
    <2>5. QED
      BY <1>6, <2>3, <2>4, SameUrl DEF ReadCache, files
  \* The plan.
  <1>7. CASE ApplyReadReceipt(t)
    <2>1. PICK plan : plan = Prepared(o.cfg, o.cache, receipt, url)
      OBVIOUS
    <2>2. Keys(plan.hash) = plan.url
      <3>1. url \in Urls
        BY <1>7 DEF ApplyReadReceipt, At, TypeOK, ProcessOK
      <3>2. [m |-> url, u |-> Body(o.cfg)] \in File
        BY <3>1, FileParts DEF File, Managed, Operation
      <3>3. QED
        BY <2>1, <3>2, CodexAssumption DEF Prepared, Keys, AsFile
    <2>3. PICK next : next = [o EXCEPT !.held = receipt, !.plan = plan]
      OBVIOUS
    <2>4. UrlCustody([next EXCEPT !.pc = "checkPrepared"])
      BY <2>2, <2>3 DEF UrlCustody, Operation
    <2>5. QED
      BY <1>0, <1>7, <2>1, <2>3, <2>4, SameUrl DEF ApplyReadReceipt, files
  <1>8. CASE RestoreReadReceipt(t)
    <2>1. PICK next : next = [o EXCEPT !.held = receipt,
                                !.plan = [receipt EXCEPT !.phase = "restored", !.hash = None]]
      OBVIOUS
    <2>2. UrlCustody([next EXCEPT !.pc = "readConfig"])
      BY <2>1 DEF UrlCustody, Operation
    <2>3. PICK guard : Complete(t) \/ Require(t, guard, next, "readConfig")
      BY <1>0, <1>8, <2>1 DEF RestoreReadReceipt
    <2>4. QED
      BY <1>8, <2>2, <2>3, SameUrl DEF RestoreReadReceipt, files
  \* The checks, before and after the configuration is written.
  <1>9. CASE CheckPrepared(t) \/ CheckConfig(t) \/ CheckCache(t) \/ CheckFinal(t)
    <2>1. PICK guard, pc : /\ Require(t, guard, o, pc)
                           /\ <<o.pc, pc>> \in {<<"checkPrepared", "renamePrepared">>,
                                                <<"checkConfig", "replaceConfig">>,
                                                <<"checkCache", "removeCache">>,
                                                <<"checkFinal", "saveFinal">>}
      <3>1. CASE CheckPrepared(t)
        BY <1>0, <3>1 DEF CheckPrepared, At
      <3>2. CASE CheckConfig(t)
        BY <1>0, <3>2 DEF CheckConfig, At
      <3>3. CASE CheckCache(t)
        BY <1>0, <3>3 DEF CheckCache, At
      <3>4. CASE CheckFinal(t)
        BY <1>0, <3>4 DEF CheckFinal, At
      <3>5. QED
        BY <1>9, <3>1, <3>2, <3>3, <3>4
    <2>2. UrlCustody([o EXCEPT !.pc = pc])
      BY <1>1, <2>1 DEF UrlCustody, Applies, Operation
    <2>3. QED
      BY <1>9, <2>1, <2>2, SameUrl DEF CheckPrepared, CheckConfig, CheckCache, CheckFinal, files
  <1>10. CASE ReadBack(t)
    <2>1. UrlCustody([[o EXCEPT !.held = receipt] EXCEPT !.pc = "checkConfig"])
      BY <1>0, <1>1, <1>10 DEF UrlCustody, Applies, Operation, ReadBack, At
    <2>2. QED
      BY <1>0, <1>10, <2>1, SameUrl DEF ReadBack, files
  <1>11. CASE RemoveCache(t)
    <2>1. PICK pc \in {"checkConfig", "checkFinal"} :
            Goto(t, o, pc) /\ (pc = "checkConfig" => ~Applies(o)) /\ o.pc = "removeCache"
      BY <1>0, <1>11 DEF RemoveCache, At
    <2>2. UrlCustody([o EXCEPT !.pc = pc])
      BY <1>1, <2>1 DEF UrlCustody, Applies, Operation
    <2>3. QED
      BY <1>11, <2>1, <2>2, SameUrl DEF RemoveCache
  \* The receipt, the configuration and the receipt again.
  <1>12. CASE RenamePrepared(t)
    <2>1. o.pc = "renamePrepared" /\ receipt' = o.plan /\ config' = config /\ Goto(t, o, "readBack")
      BY <1>0, <1>12 DEF RenamePrepared, At
    <2>2. ActiveUrl'
      BY <1>1, <2>1 DEF OperationCustody, RestoreCustody, ApplyCustody, ActiveUrl
    <2>3. UrlCustody([o EXCEPT !.pc = "readBack"])'
      BY <1>1, <2>1 DEF UrlCustody, Applies, Operation
    <2>4. QED
      BY <2>1, <2>2, <2>3, GotoUrl
  <1>13. CASE ReplaceConfig(t)
    <2>1. /\ o.pc = "replaceConfig" /\ receipt' = receipt
          /\ config' = IF Applies(o) THEN o.plan.hash ELSE RestoreTarget(o.cfg, o.plan)
      BY <1>0, <1>13 DEF ReplaceConfig, At
    <2>2. PICK pc \in {"checkCache", "checkFinal"} : Goto(t, o, pc)
      BY <1>0, <1>13 DEF ReplaceConfig
    <2>3. ActiveUrl'
      <3>1. CASE Applies(o)
        BY <1>1, <2>1, <3>1 DEF OperationCustody, ApplyCustody, ActiveUrl
      <3>2. CASE ~Applies(o)
        <4>1. Planned(o)
          BY <2>1 DEF Planned, Windows
        <4>2. /\ o.plan \in Receipt /\ o.cfg \in Files
              /\ Installed(receipt) /\ o.plan.orig = receipt.orig
          BY <1>1, <3>2, <4>1, RestorePlan DEF Operation, Receipts
        <4>3. Keys(config') \notin Urls
          BY <1>1, <2>1, <3>2, <4>2, TargetKeys, DisjointKeys DEF DiskCustody, Sound
        <4>4. QED
          BY <4>3 DEF ActiveUrl
      <3>3. QED
        BY <3>1, <3>2
    <2>4. UrlCustody([o EXCEPT !.pc = pc])'
      BY <1>1, <2>1, <2>2 DEF UrlCustody, Applies, Operation
    <2>5. QED
      BY <2>2, <2>3, <2>4, GotoUrl
  <1>14. CASE SaveFinal(t)
    <2>1. /\ o.pc = "saveFinal" /\ config' = config /\ Complete(t)
          /\ receipt' = IF Applies(o) THEN [o.plan EXCEPT !.phase = "active"] ELSE o.plan
      BY <1>0, <1>14 DEF SaveFinal, At
    <2>2. Planned(o) /\ o.plan \in Receipt
      BY <2>1 DEF Planned, Windows, Operation, Receipts
    <2>3. ActiveUrl'
      <3>1. CASE Applies(o)
        <4>1. receipt'.url = o.plan.url
          BY <2>1, <2>2, <3>1 DEF Receipt
        <4>2. QED
          BY <1>1, <2>1, <3>1, <4>1 DEF UrlCustody, ActiveUrl
      <3>2. CASE ~Applies(o)
        BY <1>1, <2>1, <2>2, <3>2, RestorePlan DEF ActiveUrl
      <3>3. QED
        BY <3>1, <3>2
    <2>4. QED
      BY <2>1, <2>3, EndUrl
  <1>15. CASE IoFail(t)
    <2>1. ActiveUrl'
      BY <1>1, <1>15 DEF IoFail, files, ActiveUrl
    <2>2. QED
      BY <1>15, <2>1, EndUrl DEF IoFail
  <1>16. QED
    BY <1>2, <1>3, <1>4, <1>5, <1>6, <1>7, <1>8, <1>9, <1>10, <1>11, <1>12, <1>13, <1>14, <1>15
      DEF Step

LEMMA UrlNext ==
  ASSUME OneAtATime, TypeOK, Custody, UrlsInCustody, [Next]_vars
  PROVE  UrlsInCustody'
  <1>1. CASE UNCHANGED vars \/ Regenerate
    BY <1>1 DEF UrlsInCustody, UrlCustody, vars, files, Regenerate
  <1>2. CASE Start
    <2>1. UNCHANGED <<config, receipt>>
      BY <1>2 DEF Start, files
    <2>2. CASE UNCHANGED op
      BY <2>1, <2>2 DEF UrlsInCustody, UrlCustody
    <2>3. CASE Goto(Boot, [IdleOp EXCEPT !.kind = "listener"], "inspectConfig")
      <3>1. UrlCustody([[IdleOp EXCEPT !.kind = "listener"] EXCEPT !.pc = "inspectConfig"])
        BY DEF UrlCustody, IdleOp, Preparing, Installing
      <3>2. QED
        BY <2>1, <2>3, <3>1, SameUrl, CodexAssumption
    <2>4. QED
      BY <1>2, <2>2, <2>3 DEF Start
  <1>3. CASE Crash
    <2>1. (\A t \in Ops : op'[t].pc = "idle") /\ UNCHANGED <<config, receipt>>
      BY <1>3 DEF Crash, IdleOp, files
    <2>2. QED
      BY <2>1 DEF UrlsInCustody, UrlCustody, Preparing, Installing
  <1>4. CASE Edit
    <2>1. /\ UNCHANGED <<receipt, op>>
          /\ Keys(config') \in Urls => Keys(config') = Keys(config)
      BY <1>4, DisjointKeys DEF Edit
    <2>2. QED
      BY <2>1 DEF UrlsInCustody, UrlCustody
  <1>5. QED
    BY <1>1, <1>2, <1>3, <1>4, UrlStep DEF Next

\* As long as operations do not overlap and nobody else changes the managed keys, apply and
\* restore refuse a receipt only after an interruption, of the two kinds the property names.
THEOREM BlockedOnlyByAnInterruption ==
  ASSUME OneAtATime
  PROVE  Spec => []BlockedOnlyByInterruption
  <1>1. Init => UrlsInCustody
    BY DEF Init, UrlsInCustody, UrlCustody, IdleOp, Preparing, Installing, Installed
  <1>2. TypeOK /\ Custody /\ UrlsInCustody /\ [Next]_vars => UrlsInCustody'
    BY UrlNext
  <1>3. TypeOK /\ Custody /\ UrlsInCustody => BlockedOnlyByInterruption
    <2>1. SUFFICES ASSUME TypeOK, Custody, UrlsInCustody, Blocked, ~edited,
                          ~(receipt.phase = "active" /\ Keys(config) = Keys(receipt.orig))
                   PROVE  receipt.phase = "prepared" /\ Keys(config) \in Urls
      BY DEF BlockedOnlyByInterruption
    <2>2. /\ Installed(receipt) /\ receipt.phase \in {"prepared", "active"}
          /\ Keys(config) \in Urls \cup {Keys(receipt.orig)}
      BY <2>1 DEF Blocked, Installed, TypeOK, Receipts, Receipt, Phases, Custody, DiskCustody,
        Displaceable
    <2>3. receipt.phase # "active"
      BY <2>1, <2>2 DEF Blocked, validate_current_against_receipt, managed_state_matches,
        UrlsInCustody
    <2>4. Keys(config) # Keys(receipt.orig)
      BY <2>1, <2>2, <2>3 DEF Blocked, validate_current_against_receipt,
        original_managed_state_matches
    <2>5. QED
      BY <2>2, <2>3, <2>4
  <1>4. QED
    BY <1>1, <1>2, <1>3, CustodyHolds, TypeCorrect, PTL DEF Spec
=============================================================================
