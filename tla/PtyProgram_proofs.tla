--------------------------- MODULE PtyProgram_proofs ---------------------------
(***************************************************************************)
(* What holds of a program on a pty for every bound of PtyProgram: no page  *)
(* is dropped or repeated, an upgrade loses the page it found held and no   *)
(* more, the last words are read before the pty goes, a held-back redraw    *)
(* has its payer, a wait for the input ends exactly when it should, and the *)
(* input arrives whole and in order.                                        *)
(***************************************************************************)
EXTENDS PtyProgram, SequenceTheorems, TLAPS

\* The pump holds a page only over its checkpoint, and the pages that a
\* snapshot counts have been fed.
Books ==
  /\ PagesAccountedFor
  /\ pump # "held" => holding = 0
  /\ snapFed <= fed

\* While an upgrade is paused nothing is read, so what the next image loses
\* is what was held when it paused.
PauseBooks ==
  /\ paused => ~reading /\ image < upgrades
  /\ paused /\ ~cancelled => taken <= snapFed + lost + 1

OutputInv == OutputTypes /\ UpgradeTypes /\ Books /\ PauseBooks /\ UpgradeLosesAPageAtMost

LEMMA OutputInit == ASSUME Init PROVE OutputInv
BY PtyAssumption DEF Init, OutputInv, OutputTypes, UpgradeTypes, Books, PauseBooks, PumpStates,
   PagesAccountedFor, UpgradeLosesAPageAtMost

\* The variables the pages are counted with.
pageVars == <<wrote, outVars, feedVars, holdVars, boundVars>>

LEMMA OutputUnchanged ==
  ASSUME OutputInv, UNCHANGED pageVars
  PROVE  OutputInv'
BY DEF OutputInv, OutputTypes, UpgradeTypes, Books, PauseBooks, PumpStates, PagesAccountedFor,
   UpgradeLosesAPageAtMost, pageVars, outVars, feedVars, holdVars, snapVars, boundVars

\* The test of the loop leaves no page held.
LEMMA LoopTestMoves ==
  ASSUME NEW over, LoopTest(over)
  PROVE  pump' \in PumpStates \ {"held"}
BY DEF LoopTest, PumpLeaves, PumpStates

LEMMA OutputStep == ASSUME OutputInv, [Next]_vars PROVE OutputInv'
<1> USE PtyAssumption
<1> USE DEF OutputInv, OutputTypes, UpgradeTypes, Books, PauseBooks, PumpStates,
            PagesAccountedFor, UpgradeLosesAPageAtMost
<1>1. CASE ProgWrites
  BY <1>1 DEF ProgWrites, outVars, feedVars, holdVars, snapVars, boundVars
<1>2. CASE Pump
  <2>1. CASE PumpStarts
    BY <2>1 DEF PumpStarts, LoopTest, PumpLeaves, Close, osVars, feedVars, holdVars, snapVars, boundVars
  <2>2. CASE PumpWoken
    BY <2>2 DEF PumpWoken, PumpLeaves, Close, osVars, feedVars, holdVars, snapVars, boundVars
  <2>3. CASE PumpReads
    <3> USE DEF osVars, feedVars, holdVars, snapVars, boundVars
    <3>1. holding = 0 /\ UNCHANGED <<wrote, holdVars, boundVars>>
      BY <2>3 DEF PumpReads
    <3>2. CASE ~reading
      <4>1. UNCHANGED <<taken, feedVars>> /\ LoopTest(eof)
        BY <2>3, <3>2 DEF PumpReads, PausedMeanwhile
      <4>2. pump' \in PumpStates \ {"held"}
        BY <4>1, LoopTestMoves
      <4> QED BY <3>1, <4>1, <4>2
    <3>3. CASE reading
      <4>1. ~paused
        BY <3>3
      <4>2. (taken' = taken \/ taken' = taken + 1) /\ taken' <= wrote
        BY <2>3, <3>3 DEF PumpReads, PausedMeanwhile, ReadPage
      <4>3. CASE Feed(taken' - taken) /\ LoopTest(eof') /\ UNCHANGED <<holding, lost>>
        <5>1. /\ fed' = fed + (taken' - taken)
             /\ (shown' = shown \/ shown' = fed')
             /\ (payers' = payers \/ payers' = payers + 1)
          BY <4>3 DEF Feed
        <5>2. pump' \in PumpStates \ {"held"}
          BY <4>3, LoopTestMoves
        <5> QED BY <3>1, <4>1, <4>2, <4>3, <5>1, <5>2
      <4>4. CASE /\ pump' = "held" /\ holding' = taken' - taken
                 /\ UNCHANGED <<fed, shown, owed, payers, lost>>
        <5>1. holding' \in 0..1 /\ taken' = fed' + holding' + lost'
          BY <3>1, <4>2, <4>4
        <5>2. pump' = "held" /\ UNCHANGED <<fed, shown, payers, lost>>
          BY <4>4
        <5>3. OutputTypes' /\ UpgradeTypes'
          <6>1. pump' \in PumpStates
            BY <5>2
          <6>2. taken' \in 0..wrote' /\ wrote' \in 0..MaxOut
            BY <3>1, <4>2
          <6>3. /\ fed' \in 0..MaxOut /\ shown' \in 0..MaxOut /\ lost' \in 0..MaxOut
                /\ payers' \in Nat
            BY <5>2
          <6>4. UpgradeTypes'
            BY <3>1
          <6> QED BY <5>1, <6>1, <6>2, <6>3, <6>4
        <5>4. Books'
          BY <3>1, <4>2, <5>1, <5>2
        <5>5. PauseBooks' /\ UpgradeLosesAPageAtMost'
          BY <3>1, <4>1, <5>2
        <5> QED BY <5>3, <5>4, <5>5
      <4> QED BY <2>3, <3>3, <4>3, <4>4 DEF PumpReads, PausedMeanwhile
    <3> QED BY <3>2, <3>3
  <2>4. CASE PumpFeedsHeld
    BY <2>4 DEF PumpFeedsHeld, Feed, LoopTest, PumpLeaves, Close, osVars, holdVars, snapVars, boundVars
  <2>5. CASE PumpCancelled
    BY <2>5 DEF PumpCancelled, PumpLeaves, Close, osVars, holdVars, snapVars, boundVars
  <2> QED BY <1>2, <2>1, <2>2, <2>3, <2>4, <2>5 DEF Pump
<1>3. CASE PayOwed
  BY <1>3 DEF PayOwed, osVars, outVars, holdVars, snapVars, boundVars
<1>4. CASE WaitersCancelled
  BY <1>4 DEF WaitersCancelled, osVars, outVars, holdVars, snapVars, boundVars
<1>5. CASE Upgrade
  <2>1. CASE UpgradePauses
    BY <2>1 DEF UpgradePauses, PauseReading, osVars, feedVars, snapVars
  <2>2. CASE UpgradeAborts
    BY <2>2 DEF UpgradeAborts, ResumeReading, osVars, feedVars, snapVars, boundVars
  <2>3. CASE Exec
    <3>1. fed' = snapFed /\ shown' = snapFed /\ lost' = taken - snapFed /\ holding' = 0 /\ payers' = 0
      BY <2>3 DEF Exec
    <3>2. ~paused' /\ image' = image + 1 /\ pump' \in PumpStates \ {"held"}
      BY <2>3 DEF Exec
    <3>3. UNCHANGED <<wrote, taken, cancelled, snapVars, suspends, upgrades>> /\ paused
      BY <2>3 DEF Exec
    <3> QED BY <3>1, <3>2, <3>3 DEF snapVars
  <2> QED BY <1>5, <2>1, <2>2, <2>3 DEF Upgrade
<1>6. CASE Suspend
  BY <1>6 DEF Suspend, PauseReading, osVars, feedVars, snapVars
<1>7. CASE Resume
  BY <1>7 DEF Resume, ResumeReading, osVars, feedVars, snapVars, boundVars
<1>8. CASE HangUp
  BY <1>8 DEF HangUp, outVars, feedVars, holdVars, snapVars
<1>9. CASE Cancel
  BY <1>9 DEF Cancel, osVars, outVars, feedVars, holdVars, snapVars
<1>10. CASE UNCHANGED pageVars
  BY <1>10, OutputUnchanged
<1>11. ASSUME Program \/ Writer \/ Reaper \/ (\E k \in 1..2 : WriteBytes(k)) \/ Kill \/ GraceEnds \/ SayDone
              \/ UNCHANGED vars
       PROVE  ProgWrites \/ UNCHANGED pageVars
  BY <1>11 DEF Program, Writer, Reaper, WriteBytes, Kill, GraceEnds, SayDone, ProgReads, ProgEnds, SlaveLetGo,
     StrangerReaped, WriterWakes, WriterWrites, WriterFails, WriterCancelled, ReaperStarts,
     ThreadCollects, ThreadReturns, ReaperEnds, ReaperCancelled, pageVars, osVars, vars, boundVars, outVars, feedVars, holdVars, snapVars
<1> QED BY <1>1, <1>2, <1>3, <1>4, <1>5, <1>6, <1>7, <1>8, <1>9, <1>10, <1>11 DEF Next, Embedder

\* For every bound: each page the pump takes off the pty is fed once, is held,
\* or is counted as lost (`_read`), and each upgrade loses the held one at most.
THEOREM PagesAreAccountedFor == Spec => [](PagesAccountedFor /\ UpgradeLosesAPageAtMost)
<1>1. OutputInv => PagesAccountedFor /\ UpgradeLosesAPageAtMost
  BY DEF OutputInv, Books
<1> QED BY <1>1, OutputInit, OutputStep, PTL DEF Spec

-----------------------------------------------------------------------------
\* The pump closes the master when it has read the end of the file, and the
\* end of the file is behind the last page.
EndOfFileInv ==
  /\ eof => slaves = {} /\ taken = wrote
  /\ ~master => pump = "done" /\ (eof \/ cancelled)

LEMMA EndOfFileStep ==
  ASSUME OutputInv, EndOfFileInv, [Next]_vars
  PROVE  EndOfFileInv'
<1> USE DEF EndOfFileInv
<1>0. pump \in PumpStates
  BY DEF OutputInv, OutputTypes
<1>1. CASE Program
  <2> USE DEF outVars, boundVars
  <2>1. CASE ProgWrites
    BY <2>1 DEF ProgWrites
  <2>2. CASE ProgReads
    BY <2>2 DEF ProgReads, osVars
  <2>3. CASE ProgEnds
    BY <2>3 DEF ProgEnds, HoldersAfterTheEnd
  <2>4. CASE SlaveLetGo
    BY <2>4 DEF SlaveLetGo
  <2>5. CASE StrangerReaped
    BY <2>5 DEF StrangerReaped
  <2> QED BY <1>1, <2>1, <2>2, <2>3, <2>4, <2>5 DEF Program
<1>2. CASE Pump
  <2> USE DEF osVars, boundVars, LoopTest, PumpLeaves, Close
  <2>1. CASE PumpStarts
    BY <2>1 DEF PumpStarts
  <2>2. CASE PumpWoken
    BY <2>2 DEF PumpWoken
  <2>3. CASE PumpReads
    <3>1. UNCHANGED <<slaves, wrote, cancelled>> /\ master
      BY <2>3 DEF PumpReads
    <3>2. eof' => slaves = {} /\ taken' = wrote
      <4>1. taken \in Nat /\ wrote \in Nat /\ taken <= wrote
        BY PtyAssumption DEF OutputInv, OutputTypes
      <4>2. CASE ~reading
        BY <2>3, <4>2 DEF PumpReads, PausedMeanwhile
      <4>3. CASE reading
        <5>1. ReadPage /\ (taken < wrote \/ slaves = {})
          BY <2>3, <4>3 DEF PumpReads, PausedMeanwhile, Readable
        <5>2. CASE taken < wrote
          <6>1. ~eof
            BY <4>1, <5>2
          <6> QED BY <5>1, <5>2, <6>1 DEF ReadPage
        <5>3. CASE ~(taken < wrote)
          <6>1. slaves = {} /\ taken = wrote
            BY <4>1, <5>1, <5>3
          <6> QED BY <5>1, <5>3, <6>1 DEF ReadPage
        <5> QED BY <5>2, <5>3
      <4> QED BY <4>2, <4>3
    <3>3. ~master' => pump' = "done" /\ eof'
      <4>1. ASSUME NEW over \in {eof, eof'}, LoopTest(over), over = eof'
            PROVE  ~master' => pump' = "done" /\ eof'
        BY <3>1, <4>1
      <4>2. (LoopTest(eof) /\ UNCHANGED eof) \/ LoopTest(eof') \/ UNCHANGED master
        BY <2>3 DEF PumpReads
      <4> QED BY <3>1, <4>1, <4>2
    <3> QED BY <3>1, <3>2, <3>3
  <2>4. CASE PumpFeedsHeld
    BY <2>4 DEF PumpFeedsHeld
  <2>5. CASE PumpCancelled
    BY <2>5 DEF PumpCancelled
  <2> QED BY <1>2, <2>1, <2>2, <2>3, <2>4, <2>5 DEF Pump
<1>3. CASE Writer \/ (\E k \in 1..2 : WriteBytes(k)) \/ PayOwed \/ SayDone \/ UNCHANGED vars
  BY <1>3 DEF Writer, WriterWakes, WriterWrites, WriterFails, WriterCancelled, WriteBytes, PayOwed,
     SayDone, vars, osVars, outVars, boundVars
<1>4. CASE Reaper
  BY <1>4 DEF Reaper, ReaperStarts, ThreadCollects, ThreadReturns, ReaperEnds, ReaperCancelled,
     ReaperFinally, SendKill, HoldersAfterTheEnd, osVars, outVars, boundVars
<1>5. CASE Kill \/ GraceEnds
  BY <1>5 DEF Kill, GraceEnds, SendKill, HoldersAfterTheEnd, outVars, boundVars
<1>6. CASE HangUp \/ Cancel \/ WaitersCancelled
  BY <1>6 DEF HangUp, Cancel, WaitersCancelled, osVars, outVars, boundVars
<1>7. CASE Suspend \/ Resume \/ UpgradePauses \/ UpgradeAborts
  BY <1>7 DEF Suspend, Resume, UpgradePauses, UpgradeAborts, PauseReading, ResumeReading, osVars,
     boundVars
<1>8. CASE Exec
  BY <1>8 DEF Exec
<1> QED BY <1>1, <1>2, <1>3, <1>4, <1>5, <1>6, <1>7, <1>8 DEF Next, Embedder, Upgrade

\* For every bound: outside a cancelled scope the master goes only once nobody
\* holds the slave and every page was read and fed (`close`, `_reap`).
THEOREM LastWords == Spec => []LastWordsAreFed
<1>1. Init => EndOfFileInv
  BY DEF Init, EndOfFileInv
<1>2. OutputInv /\ EndOfFileInv => LastWordsAreFed
  BY DEF OutputInv, Books, EndOfFileInv, LastWordsAreFed
<1> QED BY <1>1, <1>2, OutputInit, OutputStep, EndOfFileStep, PTL DEF Spec

-----------------------------------------------------------------------------
\* A debt has a payer: `_feed` owes only what it starts a payer for.
DebtInv == (owed => payers > 0) \/ cancelled

LEMMA RedrawStep ==
  ASSUME OutputInv, DebtInv, RedrawIsComing, [Next]_vars
  PROVE  (DebtInv /\ RedrawIsComing)'
<1> USE DEF DebtInv, RedrawIsComing
<1>0. payers \in Nat
  BY DEF OutputInv, OutputTypes
<1>1. CASE UNCHANGED <<fed, shown, owed, payers>> /\ cancelled' = cancelled
  BY <1>1
<1>2. ASSUME NEW n, Feed(n), cancelled' = cancelled
      PROVE  (DebtInv /\ RedrawIsComing)'
  BY <1>0, <1>2 DEF Feed
<1>3. CASE PumpReads
  <2>1. (\E n : Feed(n)) \/ UNCHANGED <<fed, shown, owed, payers>>
    BY <1>3 DEF PumpReads, feedVars
  <2>2. cancelled' = cancelled
    BY <1>3 DEF PumpReads, boundVars
  <2> QED BY <1>1, <1>2, <2>1, <2>2
<1>4. CASE PumpFeedsHeld
  BY <1>2, <1>4 DEF PumpFeedsHeld, boundVars
<1>5. CASE PayOwed
  BY <1>0, <1>5 DEF PayOwed, boundVars
<1>6. CASE Cancel \/ WaitersCancelled
  BY <1>6 DEF Cancel, WaitersCancelled, boundVars
<1>7. CASE Exec
  BY <1>7 DEF Exec
<1>8. CASE Program \/ Writer \/ Reaper \/ UpgradePauses \/ UpgradeAborts \/ UNCHANGED vars
  BY <1>1, <1>8 DEF Program, ProgWrites, ProgReads, ProgEnds, SlaveLetGo, StrangerReaped, Writer,
     WriterWakes, WriterWrites, WriterFails, WriterCancelled, Reaper, ReaperStarts, ThreadCollects,
     ThreadReturns, ReaperEnds, ReaperCancelled, UpgradePauses, UpgradeAborts, feedVars, boundVars,
     vars
<1>9. CASE PumpStarts \/ PumpWoken \/ PumpCancelled
  BY <1>1, <1>9 DEF PumpStarts, PumpWoken, PumpCancelled, feedVars, boundVars
<1>10. CASE (\E k \in 1..2 : WriteBytes(k)) \/ Kill \/ GraceEnds \/ SayDone
  BY <1>1, <1>10 DEF WriteBytes, Kill, GraceEnds, SayDone, feedVars, boundVars
<1>11. CASE HangUp \/ Suspend \/ Resume
  BY <1>1, <1>11 DEF HangUp, Suspend, Resume, feedVars, boundVars
<1> QED BY <1>3, <1>4, <1>5, <1>6, <1>7, <1>8, <1>9, <1>10, <1>11 DEF Next, Embedder, Pump, Upgrade

\* For every bound: what was fed is on the screen, or a payer will draw it
\* (`_feed`, `_pay_what_is_owed`).
THEOREM RedrawsCome == Spec => []RedrawIsComing
<1>1. Init => DebtInv /\ RedrawIsComing
  BY DEF Init, DebtInv, RedrawIsComing
<1> QED BY <1>1, OutputInit, OutputStep, RedrawStep, PTL DEF Spec

-----------------------------------------------------------------------------
\* For every bound: a step over which the reading stays paused takes no page
\* off the pty (`pause_reading` and the second test of `_pump`).
THEOREM PausesHold == Spec => PausedReadsNothing
<1>1. ASSUME [Next]_vars, ~reading, ~reading'
      PROVE  taken' = taken
  <2>1. CASE PumpReads
    BY <1>1, <2>1 DEF PumpReads, PausedMeanwhile
  <2>2. CASE Program \/ Writer \/ Reaper \/ Upgrade \/ UNCHANGED vars
    BY <2>2 DEF Program, ProgWrites, ProgReads, ProgEnds, SlaveLetGo, StrangerReaped, Writer,
       WriterWakes, WriterWrites, WriterFails, WriterCancelled, Reaper, ReaperStarts,
       ThreadCollects, ThreadReturns, ReaperEnds, ReaperCancelled, Upgrade, UpgradePauses,
       UpgradeAborts, Exec, outVars, vars
  <2>3. CASE PumpStarts \/ PumpWoken \/ PumpCancelled \/ PumpFeedsHeld
    BY <2>3 DEF PumpStarts, PumpWoken, PumpCancelled, PumpFeedsHeld
  <2>4. CASE Embedder \/ PayOwed \/ GraceEnds \/ SayDone \/ WaitersCancelled
    BY <2>4 DEF Embedder, WriteBytes, Kill, HangUp, Suspend, Resume, Cancel, PayOwed, GraceEnds,
       SayDone, WaitersCancelled, outVars
  <2> QED BY <1>1, <2>1, <2>2, <2>3, <2>4 DEF Next, Pump
<1>2. [Next]_vars => [~reading /\ ~reading' => taken' = taken]_vars
  BY <1>1
<1> QED BY <1>2, PTL DEF Spec, PausedReadsNothing

\* For every bound: no signal goes out once `returncode` or `ready_f` says the
\* program was reaped (`reaped`, `send_signal`).
THEOREM KnownEndsAreLeftAlone == Spec => SignalsOnlyUnknownEnds
<1>1. ASSUME [Next]_vars, Reaped
      PROVE  misfired' = misfired
  <2>1. CASE Kill \/ GraceEnds \/ ReaperCancelled
    BY <1>1, <2>1 DEF Kill, GraceEnds, ReaperCancelled, SendKill
  <2>2. CASE HangUp
    BY <1>1, <2>2 DEF HangUp
  <2>3. CASE Program \/ Pump \/ Writer \/ Upgrade \/ UNCHANGED vars
    BY <2>3 DEF Program, ProgWrites, ProgReads, ProgEnds, SlaveLetGo, StrangerReaped, Writer,
       WriterWakes, WriterWrites, WriterFails, WriterCancelled, Pump, PumpStarts, PumpWoken,
       PumpReads, PumpFeedsHeld, PumpCancelled, Upgrade, UpgradePauses, UpgradeAborts, Exec,
       osVars, vars
  <2>4. CASE ReaperStarts \/ ThreadCollects \/ ThreadReturns \/ ReaperEnds
    BY <2>4 DEF ReaperStarts, ThreadCollects, ThreadReturns, ReaperEnds, osVars
  <2>5. CASE \/ \E k \in 1..2 : WriteBytes(k)
             \/ Suspend \/ Resume \/ Cancel \/ PayOwed \/ SayDone \/ WaitersCancelled
    BY <2>5 DEF WriteBytes, Suspend, Resume, Cancel, PayOwed, SayDone, WaitersCancelled, osVars
  <2> QED BY <1>1, <2>1, <2>2, <2>3, <2>4, <2>5 DEF Next, Reaper, Embedder
<1>2. [Next]_vars => [misfired' /\ ~misfired => ~coded /\ ~readyF]_vars
  BY <1>1 DEF Reaped
<1> QED BY <1>2, PTL DEF Spec, SignalsOnlyUnknownEnds

-----------------------------------------------------------------------------
\* The units from n + 1 to n + k are k units.
LEMMA UnitsType ==
  ASSUME NEW n \in Nat, NEW k \in Nat, n + k <= MaxIn
  PROVE  Units(n, k) \in Seq(1..MaxIn) /\ Len(Units(n, k)) = k
BY PtyAssumption DEF Units

LEMMA LeastType ==
  ASSUME NEW a \in Nat, NEW b \in Nat
  PROVE  Least(a, b) \in Nat /\ Least(a, b) <= a /\ Least(a, b) <= b
BY DEF Least

\* Nothing waits to be written to a master that is closed.
NoneWaitsOnAClosedMaster == ~master => unwritten = <<>>

InputInv == InputTypes /\ WrittenIffNothingWaits /\ NoneWaitsOnAClosedMaster

LEMMA SpaceType == ASSUME InputTypes PROVE Space \in Nat
BY PtyAssumption DEF InputTypes, Space

LEMMA InputStep == ASSUME InputInv, [Next]_vars PROVE InputInv'
<1> USE PtyAssumption
<1> USE DEF InputInv, InputTypes, WrittenIffNothingWaits, NoneWaitsOnAClosedMaster
<1>1. CASE UNCHANGED <<inVars, master>>
  BY <1>1 DEF inVars
<1>2. ASSUME Close PROVE InputInv'
  BY <1>2 DEF Close
<1>3. CASE ProgReads
  BY SMTT(30), <1>3 DEF ProgReads, outVars
<1>4. CASE Pump
  <2>1. Close \/ UNCHANGED <<inVars, master>>
    BY <1>4 DEF Pump, PumpStarts, PumpWoken, PumpReads, PumpFeedsHeld, PumpCancelled, LoopTest,
       PumpLeaves
  <2> QED BY <1>1, <1>2, <2>1
<1>5. CASE Writer
  <2>1. CASE WriterWakes
    <3>1. UNCHANGED <<inPty, got, given, unwritten, master>>
      BY <2>1 DEF WriterWakes, outVars
    <3>2. writer' \in {"waiting", "writing", "done"}
      BY <2>1 DEF WriterWakes
    <3>3. CASE unwritten # <<>>
      <4>1. master
        BY <3>3
      <4>2. written' <=> written
        BY <2>1, <3>3, <4>1 DEF WriterWakes
      <4> QED BY <3>1, <3>2, <4>2
    <3>4. CASE unwritten = <<>>
      BY <2>1, <3>1, <3>2, <3>4 DEF WriterWakes
    <3> QED BY <3>3, <3>4
  <2>2. CASE WriterWrites
    <3>1. Sendable \in Nat /\ Sendable <= Len(unwritten) /\ Sendable <= Space
      BY <2>2, LeastType DEF WriterWrites, Sendable, Space
    <3>2. /\ SubSeq(unwritten, 1, Sendable) \in Seq(1..MaxIn)
          /\ Len(SubSeq(unwritten, 1, Sendable)) = Sendable
          /\ SubSeq(unwritten, Sendable + 1, Len(unwritten)) \in Seq(1..MaxIn)
      BY <3>1
    <3>3. inPty' \in Seq(1..MaxIn) /\ Len(inPty') <= Room
      BY <2>2, <3>1, <3>2 DEF WriterWrites, Space
    <3>4. ~written
      BY <2>2 DEF WriterWrites
    <3>5. written' <=> unwritten' = <<>>
      BY <2>2, <3>4 DEF WriterWrites
    <3>6. writer' \in {"waiting", "writing"} /\ UNCHANGED <<got, given, master>>
      BY <2>2 DEF WriterWrites, outVars
    <3>7. unwritten' \in Seq(1..MaxIn)
      BY <2>2, <3>2 DEF WriterWrites
    <3>8. master
      BY <2>2 DEF WriterWrites
    <3> QED BY <3>3, <3>5, <3>6, <3>7, <3>8
  <2>3. CASE WriterFails
    BY <2>3 DEF WriterFails, outVars
  <2>4. CASE WriterCancelled
    BY <2>4 DEF WriterCancelled, outVars
  <2> QED BY <1>5, <2>1, <2>2, <2>3, <2>4 DEF Writer
<1>6. ASSUME NEW k \in 1..2, WriteBytes(k) PROVE InputInv'
  <2>1. given + k <= MaxIn /\ given' = given + k /\ UNCHANGED <<got, writer, master>>
    BY <1>6 DEF WriteBytes, outVars
  <2>2. CASE UNCHANGED <<inPty, unwritten, written>>
    BY <2>1, <2>2
  <2>3. CASE /\ master /\ unwritten # <<>> /\ unwritten' = unwritten \o Units(given, k)
             /\ UNCHANGED <<inPty, written>>
    <3>1. Units(given, k) \in Seq(1..MaxIn)
      BY <2>1, UnitsType
    <3>2. unwritten' \in Seq(1..MaxIn) /\ unwritten' # <<>>
      BY <2>3, <3>1
    <3> QED BY <2>1, <2>3, <3>2
  <2>4. CASE /\ master /\ unwritten = <<>> /\ inPty' = inPty \o Units(given, Least(k, Space))
             /\ Queue(Least(k, Space), k)
    <3> DEFINE n == Least(k, Space)
    <3>0. Space \in Nat
      BY SpaceType
    <3>1. Space \in Nat /\ n \in Nat /\ n <= k /\ n <= Space
      <4>1. k \in Nat
        OBVIOUS
      <4> HIDE DEF InputInv, InputTypes
      <4> QED BY <3>0, <4>1, LeastType
    <3>2. Units(given, n) \in Seq(1..MaxIn) /\ Len(Units(given, n)) = n
      <4>1. given \in Nat /\ given + n <= MaxIn
        BY <2>1, <3>1
      <4> QED BY <3>1, <4>1, UnitsType
    <3>3. Units(given + n, k - n) \in Seq(1..MaxIn) /\ Len(Units(given + n, k - n)) = k - n
      <4>1. given + n \in Nat /\ k - n \in Nat /\ (given + n) + (k - n) <= MaxIn
        BY SMTT(30), <2>1, <3>1
      <4> QED BY <4>1, UnitsType
    <3> HIDE DEF n
    <3>4. /\ inPty' = inPty \o Units(given, n)
          /\ unwritten' = unwritten \o Units(given + n, k - n)
          /\ written' = (written /\ n = k)
      BY <2>4 DEF n, Queue
    <3>5. inPty' \in Seq(1..MaxIn) /\ Len(inPty') <= Room
      <4>1. Len(inPty) + Len(Units(given, n)) <= Room
        BY <3>1, <3>2 DEF Space
      <4> QED BY <3>2, <3>4, <4>1
    <3>6. unwritten' \in Seq(1..MaxIn) /\ Len(unwritten') = k - n
      BY <2>4, <3>3, <3>4
    <3>7. k - n = 0 <=> n = k
      BY <3>1
    <3>8. Len(unwritten') = 0 <=> unwritten' = <<>>
      BY <3>6
    <3>9. written
      BY <2>4
    <3>10. written' <=> n = k
      BY <3>4, <3>9
    <3>11. written' <=> unwritten' = <<>>
      BY <3>6, <3>7, <3>8, <3>10
    <3> QED BY <2>1, <2>4, <3>5, <3>6, <3>11
  <2> QED BY <1>6, <2>2, <2>3, <2>4 DEF WriteBytes, Behind
<1>7. CASE Exec
  BY <1>7 DEF Exec
<1>8. CASE Reaper \/ UpgradePauses \/ UpgradeAborts \/ UNCHANGED vars
  BY <1>1, <1>8 DEF Reaper, ReaperStarts, ThreadCollects, ThreadReturns, ReaperEnds,
     ReaperCancelled, UpgradePauses, UpgradeAborts, vars, outVars
<1>9. CASE ProgWrites \/ ProgEnds \/ SlaveLetGo \/ StrangerReaped
  BY <1>1, <1>9 DEF ProgWrites, ProgEnds, SlaveLetGo, StrangerReaped, outVars
<1>10. CASE Kill \/ HangUp \/ Suspend \/ Resume \/ Cancel
  BY <1>1, <1>10 DEF Kill, HangUp, Suspend, Resume, Cancel, outVars
<1>11. CASE PayOwed \/ GraceEnds \/ SayDone \/ WaitersCancelled
  BY <1>1, <1>11 DEF PayOwed, GraceEnds, SayDone, WaitersCancelled, outVars
<1> QED BY <1>3, <1>4, <1>5, <1>6, <1>7, <1>8, <1>9, <1>10, <1>11 DEF Next, Program, Embedder, Upgrade

\* For every bound: the event `input_written` waits for is set exactly while
\* nothing waits to be written (`write_bytes`, `_write_the_rest`, `close`).
THEOREM InputWaitsEnd == Spec => []WrittenIffNothingWaits
<1>1. Init => InputInv
  BY PtyAssumption DEF Init, InputInv, InputTypes, WrittenIffNothingWaits, NoneWaitsOnAClosedMaster
<1> QED BY <1>1, InputStep, PTL DEF Spec, InputInv

-----------------------------------------------------------------------------
\* Whoever holds the slave side after the program's end held it before, or is
\* a child it left behind.
LEMMA HoldersType ==
  ASSUME slaves \subseteq {"host", "program", "heir"}
  PROVE  \A holders \in HoldersAfterTheEnd : holders \subseteq {"host", "program", "heir"}
BY DEF HoldersAfterTheEnd

\* What the signals and the reap leave of the program and of its terminal.
LEMMA SendKillType ==
  ASSUME EndTypes, NEW holders, SendKill(holders)
  PROVE  prog' \in {"running", "zombie", "freed"} /\ holders \subseteq {"host", "program", "heir"}
BY HoldersType DEF EndTypes, SendKill

LEMMA EndStep == ASSUME EndTypes, [Next]_vars PROVE EndTypes'
<1> USE PtyAssumption
<1>1. CASE UNCHANGED <<prog, slaves, reaper, thread, hangUps, graces>>
  BY <1>1 DEF EndTypes
<1>2. CASE Program
  BY <1>2, HoldersType DEF Program, ProgWrites, ProgReads, ProgEnds, SlaveLetGo, StrangerReaped,
     EndTypes, osVars, endVars, boundVars
<1>3. CASE Pump
  BY <1>1, <1>3 DEF Pump, PumpStarts, PumpWoken, PumpReads, PumpFeedsHeld, PumpCancelled, osVars,
     endVars, boundVars
<1>4. CASE Writer
  BY <1>1, <1>4 DEF Writer, WriterWakes, WriterWrites, WriterFails, WriterCancelled, osVars,
     endVars, boundVars
<1>5. CASE Reaper
  <2>1. CASE ReaperStarts \/ ThreadCollects \/ ThreadReturns \/ ReaperEnds
    BY <2>1 DEF ReaperStarts, ThreadCollects, ThreadReturns, ReaperEnds, ReaperFinally, EndTypes,
       osVars, boundVars
  <2>2. CASE ReaperCancelled
    <3>1. PICK holders : SendKill(holders) /\ ReaperFinally(holders)
      BY <2>2 DEF ReaperCancelled
    <3>2. prog' \in {"running", "zombie", "freed"} /\ slaves' \subseteq {"host", "program", "heir"}
      BY <3>1, SendKillType DEF ReaperFinally
    <3>3. reaper' = "done" /\ UNCHANGED <<thread, hangUps, graces>>
      BY <2>2, <3>1 DEF ReaperCancelled, ReaperFinally, boundVars
    <3> QED BY <3>2, <3>3 DEF EndTypes
  <2> QED BY <1>5, <2>1, <2>2 DEF Reaper
<1>6. CASE UpgradePauses \/ UpgradeAborts
  BY <1>1, <1>6 DEF UpgradePauses, UpgradeAborts, osVars, endVars, boundVars
<1>7. CASE Exec
  BY <1>7 DEF Exec, EndTypes
<1>8. CASE Kill \/ GraceEnds
  <2>1. prog' \in {"running", "zombie", "freed"} /\ slaves' \subseteq {"host", "program", "heir"}
    BY <1>8, SendKillType DEF Kill, GraceEnds
  <2>2. UNCHANGED <<reaper, thread, hangUps>> /\ (graces' = graces \/ (graces > 0 /\ graces' = graces - 1))
    BY <1>8 DEF Kill, GraceEnds, endVars, boundVars
  <2> QED BY <2>1, <2>2 DEF EndTypes
<1>9. CASE HangUp
  BY <1>9 DEF HangUp, EndTypes
<1>10. CASE WaitersCancelled
  BY <1>10 DEF WaitersCancelled, EndTypes, osVars, boundVars
<1>11. CASE \/ \E k \in 1..2 : WriteBytes(k)
            \/ Suspend \/ Resume \/ Cancel \/ PayOwed \/ SayDone \/ UNCHANGED vars
  BY <1>1, <1>11 DEF WriteBytes, Suspend, Resume, Cancel, PayOwed, SayDone, osVars, endVars,
     boundVars, vars
<1> QED BY <1>2, <1>3, <1>4, <1>5, <1>6, <1>7, <1>8, <1>9, <1>10, <1>11 DEF Next, Upgrade, Embedder

\* For every bound: what the pty holds, the pages, the states of the tasks and
\* the counts keep their types.  The flags, which are TypeOK's last part, are
\* left to TLC.
THEOREM TypesHold == Spec => [](InputTypes /\ OutputTypes /\ EndTypes /\ UpgradeTypes)
<1>1. Init => OutputInv
  BY OutputInit
<1>2. Init => InputInv
  BY PtyAssumption
     DEF Init, InputInv, InputTypes, WrittenIffNothingWaits, NoneWaitsOnAClosedMaster
<1>3. Init => EndTypes
  BY PtyAssumption DEF Init, EndTypes
<1>4. InputInv /\ OutputInv => InputTypes /\ OutputTypes /\ UpgradeTypes
  BY DEF InputInv, OutputInv
<1> QED BY <1>1, <1>2, <1>3, <1>4, InputStep, OutputStep, EndStep, PTL DEF Spec

-----------------------------------------------------------------------------
\* Units come in the order they were given in, and none of them is still to come.
Ordered(s) == \A i, j \in 1..Len(s) : i < j => s[i] < s[j]
Below(s, t) == \A i \in 1..Len(s), j \in 1..Len(t) : s[i] < t[j]
UpTo(s, n) == \A i \in 1..Len(s) : s[i] <= n

\* What the program read is before what the pty holds, and that before what waits.
InOrder(a, b, c, n) ==
  /\ Ordered(a) /\ Ordered(b) /\ Ordered(c)
  /\ Below(a, b) /\ Below(a, c) /\ Below(b, c)
  /\ UpTo(a, n) /\ UpTo(b, n) /\ UpTo(c, n)

\* d is b with f behind it.  A part is a sequence of numbers, and no more of it
\* is used than its length and its elements.
AreNats(s) == Len(s) \in Nat /\ \A i \in 1..Len(s) : s[i] \in Nat
Joins(d, b, f) ==
  /\ Len(d) = Len(b) + Len(f)
  /\ \A i \in 1..Len(b) : d[i] = b[i]
  /\ \A i \in 1..Len(f) : d[Len(b) + i] = f[i]

LEMMA JoinSplits ==
  ASSUME NEW b, NEW f, NEW d, Len(b) \in Nat, Len(f) \in Nat, Joins(d, b, f)
  PROVE  \A i \in 1..Len(d) : \/ i \in 1..Len(b) /\ d[i] = b[i]
                              \/ i - Len(b) \in 1..Len(f) /\ d[i] = f[i - Len(b)]
<1> SUFFICES ASSUME NEW i \in 1..Len(d)
             PROVE  \/ i \in 1..Len(b) /\ d[i] = b[i]
                    \/ i - Len(b) \in 1..Len(f) /\ d[i] = f[i - Len(b)]
  OBVIOUS
<1>1. CASE i <= Len(b)
  BY <1>1 DEF Joins
<1>2. CASE ~(i <= Len(b))
  <2>1. i - Len(b) \in 1..Len(f) /\ Len(b) + (i - Len(b)) = i
    BY <1>2 DEF Joins
  <2> QED BY <2>1 DEF Joins
<1> QED BY <1>1, <1>2

LEMMA JoinIsOrdered ==
  ASSUME NEW b, NEW f, NEW d, AreNats(b), AreNats(f), Joins(d, b, f),
         Ordered(b), Ordered(f), Below(b, f)
  PROVE  Ordered(d)
<1> USE DEF AreNats
<1> SUFFICES ASSUME NEW i \in 1..Len(d), NEW j \in 1..Len(d), i < j PROVE d[i] < d[j]
  BY DEF Ordered
<1>1. Len(d) \in Nat
  BY DEF Joins
<1>2. /\ \/ i \in 1..Len(b) /\ d[i] = b[i]
         \/ i - Len(b) \in 1..Len(f) /\ d[i] = f[i - Len(b)]
      /\ \/ j \in 1..Len(b) /\ d[j] = b[j]
         \/ j - Len(b) \in 1..Len(f) /\ d[j] = f[j - Len(b)]
  BY JoinSplits
<1>3. CASE i \in 1..Len(b) /\ d[i] = b[i] /\ j \in 1..Len(b) /\ d[j] = b[j]
  BY <1>3 DEF Ordered
<1>4. CASE i \in 1..Len(b) /\ d[i] = b[i] /\ j - Len(b) \in 1..Len(f) /\ d[j] = f[j - Len(b)]
  BY <1>4 DEF Below
<1>5. CASE i - Len(b) \in 1..Len(f) /\ d[i] = f[i - Len(b)] /\ j - Len(b) \in 1..Len(f) /\ d[j] = f[j - Len(b)]
  <2>1. i - Len(b) < j - Len(b)
    BY <1>1
  <2> QED BY <1>5, <2>1 DEF Ordered
<1>6. CASE i - Len(b) \in 1..Len(f) /\ j \in 1..Len(b)
  BY <1>1, <1>6
<1> QED BY <1>2, <1>3, <1>4, <1>5, <1>6

LEMMA JoinIsBetween ==
  ASSUME NEW b, NEW f, NEW d, NEW g, NEW n, Len(b) \in Nat, Len(f) \in Nat, Joins(d, b, f)
  PROVE  /\ Below(g, b) /\ Below(g, f) => Below(g, d)
         /\ Below(b, g) /\ Below(f, g) => Below(d, g)
         /\ UpTo(b, n) /\ UpTo(f, n) => UpTo(d, n)
<1>1. \A i \in 1..Len(d) : \/ i \in 1..Len(b) /\ d[i] = b[i]
                           \/ i - Len(b) \in 1..Len(f) /\ d[i] = f[i - Len(b)]
  BY JoinSplits
<1> QED BY <1>1 DEF Below, UpTo

\* A sequence cut in two.
LEMMA CutIsOrdered ==
  ASSUME NEW c, NEW f, NEW g, Len(f) \in Nat, Len(g) \in Nat, Joins(c, f, g), Ordered(c)
  PROVE  Ordered(f) /\ Ordered(g) /\ Below(f, g)
<1>1. \A i \in 1..Len(f) : i \in 1..Len(c) /\ c[i] = f[i]
  BY DEF Joins
<1>2. \A i \in 1..Len(g) : Len(f) + i \in 1..Len(c) /\ c[Len(f) + i] = g[i]
  BY DEF Joins
<1>3. Ordered(f)
  BY <1>1 DEF Ordered
<1>4. Ordered(g)
  <2> SUFFICES ASSUME NEW i \in 1..Len(g), NEW j \in 1..Len(g), i < j PROVE g[i] < g[j]
    BY DEF Ordered
  <2>1. Len(f) + i < Len(f) + j
    OBVIOUS
  <2> QED BY <1>2, <2>1 DEF Ordered
<1>5. Below(f, g)
  <2> SUFFICES ASSUME NEW i \in 1..Len(f), NEW j \in 1..Len(g) PROVE f[i] < g[j]
    BY DEF Below
  <2>1. i < Len(f) + j
    OBVIOUS
  <2> QED BY <1>1, <1>2, <2>1 DEF Ordered
<1> QED BY <1>3, <1>4, <1>5

LEMMA CutIsBetween ==
  ASSUME NEW c, NEW f, NEW g, NEW s, NEW n, Len(f) \in Nat, Len(g) \in Nat, Joins(c, f, g)
  PROVE  /\ Below(s, c) => Below(s, f) /\ Below(s, g)
         /\ Below(c, s) => Below(f, s) /\ Below(g, s)
         /\ UpTo(c, n) => UpTo(f, n) /\ UpTo(g, n)
<1>1. \A i \in 1..Len(f) : i \in 1..Len(c) /\ c[i] = f[i]
  BY DEF Joins
<1>2. \A i \in 1..Len(g) : Len(f) + i \in 1..Len(c) /\ c[Len(f) + i] = g[i]
  BY DEF Joins
<1> QED BY <1>1, <1>2 DEF Below, UpTo

\* A piece that moves from the front of one part to the end of the part before it:
\* d is b with f behind it, and c was f and g.
LEMMA MovesKeepOrder ==
  ASSUME NEW b, NEW c, NEW f, NEW g, NEW d, AreNats(b), AreNats(f), AreNats(g),
         Joins(d, b, f), Joins(c, f, g)
  PROVE  /\ \A a, n : InOrder(a, b, c, n) => InOrder(a, d, g, n)
         /\ \A e, n : InOrder(b, c, e, n) => InOrder(d, g, e, n)
<1>0. Len(b) \in Nat /\ Len(f) \in Nat /\ Len(g) \in Nat
  BY DEF AreNats
<1>1. ASSUME NEW s, NEW n
      PROVE  /\ Below(s, c) => Below(s, f) /\ Below(s, g)
             /\ Below(c, s) => Below(f, s) /\ Below(g, s)
             /\ UpTo(c, n) => UpTo(f, n) /\ UpTo(g, n)
  BY <1>0, CutIsBetween
<1>2. ASSUME NEW s, NEW n
      PROVE  /\ Below(s, b) /\ Below(s, f) => Below(s, d)
             /\ Below(b, s) /\ Below(f, s) => Below(d, s)
             /\ UpTo(b, n) /\ UpTo(f, n) => UpTo(d, n)
  BY <1>0, JoinIsBetween
<1>3. ASSUME Ordered(b), Ordered(c), Below(b, c)
      PROVE  Ordered(d) /\ Ordered(g) /\ Below(d, g)
  <2>1. Ordered(f) /\ Ordered(g) /\ Below(f, g)
    BY <1>0, <1>3, CutIsOrdered
  <2>2. Below(b, f) /\ Below(b, g)
    BY <1>1, <1>3
  <2>3. Ordered(d)
    BY <1>3, <2>1, <2>2, JoinIsOrdered
  <2>4. Below(d, g)
    BY <1>2, <2>1, <2>2
  <2> QED BY <2>1, <2>3, <2>4
<1>4. ASSUME NEW a, NEW n, InOrder(a, b, c, n)
      PROVE  InOrder(a, d, g, n)
  BY <1>1, <1>2, <1>3, <1>4 DEF InOrder
<1>5. ASSUME NEW e, NEW n, InOrder(b, c, e, n)
      PROVE  InOrder(d, g, e, n)
  BY <1>1, <1>2, <1>3, <1>5 DEF InOrder
<1> QED BY <1>4, <1>5

\* The units that are given next go to the end of what waits, or to the end of
\* what the pty holds when nothing waits.
LEMMA UnitsKeepOrder ==
  ASSUME NEW c, NEW d, NEW u, NEW n \in Nat, NEW k \in Nat,
         AreNats(c), Len(u) = k, \A i \in 1..k : u[i] = n + i, Joins(d, c, u)
  PROVE  /\ \A a, b : AreNats(a) /\ AreNats(b) /\ InOrder(a, b, c, n) => InOrder(a, b, d, n + k)
         /\ \A a : AreNats(a) /\ InOrder(a, c, <<>>, n) => InOrder(a, d, <<>>, n + k)
<1>1. AreNats(u) /\ Ordered(u) /\ UpTo(u, n + k)
  BY DEF AreNats, Ordered, UpTo
<1>2. ASSUME NEW s, AreNats(s), UpTo(s, n)
      PROVE  Below(s, u) /\ UpTo(s, n + k)
  BY <1>2 DEF AreNats, UpTo, Below
<1>3. Len(c) \in Nat /\ Len(u) \in Nat
  BY <1>1 DEF AreNats
<1>4. ASSUME Ordered(c), UpTo(c, n)
      PROVE  Ordered(d) /\ UpTo(d, n + k)
  <2>1. Below(c, u) /\ UpTo(c, n + k)
    BY <1>2, <1>4
  <2>2. Ordered(d)
    BY <1>1, <1>4, <2>1, JoinIsOrdered
  <2> QED BY <1>1, <1>3, <2>1, <2>2, JoinIsBetween
<1>5. ASSUME NEW s, AreNats(s), UpTo(s, n), Below(s, c)
      PROVE  Below(s, d) /\ UpTo(s, n + k)
  <2>1. Below(s, u) /\ UpTo(s, n + k)
    BY <1>2, <1>5
  <2> QED BY <1>3, <1>5, <2>1, JoinIsBetween
<1>6. ASSUME NEW a, NEW b, AreNats(a), AreNats(b), InOrder(a, b, c, n)
      PROVE  InOrder(a, b, d, n + k)
  BY <1>4, <1>5, <1>6 DEF InOrder
<1>7. ASSUME NEW a, AreNats(a), InOrder(a, c, <<>>, n)
      PROVE  InOrder(a, d, <<>>, n + k)
  <2>1. Ordered(<<>>) /\ Below(a, <<>>) /\ Below(d, <<>>) /\ UpTo(<<>>, n + k)
    BY DEF Ordered, Below, UpTo
  <2> QED BY <1>4, <1>5, <1>7, <2>1 DEF InOrder
<1> QED BY <1>6, <1>7

\* Units that are dropped, and what waited and is thrown away, leave a gap.
LEMMA GapsKeepOrder ==
  ASSUME NEW a, NEW b, NEW c, NEW n \in Nat, NEW k \in Nat,
         AreNats(a), AreNats(b), AreNats(c), InOrder(a, b, c, n)
  PROVE  InOrder(a, b, <<>>, n) /\ InOrder(a, b, c, n + k)
<1>1. ASSUME NEW s, AreNats(s), UpTo(s, n)
      PROVE  UpTo(s, n + k)
  BY <1>1 DEF AreNats, UpTo
<1>2. Ordered(<<>>) /\ Below(a, <<>>) /\ Below(b, <<>>) /\ UpTo(<<>>, n)
  BY DEF Ordered, Below, UpTo
<1> QED BY <1>1, <1>2 DEF InOrder

LEMMA ConcatJoins ==
  ASSUME NEW b \in Seq(Nat), NEW f \in Seq(Nat)
  PROVE  b \o f \in Seq(Nat) /\ Joins(b \o f, b, f)
BY DEF Joins

LEMMA CutJoins ==
  ASSUME NEW c \in Seq(Nat), NEW k \in 0..Len(c)
  PROVE  /\ SubSeq(c, 1, k) \in Seq(Nat) /\ SubSeq(c, k + 1, Len(c)) \in Seq(Nat)
         /\ Joins(c, SubSeq(c, 1, k), SubSeq(c, k + 1, Len(c)))
<1>1. Len(c) \in Nat /\ k \in Nat /\ k <= Len(c)
  OBVIOUS
<1>2. /\ SubSeq(c, 1, k) \in Seq(Nat) /\ Len(SubSeq(c, 1, k)) = k
      /\ \A i \in 1..k : SubSeq(c, 1, k)[i] = c[i]
  BY <1>1
<1>3. /\ SubSeq(c, k + 1, Len(c)) \in Seq(Nat) /\ Len(SubSeq(c, k + 1, Len(c))) = Len(c) - k
      /\ \A i \in 1..(Len(c) - k) : SubSeq(c, k + 1, Len(c))[i] = c[k + i]
  <2>1. /\ SubSeq(c, k + 1, Len(c)) \in Seq(Nat) /\ Len(SubSeq(c, k + 1, Len(c))) = Len(c) - k
        /\ \A i \in 1..(Len(c) - k) : SubSeq(c, k + 1, Len(c))[i] = c[(k + 1) + i - 1]
    BY <1>1
  <2>2. \A i \in 1..(Len(c) - k) : (k + 1) + i - 1 = k + i
    BY <1>1
  <2> QED BY <2>1, <2>2
<1> DEFINE f == SubSeq(c, 1, k)
           g == SubSeq(c, k + 1, Len(c))
<1> HIDE DEF f, g
<1>4. Len(f) = k /\ \A i \in 1..k : f[i] = c[i]
  BY <1>2 DEF f
<1>5. Len(g) = Len(c) - k /\ \A i \in 1..(Len(c) - k) : g[i] = c[k + i]
  BY <1>3 DEF g
<1>6. Joins(c, f, g)
  BY <1>1, <1>4, <1>5 DEF Joins
<1> QED BY <1>2, <1>3, <1>6 DEF f, g

LEMMA HeadJoins ==
  ASSUME NEW c \in Seq(Nat), c # <<>>
  PROVE  /\ <<Head(c)>> \in Seq(Nat) /\ Tail(c) \in Seq(Nat)
         /\ Joins(c, <<Head(c)>>, Tail(c))
         /\ \A b \in Seq(Nat) : Append(b, Head(c)) = b \o <<Head(c)>>
BY DEF Joins

LEMMA SequencesAreNats ==
  ASSUME NEW s \in Seq(Nat)
  PROVE  AreNats(s)
BY DEF AreNats

\* The whole is ordered when its parts are.
LEMMA WholeIsOrdered ==
  ASSUME NEW a \in Seq(Nat), NEW b \in Seq(Nat), NEW c \in Seq(Nat), NEW n, InOrder(a, b, c, n)
  PROVE  Ordered(a \o b \o c) /\ Len(a \o b \o c) = Len(a) + Len(b) + Len(c)
<1> DEFINE ab == a \o b
           abc == ab \o c
<1>1. ab \in Seq(Nat) /\ Joins(ab, a, b)
  BY ConcatJoins
<1>2. AreNats(a) /\ AreNats(b) /\ AreNats(c)
  BY SequencesAreNats
<1> HIDE DEF ab
<1>3. Joins(abc, ab, c)
  BY <1>1, ConcatJoins
<1>4. AreNats(ab)
  BY <1>1, SequencesAreNats
<1> HIDE DEF abc
<1>5. Ordered(ab)
  BY <1>1, <1>2, JoinIsOrdered DEF InOrder
<1>6. Below(ab, c)
  BY <1>1, <1>2, JoinIsBetween DEF InOrder, AreNats
<1>7. Ordered(abc)
  BY <1>2, <1>3, <1>4, <1>5, <1>6, JoinIsOrdered DEF InOrder
<1>8. Len(abc) = Len(a) + Len(b) + Len(c)
  BY <1>1, <1>3 DEF Joins
<1> QED BY <1>7, <1>8 DEF ab, abc

-----------------------------------------------------------------------------
\* The ways on for the input are open: to the program's side, in the image that
\* was given the input.
WayOpen == master /\ slaves # {} /\ image = 0

\* All the input is in order, and all there while the ways on are open.
WholeInv ==
  /\ InOrder(got, inPty, unwritten, given)
  /\ WayOpen => Len(got) + Len(inPty) + Len(unwritten) = given

\* The ways on do not open again.
LEMMA WayStaysShut ==
  ASSUME OutputInv, [Next]_vars, WayOpen'
  PROVE  WayOpen
<1>1. image \in Nat
  BY PtyAssumption DEF OutputInv, UpgradeTypes
<1>2. CASE UNCHANGED <<master, slaves, image>>
  BY <1>2 DEF WayOpen
<1>3. CASE Program
  BY <1>3 DEF Program, ProgWrites, ProgReads, ProgEnds, SlaveLetGo, StrangerReaped,
     HoldersAfterTheEnd, osVars, outVars, boundVars, WayOpen
<1>4. CASE Pump
  BY <1>4 DEF Pump, PumpStarts, PumpWoken, PumpReads, PumpFeedsHeld, PumpCancelled, LoopTest,
     PumpLeaves, Close, osVars, outVars, boundVars, WayOpen
<1>5. CASE Writer
  BY <1>2, <1>5 DEF Writer, WriterWakes, WriterWrites, WriterFails, WriterCancelled, osVars,
     outVars, boundVars
<1>6. CASE Reaper
  BY <1>6 DEF Reaper, ReaperStarts, ThreadCollects, ThreadReturns, ReaperEnds, ReaperCancelled,
     ReaperFinally, SendKill, HoldersAfterTheEnd, osVars, outVars, boundVars, WayOpen
<1>7. CASE UpgradePauses \/ UpgradeAborts
  BY <1>2, <1>7 DEF UpgradePauses, UpgradeAborts, osVars, boundVars
<1>8. CASE Exec
  BY <1>1, <1>8 DEF Exec, WayOpen
<1>9. CASE Kill \/ GraceEnds
  BY <1>9 DEF Kill, GraceEnds, SendKill, HoldersAfterTheEnd, outVars, boundVars, WayOpen
<1>10. CASE \/ \E k \in 1..2 : WriteBytes(k)
            \/ HangUp \/ Suspend \/ Resume \/ Cancel
  BY <1>2, <1>10 DEF WriteBytes, HangUp, Suspend, Resume, Cancel, osVars, outVars, boundVars
<1>11. CASE PayOwed \/ SayDone \/ WaitersCancelled \/ UNCHANGED vars
  BY <1>2, <1>11 DEF PayOwed, SayDone, WaitersCancelled, osVars, outVars, boundVars, vars
<1> QED BY <1>3, <1>4, <1>5, <1>6, <1>7, <1>8, <1>9, <1>10, <1>11 DEF Next, Upgrade, Embedder

LEMMA InputAreNats ==
  ASSUME InputTypes
  PROVE  /\ given \in Nat
         /\ got \in Seq(Nat) /\ inPty \in Seq(Nat) /\ unwritten \in Seq(Nat)
         /\ AreNats(got) /\ AreNats(inPty) /\ AreNats(unwritten)
<1>1. given \in Nat /\ 1..MaxIn \subseteq Nat
  BY PtyAssumption DEF InputTypes
<1>2. got \in Seq(Nat) /\ inPty \in Seq(Nat) /\ unwritten \in Seq(Nat)
  BY <1>1, SeqMonotonic DEF InputTypes
<1> QED BY <1>1, <1>2, SequencesAreNats

\* Space and units as numbers.
LEMMA UnitsAre ==
  ASSUME NEW n \in Nat, NEW k \in Nat
  PROVE  /\ Units(n, k) \in Seq(Nat) /\ Len(Units(n, k)) = k
         /\ \A i \in 1..k : Units(n, k)[i] = n + i
BY DEF Units

LEMMA WholeStep ==
  ASSUME OutputInv, InputInv, WholeInv, [Next]_vars
  PROVE  WholeInv'
<1>0. InputTypes /\ WrittenIffNothingWaits /\ NoneWaitsOnAClosedMaster
  BY DEF InputInv
<1>1. /\ given \in Nat
      /\ got \in Seq(Nat) /\ inPty \in Seq(Nat) /\ unwritten \in Seq(Nat)
      /\ AreNats(got) /\ AreNats(inPty) /\ AreNats(unwritten)
  BY <1>0, InputAreNats
<1>2. WayOpen' => WayOpen
  BY WayStaysShut
<1>3. CASE UNCHANGED <<got, inPty, unwritten, given>>
  BY <1>2, <1>3 DEF WholeInv
<1>4. CASE UNCHANGED <<got, inPty, given>> /\ unwritten' = <<>> /\ ~WayOpen'
  <2>1. InOrder(got, inPty, <<>>, given)
    BY <1>1, GapsKeepOrder DEF WholeInv
  <2> QED BY <1>4, <2>1 DEF WholeInv
<1>5. CASE ProgReads
  <2>1. /\ inPty # <<>> /\ got' = Append(got, Head(inPty)) /\ inPty' = Tail(inPty)
        /\ UNCHANGED <<unwritten, given>>
    BY <1>5 DEF ProgReads
  <2>2. /\ <<Head(inPty)>> \in Seq(Nat) /\ Tail(inPty) \in Seq(Nat)
        /\ Joins(inPty, <<Head(inPty)>>, Tail(inPty))
        /\ got' = got \o <<Head(inPty)>>
    BY <1>1, <2>1, HeadJoins
  <2>3. Joins(got', got, <<Head(inPty)>>) /\ AreNats(<<Head(inPty)>>) /\ AreNats(Tail(inPty))
    BY <1>1, <2>2, ConcatJoins, SequencesAreNats
  <2>4. InOrder(got', inPty', unwritten, given)
    BY <1>1, <2>1, <2>2, <2>3, MovesKeepOrder DEF WholeInv
  <2>5. Len(got') + Len(inPty') = Len(got) + Len(inPty)
    BY <1>1, <2>1, <2>2, <2>3 DEF Joins, AreNats
  <2> QED BY <1>1, <1>2, <2>1, <2>4, <2>5 DEF WholeInv
<1>6. CASE WriterWrites
  <2> DEFINE k == Sendable
  <2>1. /\ inPty' = inPty \o SubSeq(unwritten, 1, k)
        /\ unwritten' = SubSeq(unwritten, k + 1, Len(unwritten))
        /\ UNCHANGED <<got, given>>
    BY <1>6 DEF WriterWrites
  <2>2. k \in 0..Len(unwritten)
    <3>1. Space \in Nat /\ Len(unwritten) \in Nat
      BY <1>0, <1>1, SpaceType DEF AreNats
    <3>2. Least(Len(unwritten), Space) \in Nat /\ Least(Len(unwritten), Space) <= Len(unwritten)
      BY <3>1, LeastType
    <3> QED BY <3>1, <3>2 DEF Sendable
  <2> HIDE DEF k
  <2>3. /\ SubSeq(unwritten, 1, k) \in Seq(Nat) /\ unwritten' \in Seq(Nat)
        /\ Joins(unwritten, SubSeq(unwritten, 1, k), unwritten')
    BY <1>1, <2>1, <2>2, CutJoins
  <2>4. inPty' \in Seq(Nat) /\ Joins(inPty', inPty, SubSeq(unwritten, 1, k))
    BY <1>1, <2>1, <2>3, ConcatJoins
  <2>5. AreNats(SubSeq(unwritten, 1, k)) /\ AreNats(unwritten') /\ AreNats(inPty')
    BY <2>3, <2>4, SequencesAreNats
  <2>6. InOrder(got, inPty', unwritten', given)
    BY <1>1, <2>3, <2>4, <2>5, MovesKeepOrder DEF WholeInv
  <2>7. Len(inPty') + Len(unwritten') = Len(inPty) + Len(unwritten)
    BY <1>1, <2>3, <2>4, <2>5 DEF Joins, AreNats
  <2>8. Len(got) + Len(inPty') + Len(unwritten') = Len(got) + Len(inPty) + Len(unwritten)
    <3>1. Len(got) \in Nat /\ Len(inPty) \in Nat /\ Len(unwritten) \in Nat
      BY <1>1 DEF AreNats
    <3>2. Len(inPty') \in Nat /\ Len(unwritten') \in Nat
      BY <2>5 DEF AreNats
    <3> QED BY <2>7, <3>1, <3>2
  <2> QED BY <1>2, <2>1, <2>6, <2>8 DEF WholeInv
<1>7. ASSUME NEW k \in 1..2, WriteBytes(k) PROVE WholeInv'
  <2>0. k \in Nat
    OBVIOUS
  <2>1. given' = given + k /\ got' = got /\ UNCHANGED <<master, slaves, image>>
    BY <1>7 DEF WriteBytes, osVars, outVars, boundVars
  <2>2. CASE (~master \/ slaves = {}) /\ UNCHANGED <<inPty, unwritten>>
    <3>1. InOrder(got, inPty, unwritten, given + k)
      BY <1>1, <2>0, GapsKeepOrder DEF WholeInv
    <3>2. ~WayOpen'
      BY <1>2, <2>2 DEF WayOpen
    <3> QED BY <2>1, <2>2, <3>1, <3>2 DEF WholeInv
  <2>3. CASE unwritten' = unwritten \o Units(given, k) /\ inPty' = inPty
    <3>1. /\ Units(given, k) \in Seq(Nat) /\ Len(Units(given, k)) = k
          /\ \A i \in 1..k : Units(given, k)[i] = given + i
      BY <1>1, <2>0, UnitsAre
    <3>2. Joins(unwritten', unwritten, Units(given, k))
      BY <1>1, <2>3, <3>1, ConcatJoins
    <3>3. InOrder(got, inPty, unwritten', given + k)
      BY <1>1, <2>0, <3>1, <3>2, UnitsKeepOrder DEF WholeInv
    <3>4. Len(unwritten') = Len(unwritten) + k
      BY <3>1, <3>2 DEF Joins
    <3> QED BY <1>1, <1>2, <2>1, <2>3, <3>3, <3>4 DEF WholeInv, AreNats
  <2>4. CASE /\ unwritten = <<>> /\ inPty' = inPty \o Units(given, Least(k, Space))
             /\ Queue(Least(k, Space), k)
    <3> DEFINE n == Least(k, Space)
    <3>1. n \in Nat /\ n <= k
      <4>1. Space \in Nat /\ k \in Nat
        BY <1>0, SpaceType
      <4> QED BY <4>1, LeastType
    <3> HIDE DEF n
    <3>2. inPty' = inPty \o Units(given, n) /\ unwritten' = <<>> \o Units(given + n, k - n)
      BY <2>4 DEF Queue, n
    <3>3. given + n \in Nat /\ k - n \in Nat /\ (given + n) + (k - n) = given + k
      BY <1>1, <3>1
    <3>4. /\ Units(given, n) \in Seq(Nat) /\ Len(Units(given, n)) = n
          /\ \A i \in 1..n : Units(given, n)[i] = given + i
      BY <1>1, <3>1, UnitsAre
    <3>5. /\ Units(given + n, k - n) \in Seq(Nat) /\ Len(Units(given + n, k - n)) = k - n
          /\ \A i \in 1..(k - n) : Units(given + n, k - n)[i] = (given + n) + i
      BY <3>3, UnitsAre
    <3>6. inPty' \in Seq(Nat) /\ Joins(inPty', inPty, Units(given, n)) /\ AreNats(inPty')
      BY <1>1, <3>2, <3>4, ConcatJoins, SequencesAreNats
    <3>7. <<>> \in Seq(Nat) /\ Joins(unwritten', <<>>, Units(given + n, k - n)) /\ AreNats(<<>>)
      <4>1. <<>> \in Seq(Nat)
        OBVIOUS
      <4> QED BY <3>2, <3>5, <4>1, ConcatJoins, SequencesAreNats
    <3>8. InOrder(got, inPty', <<>>, given + n)
      BY <1>1, <2>4, <3>1, <3>4, <3>6, UnitsKeepOrder DEF WholeInv
    <3>9. InOrder(got, inPty', unwritten', (given + n) + (k - n))
      BY <1>1, <3>3, <3>5, <3>6, <3>7, <3>8, UnitsKeepOrder
    <3>10. Len(inPty') = Len(inPty) + n /\ Len(unwritten') = Len(unwritten) + (k - n)
      BY <2>4, <3>4, <3>5, <3>6, <3>7 DEF Joins
    <3>11. Len(got) + Len(inPty') + Len(unwritten') = Len(got) + Len(inPty) + Len(unwritten) + k
      <4>1. Len(got) \in Nat /\ Len(inPty) \in Nat /\ Len(unwritten) \in Nat
        BY <1>1 DEF AreNats
      <4> QED BY <2>0, <3>1, <3>10, <4>1
    <3> QED BY <1>1, <1>2, <2>1, <3>3, <3>9, <3>11 DEF WholeInv
  <2> QED BY <1>7, <2>2, <2>3, <2>4 DEF WriteBytes, Behind
<1>8. CASE Pump
  <2>1. Close \/ UNCHANGED <<inVars, master>>
    BY <1>8 DEF Pump, PumpStarts, PumpWoken, PumpReads, PumpFeedsHeld, PumpCancelled, LoopTest,
       PumpLeaves
  <2>2. CASE Close
    BY <1>4, <2>2 DEF Close, WayOpen
  <2> QED BY <1>3, <2>1, <2>2 DEF inVars
<1>9. CASE WriterFails
  <2>1. ~WayOpen'
    BY <1>2, <1>9 DEF WriterFails, WayOpen
  <2> QED BY <1>4, <1>9, <2>1 DEF WriterFails
<1>10. CASE Exec
  <2>1. ~WayOpen'
    BY PtyAssumption, <1>10 DEF Exec, WayOpen, OutputInv, UpgradeTypes
  <2> QED BY <1>4, <1>10, <2>1 DEF Exec
<1>11. CASE WriterWakes \/ WriterCancelled \/ UpgradePauses \/ UpgradeAborts \/ UNCHANGED vars
  BY <1>3, <1>11 DEF WriterWakes, WriterCancelled, UpgradePauses, UpgradeAborts, inVars, vars
<1>12. CASE Reaper
  BY <1>3, <1>12 DEF Reaper, ReaperStarts, ThreadCollects, ThreadReturns, ReaperEnds,
     ReaperCancelled, inVars
<1>13. CASE ProgWrites \/ ProgEnds \/ SlaveLetGo \/ StrangerReaped
  BY <1>3, <1>13 DEF ProgWrites, ProgEnds, SlaveLetGo, StrangerReaped, inVars
<1>14. CASE Kill \/ HangUp \/ Suspend \/ Resume \/ Cancel
  BY <1>3, <1>14 DEF Kill, HangUp, Suspend, Resume, Cancel, inVars
<1>15. CASE PayOwed \/ GraceEnds \/ SayDone \/ WaitersCancelled
  BY <1>3, <1>15 DEF PayOwed, GraceEnds, SayDone, WaitersCancelled, inVars
<1> QED BY <1>5, <1>6, <1>7, <1>8, <1>9, <1>10, <1>11, <1>12, <1>13, <1>14, <1>15
        DEF Next, Program, Writer, Embedder, Upgrade

\* For every bound: the program reads the input in the order it was given, and
\* while its terminal and this image are there nothing of it is missing, whatever
\* went to the pty at once and whatever waited (`write_bytes`, `_write_the_rest`).
THEOREM InputArrivesWhole == Spec => []InputIsWhole
<1>1. Init => InputInv /\ WholeInv
  BY PtyAssumption DEF Init, InputInv, InputTypes, WrittenIffNothingWaits, NoneWaitsOnAClosedMaster,
     WholeInv, InOrder, Ordered, Below, UpTo
<1>2. InputInv /\ WholeInv => InputIsWhole
  <2> SUFFICES ASSUME InputInv, WholeInv PROVE InputIsWhole
    OBVIOUS
  <2>1. got \in Seq(Nat) /\ inPty \in Seq(Nat) /\ unwritten \in Seq(Nat)
    BY InputAreNats DEF InputInv
  <2>2. /\ Ordered(got \o inPty \o unwritten)
        /\ Len(got \o inPty \o unwritten) = Len(got) + Len(inPty) + Len(unwritten)
    BY <2>1, WholeIsOrdered DEF WholeInv
  <2> QED BY <2>2 DEF InputIsWhole, Ordered, WholeInv, WayOpen
<1> QED BY <1>1, <1>2, OutputInit, OutputStep, InputStep, WholeStep, PTL DEF Spec
=============================================================================
