--------------------------- MODULE SshClientProofs ---------------------------
(***************************************************************************)
(* Proofs about SshClient, for any number of sessions: what a result       *)
(* means, and what may be running on the machine.                          *)
(***************************************************************************)
EXTENDS SshClient, TLAPS

\* A client that is not connected has made no session.
NoConnection ==
  /\ conn = "nil" => n = 0 /\ pc = "idle"
  /\ op = "none" => ret = "none" /\ pc = "idle"

\* A session beyond the last one is untouched; an open one is that of the
\* transfer, or of the command the call waits for.
SessionsInUse ==
  /\ \A k \in Sessions : k > n =>
       runner[k] = "none" /\ errChan[k] = "empty" /\ remote[k] = "none"
  /\ \A k \in Sessions : sess[k] = "open" => k = upload \/ (pc = "select" /\ k = n)
  /\ pc = "select" /\ upload # n => sess[n] = "open"

\* Where the call is, and the session of the transfer.
CallState ==
  /\ pc = "idle" => upload = 0
  /\ pc = "close" => upload > 0
  /\ pc = "create" => upload = n /\ op = "Upload" /\ runner[n] = "none"
  /\ pc = "select" => op = "Exec" \/ upload > 0
  /\ upload > 0 => runner[upload] \in { "none", "copying", "done" }

\* What the runner of a session knows of its command.
RunnerState ==
  \A k \in Sessions :
    /\ runner[k] \in { "none", "ready", "copying" } => remote[k] = "none"
    /\ errChan[k] # "empty" => runner[k] = "done"
    /\ errChan[k] # "empty" /\ conn = "up" /\ ~ cancelled => remote[k] \notin { "asked", "running" }

\* A result without error, from the runner to the return of the call.
ResultState ==
  /\ pc = "select" /\ upload # n =>
       runner[n] # "copying" /\ (errChan[n] = "nil" => remote[n] = "ok")
  /\ upload > 0 /\ (upload < n \/ pc = "open" \/ errChan[upload] = "nil") => file = "whole"
  /\ pc = "close" /\ ret = "nil" => remote[n] = "ok" /\ file = "whole"
  /\ pc = "idle" /\ ret = "nil" /\ conn # "nil" => n > 0

\* The inductive invariant.
SshInv ==
  /\ TypeOK /\ NoConnection /\ SessionsInUse /\ CallState /\ RunnerState
  /\ ResultState /\ NoOrphan /\ NilMeansDone

\* The invariant is inductive.
LEMMA SshInvStep ==
  ASSUME SshInv, [Next]_vars
  PROVE  SshInv'
<1> USE SshAssumption DEF SshInv
<1>1. CASE NewClient
  <2>1. TypeOK' /\ NoConnection' /\ SessionsInUse' /\ CallState'
    BY <1>1 DEF NewClient, call, session, TypeOK, NoConnection, SessionsInUse,
       CallState, Sessions
  <2>2. RunnerState'
    BY <1>1 DEF NewClient, call, session, TypeOK, NoConnection, SessionsInUse,
       RunnerState, Sessions
  <2>3. ResultState'
    BY <1>1 DEF NewClient, call, session, TypeOK, NoConnection, ResultState, Sessions
  <2>4. NoOrphan'
    BY <1>1 DEF NewClient, call, session, TypeOK, NoConnection, SessionsInUse, NoOrphan,
       Sessions
  <2>5. NilMeansDone'
    BY <1>1 DEF NewClient, call, session, TypeOK, NoConnection, NilMeansDone, Sessions
  <2> QED
    BY <2>1, <2>2, <2>3, <2>4, <2>5
<1>2. CASE ExecNilClient
  BY <1>2 DEF ExecNilClient, session, TypeOK, NoConnection, SessionsInUse, CallState,
     RunnerState, ResultState, NoOrphan, NilMeansDone, Sessions
<1>3. CASE Exec \/ Upload
  <2>1. /\ TypeOK' /\ NoConnection' /\ SessionsInUse' /\ CallState'
        /\ RunnerState' /\ NoOrphan' /\ NilMeansDone'
    BY <1>3 DEF Exec, Upload, Begin, session, TypeOK, NoConnection, SessionsInUse,
       CallState, RunnerState, NoOrphan, NilMeansDone, Sessions
  <2>2. ResultState'
    BY <1>3 DEF Exec, Upload, Begin, session, TypeOK, CallState, ResultState, Sessions
  <2> QED
    BY <2>1, <2>2
<1>4. CASE NoSession
  BY <1>4 DEF NoSession, Leave, Return, Answers, session, TypeOK, NoConnection,
     SessionsInUse, CallState, RunnerState, ResultState, NoOrphan, NilMeansDone,
     Sessions
<1>5. CASE NewSession
  <2>1. /\ TypeOK' /\ NoConnection' /\ SessionsInUse' /\ CallState'
        /\ NoOrphan' /\ NilMeansDone'
    BY <1>5 DEF NewSession, Answers, TypeOK, NoConnection, SessionsInUse, CallState,
       NoOrphan, NilMeansDone, Sessions
  <2>2. RunnerState'
    BY <1>5 DEF NewSession, Answers, TypeOK, SessionsInUse, RunnerState, Sessions
  <2>3. ResultState'
    BY <1>5 DEF NewSession, Answers, TypeOK, SessionsInUse, ResultState, Sessions
  <2> QED
    BY <2>1, <2>2, <2>3
<1>6. CASE SftpRefused
  <2>1. TypeOK'
    BY <1>6 DEF SftpRefused, Return, Answers, TypeOK,
       Sessions
  <2>2. NoConnection'
    BY <1>6 DEF SftpRefused, Return, Answers, TypeOK, NoConnection,
       Sessions
  <2>3. SessionsInUse'
    BY <1>6 DEF SftpRefused, Return, Answers, TypeOK, SessionsInUse,
       Sessions
  <2>4. CallState'
    BY <1>6 DEF SftpRefused, Return, Answers, TypeOK, SessionsInUse, CallState,
       Sessions
  <2>5. RunnerState'
    BY <1>6 DEF SftpRefused, Return, Answers, TypeOK, SessionsInUse, RunnerState,
       Sessions
  <2>6. ResultState'
    BY <1>6 DEF SftpRefused, Return, Answers, TypeOK, SessionsInUse, ResultState,
       Sessions
  <2>7. NoOrphan'
    BY <1>6 DEF SftpRefused, Return, Answers, TypeOK, NoOrphan,
       Sessions
  <2>8. NilMeansDone'
    BY <1>6 DEF SftpRefused, Return, Answers, TypeOK, NilMeansDone,
       Sessions
  <2> QED
    BY <2>1, <2>2, <2>3, <2>4, <2>5, <2>6, <2>7, <2>8
<1>7. CASE NewSftp
  <2>1. TypeOK'
    BY <1>7 DEF NewSftp, Answers, TypeOK,
       Sessions
  <2>2. NoConnection'
    BY <1>7 DEF NewSftp, Answers, TypeOK, NoConnection,
       Sessions
  <2>3. SessionsInUse'
    BY <1>7 DEF NewSftp, Answers, TypeOK, SessionsInUse,
       Sessions
  <2>4. CallState'
    BY <1>7 DEF NewSftp, Answers, TypeOK, SessionsInUse, CallState,
       Sessions
  <2>5. RunnerState'
    BY <1>7 DEF NewSftp, Answers, TypeOK, SessionsInUse, RunnerState,
       Sessions
  <2>6. ResultState'
    BY <1>7 DEF NewSftp, Answers, TypeOK, SessionsInUse, ResultState,
       Sessions
  <2>7. NoOrphan'
    BY <1>7 DEF NewSftp, Answers, TypeOK, NoOrphan,
       Sessions
  <2>8. NilMeansDone'
    BY <1>7 DEF NewSftp, Answers, TypeOK, NilMeansDone,
       Sessions
  <2> QED
    BY <2>1, <2>2, <2>3, <2>4, <2>5, <2>6, <2>7, <2>8
<1>8. CASE CreateFails
  <2>1. TypeOK'
    BY <1>8 DEF CreateFails, Answers, session, TypeOK,
       Sessions
  <2>2. NoConnection'
    BY <1>8 DEF CreateFails, Answers, session, TypeOK, NoConnection,
       Sessions
  <2>3. SessionsInUse'
    BY <1>8 DEF CreateFails, Answers, session, TypeOK, SessionsInUse, CallState,
       Sessions
  <2>4. CallState'
    BY <1>8 DEF CreateFails, Answers, session, TypeOK, SessionsInUse, CallState,
       Sessions
  <2>5. RunnerState'
    BY <1>8 DEF CreateFails, Answers, session, TypeOK, SessionsInUse, RunnerState, CallState,
       Sessions
  <2>6. ResultState'
    BY <1>8 DEF CreateFails, Answers, session, TypeOK, CallState, RunnerState, ResultState,
       Sessions
  <2>7. NoOrphan'
    BY <1>8 DEF CreateFails, Answers, session, TypeOK, NoOrphan,
       Sessions
  <2>8. NilMeansDone'
    BY <1>8 DEF CreateFails, Answers, session, TypeOK, NilMeansDone,
       Sessions
  <2> QED
    BY <2>1, <2>2, <2>3, <2>4, <2>5, <2>6, <2>7, <2>8
<1>9. CASE CreateFile
  <2>1. TypeOK'
    BY <1>9 DEF CreateFile, Answers, TypeOK,
       Sessions
  <2>2. NoConnection'
    BY <1>9 DEF CreateFile, Answers, TypeOK, NoConnection,
       Sessions
  <2>3. SessionsInUse'
    BY <1>9 DEF CreateFile, Answers, TypeOK, SessionsInUse, CallState,
       Sessions
  <2>4. CallState'
    BY <1>9 DEF CreateFile, Answers, TypeOK, SessionsInUse, CallState,
       Sessions
  <2>5. RunnerState'
    BY <1>9 DEF CreateFile, Answers, TypeOK, SessionsInUse, RunnerState, CallState,
       Sessions
  <2>6. ResultState'
    BY <1>9 DEF CreateFile, Answers, TypeOK, CallState, RunnerState, ResultState,
       Sessions
  <2>7. NoOrphan'
    BY <1>9 DEF CreateFile, Answers, TypeOK, NoOrphan,
       Sessions
  <2>8. NilMeansDone'
    BY <1>9 DEF CreateFile, Answers, TypeOK, NilMeansDone,
       Sessions
  <2> QED
    BY <2>1, <2>2, <2>3, <2>4, <2>5, <2>6, <2>7, <2>8
<1>10. CASE ReceiveResult
  <2>1. /\ TypeOK' /\ NoConnection' /\ SessionsInUse' /\ CallState'
        /\ RunnerState' /\ ResultState'
    BY <1>10 DEF ReceiveResult, ExecReturns, CloseSession, Leave, Return, TypeOK,
       NoConnection, SessionsInUse, CallState, RunnerState, ResultState, Sessions
  <2>2. NoOrphan'
    BY <1>10 DEF ReceiveResult, ExecReturns, CloseSession, Leave, Return, TypeOK,
       RunnerState, NoOrphan, Sessions
  <2>3. NilMeansDone'
    BY <1>10 DEF ReceiveResult, ExecReturns, CloseSession, Leave, Return, TypeOK,
       CallState, ResultState, NilMeansDone, Sessions
  <2> QED
    BY <2>1, <2>2, <2>3
<1>11. CASE ContextDone
  BY <1>11 DEF ContextDone, ExecReturns, CloseSession, Leave, Return, TypeOK,
     NoConnection, SessionsInUse, CallState, RunnerState, ResultState, NoOrphan,
     NilMeansDone, Sessions
<1>12. CASE CloseFile
  <2>1. /\ NoConnection' /\ SessionsInUse' /\ CallState' /\ RunnerState'
        /\ ResultState' /\ NoOrphan'
    BY <1>12 DEF CloseFile, Return, Answers, TypeOK, NoConnection, SessionsInUse,
       CallState, RunnerState, ResultState, NoOrphan, Sessions
  <2>2. TypeOK'
    BY <1>12 DEF CloseFile, Return, Answers, TypeOK, CallState, Sessions
  <2>3. NilMeansDone'
    BY <1>12 DEF CloseFile, Return, Answers, TypeOK, ResultState, NilMeansDone, Sessions
  <2> QED
    BY <2>1, <2>2, <2>3
<1>13. ASSUME NEW k \in Sessions, RequestCommand(k) PROVE SshInv'
  <2>1. NoConnection' /\ SessionsInUse' /\ CallState' /\ RunnerState'
    BY <1>13 DEF RequestCommand, Report, call, TypeOK, NoConnection, SessionsInUse,
       CallState, RunnerState, Sessions
  <2>2. TypeOK'
    <3>1. CASE /\ runner' = [runner EXCEPT ![k] = "running"]
               /\ remote' = [remote EXCEPT ![k] = "asked"]
               /\ UNCHANGED errChan
      BY <1>13, <3>1 DEF RequestCommand, call, TypeOK
    <3>2. CASE Report(k, "error") /\ UNCHANGED remote
      BY <1>13, <3>2 DEF RequestCommand, Report, call, TypeOK
    <3> QED
      BY <1>13, <3>1, <3>2 DEF RequestCommand
  <2>3. ResultState'
    BY <1>13 DEF RequestCommand, Report, call, TypeOK, RunnerState, ResultState,
       Sessions
  <2>4. NoOrphan'
    BY <1>13 DEF RequestCommand, Report, call, TypeOK, SessionsInUse, CallState,
       NoOrphan, Sessions
  <2>5. NilMeansDone'
    BY <1>13 DEF RequestCommand, Report, call, TypeOK, SessionsInUse, CallState,
       NilMeansDone, Sessions
  <2> QED
    BY <2>1, <2>2, <2>3, <2>4, <2>5
<1>14. ASSUME NEW k \in Sessions, RunEnds(k) PROVE SshInv'
  <2>1. /\ TypeOK' /\ NoConnection' /\ SessionsInUse' /\ CallState'
        /\ NoOrphan' /\ NilMeansDone'
    BY <1>14 DEF RunEnds, Report, Answers, call, TypeOK, NoConnection, SessionsInUse,
       CallState, NoOrphan, NilMeansDone, Sessions
  <2>2. RunnerState'
    BY <1>14 DEF RunEnds, Report, Answers, call, TypeOK, SessionsInUse, CallState,
       RunnerState, NoOrphan, Sessions
  <2>3. ResultState'
    BY <1>14 DEF RunEnds, Report, Answers, call, TypeOK, CallState, ResultState,
       Sessions
  <2> QED
    BY <2>1, <2>2, <2>3
<1>15. ASSUME NEW k \in Sessions, CopyEnds(k) PROVE SshInv'
  BY <1>15 DEF CopyEnds, Report, Answers, call, TypeOK, NoConnection, SessionsInUse,
     CallState, RunnerState, ResultState, NoOrphan, NilMeansDone, Sessions
<1>16. ASSUME NEW k \in Sessions, CopyFails(k) PROVE SshInv'
  BY <1>16 DEF CopyFails, Report, Answers, call, TypeOK, NoConnection, SessionsInUse,
     CallState, RunnerState, ResultState, NoOrphan, NilMeansDone, Sessions
<1>17. ASSUME NEW k \in Sessions, CommandStarts(k) PROVE SshInv'
  BY <1>17 DEF CommandStarts, Answers, call, TypeOK, NoConnection, SessionsInUse,
     CallState, RunnerState, ResultState, NoOrphan, NilMeansDone, Sessions
<1>18. ASSUME NEW k \in Sessions, CommandEnds(k) PROVE SshInv'
  BY <1>18 DEF CommandEnds, call, TypeOK, NoConnection, SessionsInUse, CallState,
     RunnerState, ResultState, NoOrphan, NilMeansDone, Sessions
<1>19. CASE Hang \/ Resume \/ Break
  BY <1>19 DEF Hang, Resume, Break, call, session, TypeOK, NoConnection, SessionsInUse,
     CallState, RunnerState, ResultState, NoOrphan, NilMeansDone, Sessions
<1>20. CASE Cancel
  <2>1. TypeOK'
    BY <1>20, Zenon DEF Cancel, call, session, TypeOK
  <2>2. /\ NoConnection' /\ SessionsInUse' /\ CallState' /\ RunnerState'
        /\ ResultState' /\ NoOrphan' /\ NilMeansDone'
    BY <1>20 DEF Cancel, call, session, TypeOK, NoConnection, SessionsInUse, CallState,
       RunnerState, ResultState, NoOrphan, NilMeansDone, Sessions
  <2> QED
    BY <2>1, <2>2
<1>21. CASE UNCHANGED vars
  BY <1>21 DEF vars, call, session, TypeOK, NoConnection, SessionsInUse, CallState,
     RunnerState, ResultState, NoOrphan, NilMeansDone
<1> QED
  BY <1>1, <1>2, <1>3, <1>4, <1>5, <1>6, <1>7, <1>8, <1>9, <1>10, <1>11, <1>12,
     <1>13, <1>14, <1>15, <1>16, <1>17, <1>18, <1>19, <1>20, <1>21 DEF Next, Caller, Runner, GiveUp

\* Before the connection is made there is nothing.
LEMMA SshInvInit == Init => SshInv
<1> SUFFICES ASSUME Init PROVE SshInv
  OBVIOUS
<1>1. cancelled \in BOOLEAN
  BY Zenon DEF Init
<1>2. TypeOK
  BY <1>1, SshAssumption DEF Init, TypeOK, Sessions
<1>3. NoConnection /\ SessionsInUse /\ CallState /\ NilMeansDone
  BY <1>2 DEF Init, TypeOK, NoConnection, SessionsInUse, CallState, NilMeansDone
<1>4. RunnerState /\ ResultState /\ NoOrphan
  BY <1>2 DEF Init, TypeOK, RunnerState, ResultState, NoOrphan
<1> QED
  BY <1>2, <1>3, <1>4 DEF SshInv

\* The types of the client, its sessions and goroutines, for any number of
\* sessions.
THEOREM SshTypeCorrect == Spec => []TypeOK
<1>1. SshInv => TypeOK
  BY DEF SshInv
<1> QED
  BY <1>1, SshInvInit, SshInvStep, PTL DEF Spec

\* On a connected client, a call that returns without error has done what it
\* was asked for.
THEOREM ResultsCorrect == Spec => []NilMeansDone
<1>1. SshInv => NilMeansDone
  BY DEF SshInv
<1> QED
  BY <1>1, SshInvInit, SshInvStep, PTL DEF Spec

\* A call that has returned has closed every session it has got hold of, the
\* one of the transfer and the one of the chmod after it included, from each
\* of its exits.
THEOREM NoSessionLeft == Spec => []SessionsAreClosed
<1>1. SshInv => SessionsAreClosed
  BY DEF SshInv, SessionsInUse, CallState, SessionsAreClosed, Sessions
<1> QED
  BY <1>1, SshInvInit, SshInvStep, PTL DEF Spec

\* While the connection lives and the context is not done, the machine works
\* on no command but that of the call under way.
THEOREM NothingLeftBehind == Spec => []NoOrphan
<1>1. SshInv => NoOrphan
  BY DEF SshInv
<1> QED
  BY <1>1, SshInvInit, SshInvStep, PTL DEF Spec

\* A runner that comes late starts nothing: what it would run in is closed.
THEOREM LateRunnersCorrect == Spec => NothingStartsLate
<1> DEFINE InTime == \A k \in Sessions :
      remote[k] = "none" /\ remote'[k] # "none" => pc = "select" /\ n = k
<1>1. ASSUME SshInv, [Next]_vars PROVE InTime
  <2> SUFFICES ASSUME NEW k \in Sessions, remote[k] = "none", remote'[k] # "none"
               PROVE  pc = "select" /\ n = k
    OBVIOUS
  <2>1. RequestCommand(k)
    BY <1>1 DEF Next, Caller, Runner, GiveUp, vars, session, SshInv, TypeOK,
       NewClient, ExecNilClient, Exec, Upload, Begin, NoSession, NewSession, SftpRefused, NewSftp,
       CreateFails, CreateFile,
       ReceiveResult, ContextDone, CloseFile, RequestCommand, RunEnds, CopyEnds, CopyFails,
       CommandStarts, CommandEnds, Hang, Resume, Break, Cancel
  <2>2. runner[k] = "ready" /\ sess[k] = "open"
    BY <2>1 DEF RequestCommand
  <2> QED
    BY <1>1, <2>2, SshAssumption DEF SshInv, TypeOK, SessionsInUse, CallState, Sessions
<1> QED
  BY <1>1, SshInvInit, SshInvStep, PTL DEF Spec, NothingStartsLate

=============================================================================
