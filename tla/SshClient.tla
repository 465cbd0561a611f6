------------------------------ MODULE SshClient ------------------------------
(***************************************************************************)
(* utils/ssh: one Client, from NewClient on, and the calls of Exec and     *)
(* Upload that a launch or a deprecation makes on it, one after the other. *)
(*                                                                         *)
(* A call opens a session and starts a goroutine, the runner, that runs    *)
(* the command or copies the file and puts the result into errChan; the    *)
(* call waits for errChan or for the end of the context, whichever it sees *)
(* first, and closes the session when it returns.  Runner and command may  *)
(* outlive the call.  The machine may stop answering at any time and come  *)
(* back, and the connection may break.                                     *)
(***************************************************************************)
EXTENDS Integers

CONSTANTS
  MaxSessions    \* bound: sessions opened on the connection

ASSUME SshAssumption == MaxSessions \in Nat

VARIABLES
  conn,        \* c.conn: "nil" before NewClient and after it failed
  hung,        \* the machine: "no", "yes" (does not answer), "over"
  cancelled,   \* ctx is done: the manager was told to stop
  op,          \* the call, or the last one
  pc,          \* where the call is
  ret,         \* what it has returned
  n,           \* the session it uses: the last one opened
  upload,      \* the session of the file transfer under way, or 0
  sess,        \* our end of each session
  runner,      \* the goroutine of each session
  errChan,     \* its channel, of capacity one
  remote,      \* the command of each session, on the machine
  file         \* the file that is uploaded, on the machine

call    == <<op, pc, ret, n, upload>>
session == <<sess, runner, errChan, remote>>
vars    == <<conn, hung, cancelled, call, session, file>>

Sessions == 1 .. MaxSessions

TypeOK ==
  /\ conn \in { "nil", "up", "dead" }
  /\ hung \in { "no", "yes", "over" }
  /\ cancelled \in BOOLEAN
  /\ op \in { "none", "Exec", "Upload" }
  /\ pc \in { "idle", "open", "create", "select", "close" }
  /\ ret \in { "none", "nil", "error" }
  /\ n \in 0 .. MaxSessions /\ upload \in 0 .. n
  /\ sess \in [Sessions -> { "none", "open", "closed", "lost" }]
  /\ runner \in [Sessions -> { "none", "ready", "running", "copying", "done" }]
  /\ errChan \in [Sessions -> { "empty", "nil", "error" }]
  /\ remote \in [Sessions -> { "none", "asked", "running", "ok", "failed" }]
  /\ file \in { "none", "partial", "whole" }
  /\ pc \in { "create", "select", "close" } => n > 0

Init ==
  /\ conn = "nil" /\ hung = "no" /\ cancelled = FALSE
  /\ op = "none" /\ pc = "idle" /\ ret = "none" /\ n = 0 /\ upload = 0
  /\ sess = [k \in Sessions |-> "none"]
  /\ runner = [k \in Sessions |-> "none"]
  /\ errChan = [k \in Sessions |-> "empty"]
  /\ remote = [k \in Sessions |-> "none"]
  /\ file = "none"

Answers == conn = "up" /\ hung # "yes"

-----------------------------------------------------------------------------
(***************************************************************************)
(* The caller.                                                             *)
(***************************************************************************)
NewClient ==
  /\ conn = "nil" /\ op = "none" /\ hung # "yes"
  /\ conn' = "up"
  /\ UNCHANGED <<hung, cancelled, call, session, file>>

\* The call returns r.
Return(r) == pc' = "idle" /\ ret' = r /\ UNCHANGED op

\* On a nil client NewSession panics; Exec recovers and returns no error.
ExecNilClient ==
  /\ pc = "idle" /\ conn = "nil"
  /\ op' = "Exec" /\ ret' = "nil"
  /\ UNCHANGED <<conn, hung, cancelled, pc, n, upload, session, file>>

\* The call asks for a session.
Begin(o) ==
  /\ pc = "idle" /\ conn # "nil"
  /\ op' = o /\ pc' = "open" /\ ret' = "none"
  /\ UNCHANGED <<conn, hung, cancelled, n, upload, session, file>>

Exec   == Begin("Exec")
Upload == Begin("Upload")

\* The last thing Upload does: it closes the file and the sftp session,
\* where closing the file waits for the machine; Exec goes straight back.
Leave(r) ==
  IF upload > 0 THEN pc' = "close" /\ ret' = r /\ UNCHANGED op ELSE Return(r)

\* Mutant: the error of NewSession is dropped, and the call waits for a
\* runner that was never started.
NoSessionWaits ==
  /\ pc = "open" /\ (Answers \/ conn = "dead")
  /\ pc' = "select"
  /\ UNCHANGED <<conn, hung, cancelled, op, ret, n, upload, session, file>>

\* The session that is asked for is refused, or the connection is dead.
NoSession ==
  /\ pc = "open" /\ (Answers \/ conn = "dead")
  /\ Leave("error")
  /\ UNCHANGED <<conn, hung, cancelled, n, upload, session, file>>

\* Exec: the session is there and the runner is started.
NewSession ==
  /\ pc = "open" /\ Answers /\ n < MaxSessions
  /\ op = "Exec" \/ upload > 0
  /\ n' = n + 1 /\ pc' = "select"
  /\ sess' = [sess EXCEPT ![n + 1] = "open"]
  /\ runner' = [runner EXCEPT ![n + 1] = "ready"]
  /\ UNCHANGED <<conn, hung, cancelled, op, ret, upload, errChan, remote, file>>

\* sftp.NewClient (external) opens a session and asks for the sftp subsystem
\* in it.  When that is refused it returns an error, and the session stays
\* open: nobody has it to close it.
SftpRefused ==
  /\ pc = "open" /\ Answers /\ n < MaxSessions
  /\ op = "Upload" /\ upload = 0
  /\ n' = n + 1
  /\ sess' = [sess EXCEPT ![n + 1] = "lost"]
  /\ Return("error")
  /\ UNCHANGED <<conn, hung, cancelled, upload, runner, errChan, remote, file>>

\* The sftp session is there, and Upload asks for the destination, unless the
\* source cannot be looked at.
NewSftp ==
  /\ pc = "open" /\ Answers /\ n < MaxSessions
  /\ op = "Upload" /\ upload = 0
  /\ n' = n + 1 /\ upload' = n + 1
  /\ sess' = [sess EXCEPT ![n + 1] = "open"]
  /\ \/ pc' = "create" /\ UNCHANGED ret
     \/ pc' = "close" /\ ret' = "error"
  /\ UNCHANGED <<conn, hung, cancelled, op, runner, errChan, remote, file>>

\* The destination is not created, or nobody hears that it was.
CreateFails ==
  /\ pc = "create" /\ (Answers \/ conn = "dead")
  /\ pc' = "close" /\ ret' = "error"
  /\ file' \in { file, "partial" }
  /\ UNCHANGED <<conn, hung, cancelled, op, n, upload, session>>

\* The destination is there, empty; then the source is opened and the runner
\* started, or it cannot be opened.
CreateFile ==
  /\ pc = "create" /\ Answers
  /\ file' = "partial"
  /\ \/ pc' = "select" /\ ret' = ret /\ runner' = [runner EXCEPT ![upload] = "copying"]
     \/ pc' = "close" /\ ret' = "error" /\ UNCHANGED runner
  /\ UNCHANGED <<conn, hung, cancelled, op, n, upload, sess, errChan, remote>>

\* Mutant: the session is not closed.
ForgetSession == UNCHANGED sess

\* The call returns and its deferred Close closes the session.
CloseSession == sess' = [sess EXCEPT ![n] = "closed"]

\* Exec's result is known: it goes back to its caller, or to Upload, whose
\* chmod it was.
ExecReturns(r) == CloseSession /\ Leave(r)

\* select: the runner's result.  When the file is copied, Upload goes on with
\* chmod in a session of its own.
ReceiveResult ==
  /\ pc = "select" /\ errChan[n] # "empty"
  /\ \/ upload # n /\ ExecReturns(errChan[n])
     \/ upload = n /\ errChan[n] = "error" /\ Leave("error") /\ UNCHANGED sess
     \/ upload = n /\ errChan[n] = "nil" /\ pc' = "open" /\ UNCHANGED <<op, ret, sess>>
  /\ UNCHANGED <<conn, hung, cancelled, n, upload, runner, errChan, remote, file>>

\* Mutant: the call does not look at the context while it waits.
ContextIgnored == FALSE /\ UNCHANGED vars

\* Mutant: the end of the context ends the wait, but not with an error.
ContextDoneNil ==
  /\ pc = "select" /\ cancelled
  /\ \/ upload # n /\ ExecReturns("nil")
     \/ upload = n /\ Leave("nil") /\ UNCHANGED sess
  /\ UNCHANGED <<conn, hung, cancelled, n, upload, runner, errChan, remote, file>>

\* select: the context is done.
ContextDone ==
  /\ pc = "select" /\ cancelled
  /\ \/ upload # n /\ ExecReturns("error")
     \/ upload = n /\ Leave("error") /\ UNCHANGED sess
  /\ UNCHANGED <<conn, hung, cancelled, n, upload, runner, errChan, remote, file>>

\* The deferred calls of Upload, as far as it has come: the source is closed,
\* the machine answers that the file and the session are closed, or the
\* connection is dead.
CloseFile ==
  /\ pc = "close" /\ (Answers \/ conn = "dead")
  /\ sess' = [sess EXCEPT ![upload] = "closed"]
  /\ upload' = 0 /\ Return(ret)
  /\ UNCHANGED <<conn, hung, cancelled, n, runner, errChan, remote, file>>

-----------------------------------------------------------------------------
(***************************************************************************)
(* The runner of session k.                                                *)
(***************************************************************************)

\* Mutant: errChan has no buffer, and nobody receives after the call is over.
ReportUnbuffered(k, r) ==
  /\ pc = "select" /\ n = k
  /\ errChan' = [errChan EXCEPT ![k] = r]
  /\ runner' = [runner EXCEPT ![k] = "done"]

\* errChan has room for the one result, whether or not it is received.
Report(k, r) ==
  /\ errChan' = [errChan EXCEPT ![k] = r]
  /\ runner' = [runner EXCEPT ![k] = "done"]

\* session.Run asks the machine to start the command; on a session that was
\* closed already it returns an error.
RequestCommand(k) ==
  /\ runner[k] = "ready"
  /\ \/ /\ sess[k] = "open" /\ conn = "up"
        /\ runner' = [runner EXCEPT ![k] = "running"]
        /\ remote' = [remote EXCEPT ![k] = "asked"]
        /\ UNCHANGED errChan
     \/ (sess[k] = "closed" \/ conn = "dead") /\ Report(k, "error") /\ UNCHANGED remote
  /\ UNCHANGED <<conn, hung, cancelled, call, sess, file>>

\* Mutant: session.Run does not wait longer than it takes to start the command.
RunGivesUp(k) ==
  /\ runner[k] = "running"
  /\ remote[k] = "running" /\ Answers /\ Report(k, "error")
  /\ UNCHANGED <<conn, hung, cancelled, call, sess, remote, file>>

\* session.Run returns: with the exit status, when the machine has confirmed
\* that the session is closed, or when the connection is dead.
RunEnds(k) ==
  /\ runner[k] = "running"
  /\ \/ remote[k] = "ok" /\ Answers /\ Report(k, "nil")
     \/ remote[k] = "failed" /\ Answers /\ Report(k, "error")
     \/ sess[k] = "closed" /\ Answers /\ Report(k, "error")
     \/ conn = "dead" /\ Report(k, "error")
  /\ UNCHANGED <<conn, hung, cancelled, call, sess, remote, file>>

\* io.Copy writes the rest of the file and returns.
CopyEnds(k) ==
  /\ runner[k] = "copying" /\ sess[k] = "open" /\ Answers
  /\ file' = "whole" /\ Report(k, "nil")
  /\ UNCHANGED <<conn, hung, cancelled, call, sess, remote>>

\* io.Copy fails: on the machine, or because the source, the session or the
\* connection is closed.
CopyFails(k) ==
  /\ runner[k] = "copying" /\ (Answers \/ conn = "dead")
  /\ Report(k, "error")
  /\ UNCHANGED <<conn, hung, cancelled, call, sess, remote, file>>

Runner(k) == RequestCommand(k) \/ RunEnds(k) \/ CopyEnds(k) \/ CopyFails(k)

-----------------------------------------------------------------------------
(***************************************************************************)
(* The machine, the connection and the context.                            *)
(***************************************************************************)

\* The request arrives and the command starts, or is refused.
CommandStarts(k) ==
  /\ remote[k] = "asked" /\ Answers
  /\ \E r \in { "running", "failed" } : remote' = [remote EXCEPT ![k] = r]
  /\ UNCHANGED <<conn, hung, cancelled, call, sess, runner, errChan, file>>

\* A started command ends by itself, whatever became of its session.
CommandEnds(k) ==
  /\ remote[k] = "running"
  /\ \E r \in { "ok", "failed" } : remote' = [remote EXCEPT ![k] = r]
  /\ UNCHANGED <<conn, hung, cancelled, call, sess, runner, errChan, file>>

\* Bound: the machine stops answering at most once.
Hang   == hung = "no" /\ hung' = "yes" /\ UNCHANGED <<conn, cancelled, call, session, file>>
Resume == hung = "yes" /\ hung' = "over" /\ UNCHANGED <<conn, cancelled, call, session, file>>

Break == conn = "up" /\ conn' = "dead" /\ UNCHANGED <<hung, cancelled, call, session, file>>

\* Something was sent that the machine has not acknowledged.
Unacknowledged ==
  \/ pc \in { "open", "create", "close" }
  \/ \E k \in Sessions : sess[k] = "closed" /\ runner[k] \in { "running", "copying" }

\* TCP gives a connection up whose data nobody acknowledges.
GiveUp == hung = "yes" /\ Unacknowledged /\ Break

Cancel == ~ cancelled /\ cancelled' = TRUE /\ UNCHANGED <<conn, hung, call, session, file>>

Caller ==
  \/ NoSession \/ NewSession \/ ReceiveResult \/ ContextDone
  \/ SftpRefused \/ NewSftp \/ CreateFails \/ CreateFile \/ CloseFile

Next ==
  \/ NewClient \/ ExecNilClient \/ Exec \/ Upload
  \/ Caller
  \/ \E k \in Sessions : Runner(k) \/ CommandStarts(k) \/ CommandEnds(k)
  \/ Hang \/ Resume \/ Break \/ GiveUp \/ Cancel

\* A goroutine that can run does run; of the machine and of the commands
\* nothing is assumed but that TCP gives up on it in the end.
Fairness ==
  /\ WF_vars(Caller) /\ WF_vars(ContextDone)
  /\ \A k \in Sessions : WF_vars(Runner(k))
  /\ WF_vars(GiveUp)

Spec == Init /\ [][Next]_vars

FairSpec == Spec /\ Fairness

-----------------------------------------------------------------------------
(***************************************************************************)
(* Properties.                                                             *)
(***************************************************************************)

\* On a client that is connected, Exec returns without error only when the
\* command has ended well, and Upload only when the file is whole and its mode
\* is set, whatever was cancelled, hung or broken on the way.
NilMeansDone ==
  pc = "idle" /\ ret = "nil" /\ conn # "nil" =>
    remote[n] = "ok" /\ (op = "Upload" => file = "whole")

\* When a call has returned, every session that Exec or Upload has got hold of
\* is closed on our side, whichever of opening, creating, copying, chmod and
\* cancelling ended the call.  A machine admits a limited number of sessions.
\* A session in which sftp was refused is not among them: Upload never has it.
SessionsAreClosed == pc = "idle" => \A k \in Sessions : sess[k] # "open"

\* While the connection lives and the context is not done, no command is
\* left behind: the machine works on at most one command of the client, that
\* of the call under way.
NoOrphan ==
  conn = "up" /\ ~ cancelled =>
    \A k \in Sessions : remote[k] \in { "asked", "running" } => pc = "select" /\ n = k

\* A command is asked for only while its call waits for it: a runner that
\* comes late, after the call was cancelled and another one has begun, finds
\* the session closed.
NothingStartsLate ==
  [][ \A k \in Sessions :
        remote[k] = "none" /\ remote'[k] # "none" => pc = "select" /\ n = k ]_vars

\* Once the context is done a call returns, also when the machine has stopped
\* answering in the middle of a command or of a transfer.
CancelReturns == cancelled /\ pc # "idle" ~> pc = "idle"

\* The runner of a session that was closed comes to its end: a cancelled call
\* leaves no goroutine behind for ever.
RunnersEnd ==
  \A k \in Sessions : sess[k] = "closed" ~> runner[k] \in { "none", "done" }

=============================================================================
