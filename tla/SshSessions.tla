----------------------------- MODULE SshSessions -----------------------------
(***************************************************************************)
(* SSHClient with its SFTPActions and SCPActions: three objects that hold  *)
(* copies of the handles of one ssh session, an sftp session and an scp    *)
(* session, and the copy threads of the latter two.  The caller may make   *)
(* any sequence of calls in which commands follow a successful connectSSH; *)
(* libssh is external: it hands out handles, fails at any point, and ends. *)
(***************************************************************************)
EXTENDS Naturals, Sequences

CONSTANT MaxHandles  \* bounds the handles libssh ever hands out
ASSUME MaxHandlesAssumption == MaxHandles \in Nat

Handles == 1 .. MaxHandles
Null    == 0
Garbage == MaxHandles + 1  \* SFTPActions and SCPActions leave these fields uninitialised
Pointers == 0 .. MaxHandles + 1

VARIABLES
  kind,     \* what a handle is: "ssh", "sftp", "scp", "broken" for an scp handle that was not
            \* initialised, or "none" when not handed out yet
  owner,    \* the ssh session a handle was opened in
  live,     \* the handles that are allocated
  client,   \* the sshSession and sftpSession of SSHClient
  sftp,     \* the copies of SFTPActions
  scp,      \* the copies of SCPActions
  copying,  \* copyDirThreadObject of both: "none", "running", or "ended" and joinable
  file,     \* the sftp session in which the sftp copy thread has a remote file open
  pushing,  \* the scp copy thread is past the test at the head of copyFile
  using,    \* the handle with which the scp copy thread is inside libssh
  call,     \* the steps the call of the client's user still has to take
  status,   \* "alive", "destroyed", "terminated"
  answer,   \* whether the last removeDir returned true
  folder,   \* the install folder is on the device
  misuse    \* history: handles given to libssh after they were freed

vars == <<kind, owner, live, client, sftp, scp, copying, file, pushing, using, call,
          status, answer, folder, misuse>>

Parts == {"sftp", "scp"}
Steps == {"closeSFTP", "closeSCP", "closeSSH", "openSSH", "ensureSSH", "openSFTP", "forgetSCP",
          "openSCP", "useSFTP", "useSCP", "execute", "removeDir", "copySFTP", "copySCP",
          "joinSFTP", "joinSCP", "destruct"}

\* The functions of SSHClient, by the steps they take; a step of a closed handle does nothing.
Calls ==
  [connectSSH   |-> <<"closeSFTP", "closeSSH", "openSSH">>,
   connectSFTP  |-> <<"closeSFTP", "ensureSSH", "openSFTP">>,
   connectSCP   |-> <<"forgetSCP", "openSCP">>,
   closeSSH     |-> <<"closeSFTP", "closeSSH">>,
   closeSFTP    |-> <<"closeSFTP">>,
   closeSCP     |-> <<"closeSCP">>,
   destroy      |-> <<"closeSFTP", "closeSCP", "closeSFTP", "closeSSH", "destruct">>,
   executeCommand |-> <<"execute">>,
   sftpCall     |-> <<"useSFTP">>,
   scpCall      |-> <<"useSCP">>,
   removeDir    |-> <<"removeDir">>,
   sftpCopyDir  |-> <<"copySFTP">>,
   sftpCopySync |-> <<"copySFTP", "joinSFTP">>,
   scpCopyDir   |-> <<"copySCP">>,
   scpCopySync  |-> <<"copySCP", "joinSCP">>]

NeedsNoSession == {"connectSSH", "connectSFTP", "closeSSH", "closeSFTP", "closeSCP", "destroy"}

Kinds == {"none", "ssh", "sftp", "scp", "broken"}

TypeOK ==
  /\ kind \in [Handles -> Kinds]
  /\ owner \in [Handles -> Pointers]
  /\ live \subseteq {h \in Handles : kind[h] # "none"}
  /\ client \in [ssh : Pointers, sftp : Pointers]
  /\ sftp \in [ssh : Pointers, sftp : Pointers]
  /\ scp \in [ssh : Pointers, scp : Pointers]
  /\ copying \in [Parts -> {"none", "running", "ended"}]
  /\ file \in Pointers
  /\ pushing \in BOOLEAN
  /\ using \in Pointers
  /\ call \in Seq(Steps)
  /\ status \in {"alive", "destroyed", "terminated"}
  /\ answer \in BOOLEAN
  /\ folder \in BOOLEAN
  /\ misuse \subseteq Pointers

Init ==
  /\ kind = [h \in Handles |-> "none"]
  /\ owner = [h \in Handles |-> Null]
  /\ live = {}
  /\ client = [ssh |-> Null, sftp |-> Null]
  /\ sftp = [ssh |-> Garbage, sftp |-> Garbage]
  /\ scp = [ssh |-> Garbage, scp |-> Null]
  /\ copying = [p \in Parts |-> "none"]
  /\ file = Null
  /\ pushing = FALSE
  /\ using = Null
  /\ call = <<>>
  /\ status = "alive"
  /\ answer = FALSE
  /\ folder = TRUE
  /\ misuse = {}

-----------------------------------------------------------------------------
At(step) == status = "alive" /\ call # <<>> /\ Head(call) = step
Proceed == call' = Tail(call)
Return == call' = <<>>
\* A handle, and the session it was opened in, through which it works.
With(h) == {h} \cup {owner[g] : g \in {h} \cap Handles}
\* libssh is called with these handles.
Given(H) == misuse' = misuse \cup ((UNION {With(h) : h \in H}) \ (live \cup {Null}))
ThreadGone(p) == copying[p] = "none"
Joinable(p) == copying[p] # "running"
handleVars == <<kind, owner, live>>
threadVars == <<file, pushing, using>>
resultVars == <<status, answer, folder, threadVars>>

Unused == {h \in Handles : kind[h] = "none" /\ \A g \in 1 .. h - 1 : kind[g] # "none"}
HandOut(h, k, s) ==
  /\ kind' = [kind EXCEPT ![h] = k]
  /\ owner' = [owner EXCEPT ![h] = s]

\* sessionsExists of both objects.
Existing(p) == IF p = "sftp" THEN IF sftp.ssh # Null /\ sftp.sftp # Null THEN {sftp.ssh, sftp.sftp} ELSE {}
                             ELSE IF scp.ssh # Null /\ scp.scp # Null THEN {scp.ssh, scp.scp} ELSE {}

\* A call from outside; commands and connectSCP are for a client that has a session.
Begin(c) ==
  /\ status = "alive" /\ call = <<>>
  /\ c \in NeedsNoSession \/ client.ssh # Null
  /\ call' = Calls[c]
  /\ answer' = FALSE
  /\ UNCHANGED <<handleVars, client, sftp, scp, copying, status, folder, threadVars, misuse>>

\* Closing what is not open returns at once.
SkipClosed ==
  /\ \/ At("closeSFTP") /\ client.sftp = Null
     \/ At("closeSSH") /\ client.ssh = Null
     \/ At("closeSCP") /\ scp.scp = Null
     \/ At("ensureSSH") /\ client.ssh # Null
  /\ Proceed
  /\ UNCHANGED <<handleVars, client, sftp, scp, copying, resultVars, misuse>>

\* cancelActions waits for the copy thread, which does not look at stopThreads.
Uncancelled(p) == copying' = copying
Cancel(p) == Joinable(p) /\ copying' = [copying EXCEPT ![p] = "none"]
CloseSFTP ==
  /\ At("closeSFTP") /\ client.sftp # Null
  /\ Cancel("sftp")
  /\ Given({client.sftp})
  /\ live' = live \ {client.sftp}
  /\ client' = [client EXCEPT !.sftp = Null]
  /\ sftp' = [ssh |-> client.ssh, sftp |-> Null]
  /\ Proceed
  /\ UNCHANGED <<kind, owner, scp, resultVars>>

\* SCPActions::close.
CloseSCP ==
  /\ At("closeSCP") /\ scp.scp # Null
  /\ Cancel("scp")
  /\ Given({scp.scp})
  /\ live' = live \ {scp.scp}
  /\ scp' = [scp EXCEPT !.scp = Null]
  /\ Proceed
  /\ UNCHANGED <<kind, owner, client, sftp, resultVars>>

\* ssh_free takes the channels of the session with it, but no scp handle; SCPActions is not told.
SftpKeeps == sftp
SftpForgets == [ssh |-> Null, sftp |-> Null]
CloseSSH ==
  /\ At("closeSSH") /\ client.ssh # Null
  /\ Given({client.ssh})
  /\ live' = live \ {client.ssh}
  /\ client' = [client EXCEPT !.ssh = Null]
  /\ sftp' = SftpForgets
  /\ Proceed
  /\ UNCHANGED <<kind, owner, scp, copying, resultVars>>

\* ssh_new fails; or connecting or authentication, and the new handle is freed.
NotFreed(h) == {h}
LeftOnFailure(h) == {}
Opening == At("openSSH") \/ (At("ensureSSH") /\ client.ssh = Null)
OpenSSHFails ==
  /\ Opening
  /\ \/ UNCHANGED handleVars
     \/ \E h \in Unused : HandOut(h, "ssh", Null) /\ live' = live \cup LeftOnFailure(h)
  /\ Return
  /\ UNCHANGED <<client, sftp, scp, copying, resultVars, misuse>>

OpenSSH ==
  /\ Opening
  /\ \E h \in Unused :
       /\ HandOut(h, "ssh", Null)
       /\ live' = live \cup {h}
       /\ client' = [client EXCEPT !.ssh = h]
       /\ sftp' = [ssh |-> h, sftp |-> Null]
       /\ scp' = [ssh |-> h, scp |-> Null]
  /\ Proceed
  /\ UNCHANGED <<copying, resultVars, misuse>>

\* sftp_new or sftp_init fails, and the new handle is freed.
OpenSFTPFails ==
  /\ At("openSFTP")
  /\ \/ UNCHANGED handleVars
     \/ \E h \in Unused : HandOut(h, "sftp", client.ssh) /\ live' = live \cup LeftOnFailure(h)
  /\ Given({client.ssh})
  /\ Return
  /\ UNCHANGED <<client, sftp, scp, copying, resultVars>>

OpenSFTP ==
  /\ At("openSFTP")
  /\ \E h \in Unused :
       /\ HandOut(h, "sftp", client.ssh)
       /\ live' = live \cup {h}
       /\ client' = [client EXCEPT !.sftp = h]
       /\ sftp' = [ssh |-> client.ssh, sftp |-> h]
  /\ Given({client.ssh})
  /\ Proceed
  /\ UNCHANGED <<scp, copying, resultVars>>

\* connectSCP first sets the copies, so SCPActions::connect finds no open scp session to close.
ForgetSCP ==
  /\ At("forgetSCP")
  /\ scp' = [ssh |-> client.ssh, scp |-> Null]
  /\ Proceed
  /\ UNCHANGED <<handleVars, client, sftp, copying, resultVars, misuse>>

\* ssh_scp_new fails; or ssh_scp_init, and scpSession keeps the freed handle.
OpenSCPFails ==
  /\ At("openSCP")
  /\ \/ UNCHANGED <<handleVars, scp>>
     \/ \E h \in Unused :
          /\ HandOut(h, "broken", scp.ssh)
          /\ scp' = [scp EXCEPT !.scp = h]
          /\ UNCHANGED live
  /\ Given({scp.ssh})
  /\ Return
  /\ UNCHANGED <<client, sftp, copying, resultVars>>

OpenSCP ==
  /\ At("openSCP")
  /\ \E h \in Unused :
       /\ HandOut(h, "scp", scp.ssh)
       /\ live' = live \cup {h}
       /\ scp' = [scp EXCEPT !.scp = h]
  /\ Given({scp.ssh})
  /\ Proceed
  /\ UNCHANGED <<client, sftp, copying, resultVars>>

-----------------------------------------------------------------------------
\* makeDir, copyFile, setChmod, removeFile, ... of both objects, which test for a session;
\* existsFile of both and previousDir, which do not; executeCommand.
Use ==
  /\ \/ At("useSFTP") /\ (Given(Existing("sftp")) \/ Given({sftp.sftp}))
     \/ At("useSCP") /\ (Given(Existing("scp")) \/ Given({scp.scp}) \/ Given({scp.ssh}))
     \/ At("execute") /\ Given({client.ssh})
  /\ Proceed
  /\ UNCHANGED <<handleVars, client, sftp, scp, copying, resultVars>>

\* "rm - rf": rm takes "rf" for a file and leaves the folder; what it complains goes to stderr,
\* which nobody reads, so the empty output counts as success, as does a command that was not run.
RemoveDir ==
  /\ At("removeDir")
  /\ answer' = (Existing("scp") # {})
  /\ Given(Existing("scp"))
  /\ Proceed
  /\ UNCHANGED <<handleVars, client, sftp, scp, copying, status, folder, threadVars>>

\* copyDir starts the thread; over one that was never joined it calls std::terminate.
CopyDir(p) ==
  /\ At(IF p = "sftp" THEN "copySFTP" ELSE "copySCP")
  /\ CASE Existing(p) = {} -> Return /\ UNCHANGED <<copying, status>>
       [] Existing(p) # {} /\ ThreadGone(p) ->
            Proceed /\ copying' = [copying EXCEPT ![p] = "running"] /\ UNCHANGED status
       [] OTHER -> Return /\ status' = "terminated" /\ UNCHANGED copying
  /\ UNCHANGED <<handleVars, client, sftp, scp, answer, folder, threadVars, misuse>>

JoinCopy(p) ==
  /\ At(IF p = "sftp" THEN "joinSFTP" ELSE "joinSCP")
  /\ Cancel(p)
  /\ Proceed
  /\ UNCHANGED <<handleVars, client, sftp, scp, resultVars, misuse>>

\* copyDirThread of scp tests for a session at the head of a file.  From then on it enters libssh
\* with a handle the object holds at that moment: push_file, write and leave_directory with the
\* scp handle, executeCommand with the session.  Nobody else waits until it is out again.
ScpThread == status = "alive" /\ copying["scp"] = "running"

CopyTest ==
  /\ ScpThread /\ ~pushing
  /\ Existing("scp") # {}
  /\ pushing' = TRUE
  /\ UNCHANGED <<handleVars, client, sftp, scp, copying, file, using, call, status, answer, folder, misuse>>

CopyEnter ==
  /\ ScpThread /\ pushing /\ using = Null
  /\ using' \in {scp.ssh, scp.scp} \ {Null}
  /\ UNCHANGED <<handleVars, client, sftp, scp, copying, file, pushing, call, status, answer, folder, misuse>>

CopyLeave ==
  /\ ScpThread /\ using # Null
  /\ Given({using})
  /\ using' = Null
  /\ folder' \in {folder, TRUE}
  /\ UNCHANGED <<handleVars, client, sftp, scp, copying, file, pushing, call, status, answer>>

CopyFileEnds ==
  /\ ScpThread /\ pushing /\ using = Null
  /\ pushing' = FALSE
  /\ UNCHANGED <<handleVars, client, sftp, scp, copying, file, using, call, status, answer, folder, misuse>>

\* That of sftp opens a remote file, which remembers its session, writes and closes it.
OpenFile ==
  /\ status = "alive" /\ copying["sftp"] = "running" /\ file = Null
  /\ Existing("sftp") # {}
  /\ Given(Existing("sftp"))
  /\ file' = sftp.sftp
  /\ folder' = TRUE
  /\ UNCHANGED <<handleVars, client, sftp, scp, copying, pushing, using, call, status, answer>>

CloseFile ==
  /\ status = "alive" /\ file # Null
  /\ Given({file} \cup Existing("sftp"))
  /\ file' = Null
  /\ UNCHANGED <<handleVars, client, sftp, scp, copying, pushing, using, call, status, answer, folder>>

CopyEnds(p) ==
  /\ status = "alive" /\ copying[p] = "running"
  /\ IF p = "sftp" THEN file = Null ELSE ~pushing
  /\ copying' = [copying EXCEPT ![p] = "ended"]
  /\ UNCHANGED <<handleVars, client, sftp, scp, call, resultVars, misuse>>

\* The member destructors, scp first: ~SCPActions does not cancel its thread, ~SFTPActions does.
Destruct ==
  /\ At("destruct")
  /\ \/ ThreadGone("scp") /\ Joinable("sftp") /\ status' = "destroyed"
     \/ ~ThreadGone("scp") /\ status' = "terminated"
  /\ Return
  /\ UNCHANGED <<handleVars, client, sftp, scp, copying, answer, folder, threadVars, misuse>>

-----------------------------------------------------------------------------
Step ==
  \/ SkipClosed
  \/ CloseSFTP \/ CloseSCP \/ CloseSSH
  \/ OpenSSHFails \/ OpenSSH \/ OpenSFTPFails \/ OpenSFTP
  \/ ForgetSCP \/ OpenSCPFails \/ OpenSCP
  \/ Use \/ RemoveDir \/ Destruct
  \/ \E p \in Parts : CopyDir(p) \/ JoinCopy(p)

Next ==
  \/ \E c \in DOMAIN Calls : Begin(c)
  \/ Step
  \/ CopyTest \/ CopyEnter \/ CopyLeave \/ CopyFileEnds \/ OpenFile \/ CloseFile
  \/ \E p \in Parts : CopyEnds(p)

\* Threads are scheduled, libssh calls return, and files and directories are finite.
Fairness ==
  /\ WF_vars(Step) /\ WF_vars(CloseFile) /\ WF_vars(CopyLeave)
  /\ SF_vars(CopyFileEnds) /\ \A p \in Parts : SF_vars(CopyEnds(p))
Spec == Init /\ [][Next]_vars /\ Fairness

-----------------------------------------------------------------------------
\* From the first session on the sftp object holds exactly the handles of the client, and a
\* client holds only handles that are allocated: setSessions is called wherever a handle changes.
SftpFollowsClient ==
  /\ {client.ssh, client.sftp} \subseteq live \cup {Null}
  /\ client.ssh = Null => client.sftp = Null
  /\ file # Null => file = client.sftp
  /\ sftp = client \/ (client.ssh = Null /\ sftp.ssh = Garbage)

\* Over failing connects, reconnects and the destructor no ssh or sftp handle is left behind:
\* only an scp handle can be allocated that the client no longer knows.
NothingForgotten ==
  /\ \A h \in live : kind[h] # "scp" => h \in {client.ssh, client.sftp}
  /\ status = "destroyed" => \A h \in live : kind[h] = "scp" /\ h # scp.scp

\* What libssh is given after it was freed is an scp handle whose initialisation failed and that
\* the scp object kept; or a session, by the scp object after the client closed the session for
\* good, or by the scp copy thread, on its way through libssh while the client closed it.
\* It is never an sftp handle, nor an scp handle that was once open.
OnlyStaleScpMisuses ==
  [][\A h \in misuse' \ misuse :
       \/ kind[h] = "broken" /\ h \in {scp.scp, using}
       \/ kind[h] = "ssh" /\ \/ h = scp.ssh /\ client.ssh = Null
                             \/ h \in With(using)]_vars

\* Every call, and the destructor, returns: the joins wait for threads that end.
CallsReturn == call # <<>> ~> call = <<>>

\* The caller prints "Raumserver install folder deleted!" when removeDir returned true
\* (deviceInstaller_RF.cpp:311).
RemovedIsGone == [][answer' /\ ~answer => ~folder']_vars
=============================================================================
