------------------------- MODULE SshSessionsProofs -------------------------
(***************************************************************************)
(* Theorems about SshSessions, for every number of handles and every       *)
(* sequence of calls.                                                      *)
(***************************************************************************)
EXTENDS SshSessions, TLAPS

\* What precedes a step in every call.
Comes(a, b) ==
  /\ b \in {"closeSSH", "ensureSSH"} => a = "closeSFTP"
  /\ b \in {"openSSH", "destruct"} => a = "closeSSH"
  /\ b = "openSFTP" => a = "ensureSSH"
  /\ b = "openSCP" => a = "forgetSCP"
  /\ b \notin {"forgetSCP", "useSFTP", "useSCP", "copySFTP"}

Ordered(s) == \A i \in 1 .. Len(s) - 1 : Comes(s[i], s[i + 1])

\* What the steps before it have established when a step is taken.
Ready(step) ==
  /\ step \in {"closeSSH", "ensureSSH", "openSFTP"} => client.sftp = Null
  /\ step \in {"openSSH", "destruct"} => client.ssh = Null
  /\ step \in {"openSFTP", "forgetSCP", "openSCP", "useSFTP", "useSCP", "copySFTP"} => client.ssh # Null
  /\ step = "openSCP" => scp = [ssh |-> client.ssh, scp |-> Null]

CallInv == Ordered(call) /\ (call # <<>> => Ready(Head(call)))

\* What the handles are, and whose.
Owners ==
  \A h \in Handles :
    /\ kind[h] = "ssh" => owner[h] = Null
    /\ kind[h] \in {"sftp", "scp", "broken"} => owner[h] \in Handles /\ kind[owner[h]] = "ssh"

HandleInv ==
  /\ Owners
  /\ client.ssh # Null => kind[client.ssh] = "ssh" /\ scp.ssh = client.ssh
  /\ client.sftp # Null => kind[client.sftp] = "sftp" /\ owner[client.sftp] = client.ssh
  /\ scp.ssh # Garbage => scp.ssh \in Handles /\ kind[scp.ssh] = "ssh"
  /\ scp.scp # Null =>
       /\ scp.ssh # Garbage /\ scp.scp \in Handles /\ owner[scp.scp] = scp.ssh
       /\ kind[scp.scp] = "broken" \/ (kind[scp.scp] = "scp" /\ scp.scp \in live)

\* The sftp copy thread runs only while there is an sftp session.
ThreadInv ==
  /\ copying["sftp"] = "running" => client.sftp # Null
  /\ file # Null => copying["sftp"] = "running"

OnlyScpLeft == \A h \in live : kind[h] # "scp" => h \in {client.ssh, client.sftp}

CallerInv == TypeOK /\ CallInv /\ HandleInv /\ ThreadInv /\ SftpFollowsClient /\ OnlyScpLeft

\* The scp copy thread goes on with what it took out of the object.  Its handle may have been
\* replaced, or its session closed, but a handle that was open it keeps from being freed.
ScpInv ==
  /\ copying["scp"] = "running" => scp.ssh # Garbage
  /\ pushing => copying["scp"] = "running"
  /\ using # Null =>
       /\ pushing /\ using \in Handles /\ kind[using] \in {"ssh", "scp", "broken"}
       /\ kind[using] = "scp" => using \in live

IInv == CallerInv /\ ScpInv

-----------------------------------------------------------------------------
LEMMA OrderedTail ==
  ASSUME NEW s \in Seq(Steps), s # <<>>, Ordered(s)
  PROVE  /\ Head(s) \in Steps /\ Tail(s) \in Seq(Steps) /\ Ordered(Tail(s))
         /\ Tail(s) # <<>> => Comes(Head(s), Head(Tail(s)))
<1>1. Len(s) \in Nat /\ Len(s) > 0 /\ Head(s) = s[1] /\ Head(s) \in Steps
  OBVIOUS
<1>2. Tail(s) \in Seq(Steps) /\ Len(Tail(s)) = Len(s) - 1
  OBVIOUS
<1>3. \A i \in 1 .. Len(s) - 1 : Tail(s)[i] = s[i + 1]
  OBVIOUS
<1>4. Ordered(Tail(s))
  <2>1. SUFFICES ASSUME NEW i \in 1 .. Len(Tail(s)) - 1
                 PROVE  Comes(Tail(s)[i], Tail(s)[i + 1])
    BY DEF Ordered
  <2>2. Tail(s)[i] = s[i + 1] /\ Tail(s)[i + 1] = s[(i + 1) + 1] /\ i + 1 \in 1 .. Len(s) - 1
    BY <1>1, <1>2, <1>3
  <2>3. Comes(s[i + 1], s[(i + 1) + 1])
    BY <2>2 DEF Ordered
  <2>4. QED
    BY <2>2, <2>3
<1>5. Tail(s) # <<>> => Comes(Head(s), Head(Tail(s)))
  <2>1. SUFFICES ASSUME Tail(s) # <<>> PROVE Comes(Head(s), Head(Tail(s)))
    OBVIOUS
  <2>2. Len(s) > 1 /\ Head(Tail(s)) = Tail(s)[1]
    BY <1>1, <1>2, <2>1
  <2>3. Head(Tail(s)) = s[2]
    BY <1>1, <1>2, <1>3, <2>2
  <2>4. 1 \in 1 .. Len(s) - 1 /\ 1 + 1 = 2
    BY <1>1, <2>2
  <2>5. Comes(s[1], s[2])
    BY <2>4 DEF Ordered
  <2>6. QED
    BY <1>1, <2>3, <2>5
<1>6. QED
  BY <1>1, <1>2, <1>4, <1>5

\* Every call is ordered, and begins with a step that needs at most a session.
LEMMA CallsOrdered ==
  ASSUME NEW c \in DOMAIN Calls
  PROVE  /\ Calls[c] \in Seq(Steps) /\ Ordered(Calls[c]) /\ Calls[c] # <<>>
         /\ Head(Calls[c]) \notin {"closeSSH", "openSSH", "ensureSSH", "openSFTP", "openSCP", "destruct"}
         /\ c \in NeedsNoSession => Head(Calls[c]) \in {"closeSFTP", "closeSCP"}
<1> USE DEF Steps, Ordered, Comes, NeedsNoSession
<1>1. CASE c = "connectSSH"
  <2>1. Calls[c] = <<"closeSFTP", "closeSSH", "openSSH">>
    BY <1>1 DEF Calls
  <2>2. QED
    BY <1>1, <2>1
<1>2. CASE c = "connectSFTP"
  <2>1. Calls[c] = <<"closeSFTP", "ensureSSH", "openSFTP">>
    BY <1>2 DEF Calls
  <2>2. QED
    BY <1>2, <2>1
<1>3. CASE c = "connectSCP"
  <2>1. Calls[c] = <<"forgetSCP", "openSCP">>
    BY <1>3 DEF Calls
  <2>2. QED
    BY <1>3, <2>1
<1>4. CASE c = "closeSSH"
  <2>1. Calls[c] = <<"closeSFTP", "closeSSH">>
    BY <1>4 DEF Calls
  <2>2. QED
    BY <1>4, <2>1
<1>5. CASE c = "destroy"
  <2>1. Calls[c] = <<"closeSFTP", "closeSCP", "closeSFTP", "closeSSH", "destruct">>
    BY <1>5 DEF Calls
  <2>2. QED
    BY <1>5, <2>1
<1>6. CASE c \in {"closeSFTP", "closeSCP"}
  <2>1. Calls[c] = <<c>>
    BY <1>6 DEF Calls
  <2>2. QED
    BY <1>6, <2>1
<1>7. CASE c \in {"executeCommand", "sftpCall", "scpCall", "removeDir", "sftpCopyDir", "scpCopyDir"}
  <2>1. \E a \in {"execute", "useSFTP", "useSCP", "removeDir", "copySFTP", "copySCP"} : Calls[c] = <<a>>
    BY <1>7 DEF Calls
  <2>2. QED
    BY <1>7, <2>1
<1>8. CASE c = "sftpCopySync"
  <2>1. Calls[c] = <<"copySFTP", "joinSFTP">>
    BY <1>8 DEF Calls
  <2>2. QED
    BY <1>8, <2>1
<1>9. CASE c = "scpCopySync"
  <2>1. Calls[c] = <<"copySCP", "joinSCP">>
    BY <1>9 DEF Calls
  <2>2. QED
    BY <1>9, <2>1
<1>10. c \in {"connectSSH", "connectSFTP", "connectSCP", "closeSSH", "destroy", "closeSFTP", "closeSCP",
              "executeCommand", "sftpCall", "scpCall", "removeDir", "sftpCopyDir", "scpCopyDir",
              "sftpCopySync", "scpCopySync"}
  BY DEF Calls
<1>11. QED
  BY <1>1, <1>2, <1>3, <1>4, <1>5, <1>6, <1>7, <1>8, <1>9, <1>10

\* The call after a step: what is left of it stays ordered.
LEMMA CallGoesOn ==
  ASSUME CallerInv, call # <<>>, Proceed \/ Return
  PROVE  /\ call' \in Seq(Steps) /\ Ordered(call')
         /\ call' # <<>> => Comes(Head(call), Head(call'))
<1>1. call \in Seq(Steps) /\ Ordered(call)
  BY DEF CallerInv, TypeOK, CallInv
<1>2. CASE Proceed
  BY <1>1, <1>2, OrderedTail DEF Proceed
<1>3. CASE Return
  BY <1>3 DEF Return, Ordered
<1>4. QED
  BY <1>2, <1>3

\* The handles of a session that is open are allocated; the sftp object holds the same.
LEMMA ClientIsLive ==
  ASSUME CallerInv, client.ssh # Null
  PROVE  /\ sftp = client /\ client.ssh \in live
         /\ client.sftp \in live \cup {Null}
         /\ Existing("sftp") \subseteq live
BY DEF CallerInv, TypeOK, SftpFollowsClient, Existing, Null

LEMMA InitInv == Init => CallerInv
<1> USE DEF Handles, Pointers, Null, Garbage, Parts
<1>1. SUFFICES ASSUME Init PROVE CallerInv
  OBVIOUS
<1>2. 0 \in Pointers /\ Garbage \in Pointers /\ "none" \in Kinds
  BY MaxHandlesAssumption DEF Kinds
<1>3. call \in Seq(Steps)
  BY <1>1 DEF Init
<1>4. kind \in [Handles -> Kinds] /\ owner \in [Handles -> Pointers]
  BY <1>1, <1>2 DEF Init
<1>5. TypeOK
  BY <1>1, <1>2, <1>3, <1>4 DEF Init, TypeOK
<1>6. CallInv /\ HandleInv /\ ThreadInv
  BY <1>1 DEF Init, CallInv, Owners, HandleInv, ThreadInv, Ordered
<1>7. SftpFollowsClient /\ OnlyScpLeft
  BY <1>1 DEF Init, SftpFollowsClient, OnlyScpLeft
<1>8. QED
  BY <1>5, <1>6, <1>7 DEF CallerInv

-----------------------------------------------------------------------------
\* A step keeps CallerInv when it keeps its parts; the unchanged ones need no mention.
LEMMA SameHandles ==
  ASSUME CallerInv, UNCHANGED <<handleVars, client, sftp, scp>>, file' = file
  PROVE  HandleInv' /\ SftpFollowsClient' /\ OnlyScpLeft'
<1>1. HandleInv /\ SftpFollowsClient /\ OnlyScpLeft
  BY DEF CallerInv
<1>2. HandleInv'
  BY <1>1 DEF HandleInv, Owners, handleVars
<1>3. SftpFollowsClient'
  BY <1>1 DEF SftpFollowsClient, handleVars
<1>4. OnlyScpLeft'
  BY <1>1 DEF OnlyScpLeft, handleVars
<1>5. QED
  BY <1>2, <1>3, <1>4

LEMMA SameTypes ==
  ASSUME CallerInv, UNCHANGED <<handleVars, client, sftp, scp>>, call' \in Seq(Steps),
         copying' = copying \/ \E p \in Parts, c \in {"none", "running", "ended"} :
                                 copying' = [copying EXCEPT ![p] = c],
         file' \in {file, sftp.sftp, Null}, pushing' \in BOOLEAN, using' \in Pointers,
         status' \in {"alive", "destroyed", "terminated"},
         answer' \in BOOLEAN, folder' \in BOOLEAN,
         misuse' \subseteq Pointers
  PROVE  TypeOK'
<1>1. TypeOK
  BY DEF CallerInv
<1>2. copying' \in [Parts -> {"none", "running", "ended"}]
  BY <1>1 DEF TypeOK
<1>3. file' \in Pointers
  BY <1>1, MaxHandlesAssumption DEF TypeOK, Null, Pointers
<1>4. QED
  BY <1>1, <1>2, <1>3 DEF TypeOK, handleVars

\* What libssh is given are pointers.
LEMMA GivenPointers ==
  ASSUME CallerInv, NEW H \in SUBSET Pointers, Given(H)
  PROVE  misuse' \subseteq Pointers
<1>1. \A h \in H : With(h) \subseteq Pointers
  BY DEF CallerInv, TypeOK, With
<1>2. UNION {With(h) : h \in H} \subseteq Pointers
  BY <1>1
<1>3. misuse \subseteq Pointers
  BY DEF CallerInv, TypeOK
<1>4. QED
  BY <1>2, <1>3 DEF Given

LEMMA ExistingPointers ==
  ASSUME CallerInv, NEW p
  PROVE  Existing(p) \subseteq Pointers
BY DEF CallerInv, TypeOK, Existing

\* A part of the steps: those that change no handle.
LEMMA NextQuiet ==
  ASSUME CallerInv,
         \/ \E c \in DOMAIN Calls : Begin(c)
         \/ SkipClosed \/ Use \/ RemoveDir \/ Destruct
         \/ \E p \in Parts : CopyDir(p) \/ JoinCopy(p) \/ CopyEnds(p)
         \/ CopyTest \/ CopyEnter \/ CopyLeave \/ CopyFileEnds \/ OpenFile \/ CloseFile
  PROVE  CallerInv'
<1> USE DEF resultVars, threadVars, At
<1>t. TypeOK /\ CallInv /\ ThreadInv
  BY DEF CallerInv
<1>1. CASE \E c \in DOMAIN Calls : Begin(c)
  <2>1. PICK c \in DOMAIN Calls : Begin(c)
    BY <1>1
  <2>2. TypeOK' /\ HandleInv' /\ SftpFollowsClient' /\ OnlyScpLeft'
    BY <1>t, <2>1, CallsOrdered, SameTypes, SameHandles DEF Begin, TypeOK
  <2>3. CallInv'
    BY <2>1, CallsOrdered DEF Begin, CallInv, Ready, NeedsNoSession
  <2>4. ThreadInv'
    BY <1>t, <2>1 DEF Begin, ThreadInv
  <2>5. QED
    BY <2>2, <2>3, <2>4 DEF CallerInv
<1>2. CASE SkipClosed
  <2>1. TypeOK' /\ HandleInv' /\ SftpFollowsClient' /\ OnlyScpLeft'
    BY <1>t, <1>2, CallGoesOn, SameTypes, SameHandles DEF SkipClosed, TypeOK
  <2>2. CallInv'
    BY <1>t, <1>2, CallGoesOn DEF SkipClosed, CallInv, Ready, Comes
  <2>3. ThreadInv'
    BY <1>t, <1>2 DEF SkipClosed, ThreadInv
  <2>4. QED
    BY <2>1, <2>2, <2>3 DEF CallerInv
<1>3. CASE Use
  <2>1. misuse' \subseteq Pointers
    BY <1>t, <1>3, GivenPointers, ExistingPointers DEF Use, TypeOK
  <2>2. TypeOK' /\ HandleInv' /\ SftpFollowsClient' /\ OnlyScpLeft'
    BY <1>t, <1>3, <2>1, CallGoesOn, SameTypes, SameHandles DEF Use, TypeOK
  <2>3. CallInv'
    BY <1>t, <1>3, CallGoesOn DEF Use, CallInv, Ready, Comes
  <2>4. ThreadInv'
    BY <1>t, <1>3 DEF Use, ThreadInv
  <2>5. QED
    BY <2>2, <2>3, <2>4 DEF CallerInv
<1>4. CASE RemoveDir
  <2>1. misuse' \subseteq Pointers /\ answer' \in BOOLEAN
    BY <1>4, GivenPointers, ExistingPointers DEF RemoveDir
  <2>2. TypeOK' /\ HandleInv' /\ SftpFollowsClient' /\ OnlyScpLeft'
    BY <1>t, <1>4, <2>1, CallGoesOn, SameTypes, SameHandles DEF RemoveDir, TypeOK
  <2>3. CallInv'
    BY <1>t, <1>4, CallGoesOn DEF RemoveDir, CallInv, Ready, Comes
  <2>4. ThreadInv'
    BY <1>t, <1>4 DEF RemoveDir, ThreadInv
  <2>5. QED
    BY <2>2, <2>3, <2>4 DEF CallerInv
<1>5. CASE Destruct
  <2>1. TypeOK' /\ CallInv' /\ ThreadInv'
    BY <1>t, <1>5, CallGoesOn, SameTypes DEF Destruct, CallInv, ThreadInv, Return, TypeOK
  <2>2. UNCHANGED <<handleVars, client, sftp, scp, file>>
    BY <1>5 DEF Destruct
  <2>3. HandleInv' /\ SftpFollowsClient' /\ OnlyScpLeft'
    BY <2>2, SameHandles
  <2>4. QED
    BY <2>1, <2>3 DEF CallerInv
<1>6. ASSUME NEW p \in Parts, CopyDir(p)
      PROVE  CallerInv'
  <2>1. call # <<>> /\ (Proceed \/ Return)
    BY <1>6 DEF CopyDir
  <2>2. \/ copying' = copying
        \/ copying' = [copying EXCEPT ![p] = "running"] /\ Existing(p) # {} /\ ThreadGone(p)
    BY <1>6 DEF CopyDir
  <2>3. status' \in {"alive", "terminated"}
    BY <1>6 DEF CopyDir
  <2>4. TypeOK' /\ HandleInv' /\ SftpFollowsClient' /\ OnlyScpLeft'
    BY <1>t, <1>6, <2>1, <2>2, <2>3, CallGoesOn, SameTypes, SameHandles DEF CopyDir, TypeOK
  <2>5. CallInv'
    BY <1>t, <1>6, <2>1, CallGoesOn DEF CopyDir, CallInv, Ready, Comes, Return
  <2>6. ThreadInv'
    <3>1. p = "sftp" => client.ssh # Null
      BY <1>t, <1>6 DEF CopyDir, CallInv, Ready
    <3>2. p = "sftp" /\ Existing(p) # {} => client.sftp # Null
      BY <3>1, ClientIsLive DEF Existing
    <3>3. UNCHANGED <<client, file>>
      BY <1>6 DEF CopyDir
    <3>4. QED
      BY <1>t, <2>2, <3>2, <3>3 DEF ThreadInv, TypeOK, Parts, ThreadGone
  <2>7. QED
    BY <2>4, <2>5, <2>6 DEF CallerInv
<1>7. ASSUME NEW p \in Parts, JoinCopy(p)
      PROVE  CallerInv'
  <2>1. copying' = [copying EXCEPT ![p] = "none"] /\ copying[p] # "running"
    BY <1>7 DEF JoinCopy, Cancel, Joinable
  <2>2. TypeOK' /\ HandleInv' /\ SftpFollowsClient' /\ OnlyScpLeft'
    BY <1>t, <1>7, <2>1, CallGoesOn, SameTypes, SameHandles DEF JoinCopy, TypeOK
  <2>3. CallInv'
    BY <1>t, <1>7, CallGoesOn DEF JoinCopy, CallInv, Ready, Comes
  <2>4. ThreadInv'
    BY <1>t, <1>7, <2>1 DEF JoinCopy, ThreadInv, TypeOK
  <2>5. QED
    BY <2>2, <2>3, <2>4 DEF CallerInv
<1>8. ASSUME NEW p \in Parts, CopyEnds(p)
      PROVE  CallerInv'
  <2>1. TypeOK' /\ HandleInv' /\ SftpFollowsClient' /\ OnlyScpLeft'
    BY <1>t, <1>8, SameTypes, SameHandles DEF CopyEnds, TypeOK
  <2>2. CallInv'
    BY <1>t, <1>8 DEF CopyEnds, CallInv, Ready, Ordered
  <2>3. ThreadInv'
    BY <1>t, <1>8 DEF CopyEnds, ThreadInv, TypeOK
  <2>4. QED
    BY <2>1, <2>2, <2>3 DEF CallerInv
<1>9. CASE CopyTest \/ CopyEnter \/ CopyLeave \/ CopyFileEnds
  <2>1. /\ UNCHANGED <<handleVars, client, sftp, scp, copying, file, call, status, answer>>
        /\ folder' \in BOOLEAN /\ pushing' \in BOOLEAN
    BY <1>t, <1>9 DEF CopyTest, CopyEnter, CopyLeave, CopyFileEnds, TypeOK
  <2>2. using' \in Pointers
    <3>1. using' \in {using, scp.ssh, scp.scp, Null}
      BY <1>9 DEF CopyTest, CopyEnter, CopyLeave, CopyFileEnds
    <3>2. Null \in Pointers
      BY MaxHandlesAssumption DEF Null, Pointers
    <3>3. scp.ssh \in Pointers /\ scp.scp \in Pointers /\ using \in Pointers
      BY <1>t DEF TypeOK
    <3>4. QED
      BY <3>1, <3>2, <3>3
  <2>3. misuse' \subseteq Pointers
    BY <1>t, <1>9, GivenPointers DEF CopyTest, CopyEnter, CopyLeave, CopyFileEnds, TypeOK
  <2>4. TypeOK' /\ HandleInv' /\ SftpFollowsClient' /\ OnlyScpLeft'
    BY <1>t, <2>1, <2>2, <2>3, SameTypes, SameHandles DEF TypeOK
  <2>5. CallInv' /\ ThreadInv'
    BY <1>t, <2>1 DEF CallInv, Ready, Ordered, ThreadInv
  <2>6. QED
    BY <2>4, <2>5 DEF CallerInv
<1>10. CASE OpenFile
  <2>1. misuse' \subseteq Pointers
    BY <1>10, GivenPointers, ExistingPointers DEF OpenFile
  <2>2. TypeOK'
    BY <1>t, <1>10, <2>1, SameTypes DEF OpenFile, TypeOK
  <2>3. CallInv' /\ ThreadInv'
    BY <1>t, <1>10 DEF OpenFile, CallInv, Ready, Ordered, ThreadInv
  <2>4. client.sftp # Null /\ HandleInv /\ SftpFollowsClient /\ OnlyScpLeft
    BY <1>t, <1>10 DEF OpenFile, ThreadInv, CallerInv
  <2>5. sftp = client
    BY <2>4 DEF SftpFollowsClient
  <2>6. HandleInv' /\ OnlyScpLeft'
    BY <1>10, <2>4 DEF OpenFile, HandleInv, Owners, OnlyScpLeft, handleVars
  <2>7. SftpFollowsClient'
    BY <1>10, <2>4, <2>5 DEF OpenFile, SftpFollowsClient, handleVars
  <2>8. QED
    BY <2>2, <2>3, <2>6, <2>7 DEF CallerInv
<1>11. CASE CloseFile
  <2>1. misuse' \subseteq Pointers
    BY <1>t, <1>11, GivenPointers, ExistingPointers DEF CloseFile, TypeOK
  <2>2. TypeOK'
    BY <1>t, <1>11, <2>1, SameTypes DEF CloseFile, TypeOK
  <2>3. CallInv' /\ ThreadInv'
    BY <1>t, <1>11 DEF CloseFile, CallInv, Ready, Ordered, ThreadInv
  <2>4. HandleInv /\ SftpFollowsClient /\ OnlyScpLeft
    BY DEF CallerInv
  <2>5. HandleInv' /\ OnlyScpLeft' /\ SftpFollowsClient'
    BY <1>11, <2>4 DEF CloseFile, HandleInv, Owners, OnlyScpLeft, SftpFollowsClient, handleVars
  <2>6. QED
    BY <2>2, <2>3, <2>5 DEF CallerInv
<1>12. QED
  BY <1>1, <1>2, <1>3, <1>4, <1>5, <1>6, <1>7, <1>8, <1>9, <1>10, <1>11

\* A handle that libssh hands out is none of those in use, and belongs to whom it was opened for.
LEMMA HandedOut ==
  ASSUME TypeOK, NEW h \in Unused, NEW k \in Kinds \ {"none"}, NEW s \in Pointers,
         HandOut(h, k, s)
  PROVE  /\ h \in Handles /\ h \in Pointers /\ h # Null /\ kind[h] = "none" /\ h \notin live
         /\ kind'[h] = k /\ owner'[h] = s
         /\ \A g \in Handles \ {h} : kind'[g] = kind[g] /\ owner'[g] = owner[g]
         /\ kind' \in [Handles -> Kinds]
         /\ owner' \in [Handles -> Pointers]
<1>1. h \in Handles /\ kind[h] = "none" /\ k \in Kinds
  BY DEF Unused
<1>2. h \in Pointers /\ h # Null
  BY <1>1, MaxHandlesAssumption DEF Handles, Pointers, Null
<1>3. h \notin live
  BY <1>1 DEF TypeOK
<1>4. QED
  BY <1>1, <1>2, <1>3 DEF TypeOK, HandOut

LEMMA OwnersKept ==
  ASSUME TypeOK, Owners, NEW h \in Unused, NEW k \in Kinds \ {"none"}, NEW s \in Pointers,
         HandOut(h, k, s),
         IF k = "ssh" THEN s = Null ELSE s \in Handles /\ kind[s] = "ssh"
  PROVE  Owners'
<1>1. /\ kind[h] = "none" /\ kind'[h] = k /\ owner'[h] = s
      /\ \A g \in Handles \ {h} : kind'[g] = kind[g] /\ owner'[g] = owner[g]
  BY HandedOut
<1>2. \A g \in Handles : kind[g] = "ssh" => kind'[g] = "ssh"
  BY <1>1
<1>3. QED
  BY <1>1, <1>2 DEF Owners

\* The pointers there are; and which of them the client's are.
LEMMA KnownPointers ==
  ASSUME CallerInv
  PROVE  /\ Null \in Pointers /\ Null \notin Handles
         /\ {client.ssh, client.sftp, scp.scp} \subseteq Handles \cup {Null}
         /\ {client.ssh, client.sftp, scp.ssh, scp.scp} \subseteq Pointers
         /\ live \subseteq Handles /\ \A h \in live : kind[h] # "none"
<1>1. Null \in Pointers /\ Null \notin Handles
  BY MaxHandlesAssumption DEF Pointers, Null, Handles
<1>2. QED
  BY <1>1 DEF CallerInv, TypeOK, HandleInv, SftpFollowsClient

\* The steps that close, open or copy handles.
LEMMA NextHandles ==
  ASSUME CallerInv,
         \/ CloseSFTP \/ CloseSCP \/ CloseSSH
         \/ OpenSSHFails \/ OpenSSH \/ OpenSFTPFails \/ OpenSFTP
         \/ ForgetSCP \/ OpenSCPFails \/ OpenSCP
  PROVE  CallerInv'
<1> USE DEF resultVars, threadVars, At
<1>t. TypeOK /\ CallInv /\ HandleInv /\ ThreadInv /\ SftpFollowsClient /\ OnlyScpLeft
  BY DEF CallerInv
<1>k. /\ Null \in Pointers /\ Null \notin Handles
      /\ {client.ssh, client.sftp, scp.scp} \subseteq Handles \cup {Null}
      /\ {client.ssh, client.sftp, scp.ssh, scp.scp} \subseteq Pointers
      /\ live \subseteq Handles /\ \A h \in live : kind[h] # "none"
  BY KnownPointers
<1>h. HandleInv /\ SftpFollowsClient /\ OnlyScpLeft
  BY <1>t
<1>ty. \A p \in Parts : [copying EXCEPT ![p] = "none"] \in [Parts -> {"none", "running", "ended"}]
  BY <1>t DEF TypeOK
<1>1. CASE CloseSFTP
  <2>1. copying["sftp"] # "running" /\ copying' = [copying EXCEPT !["sftp"] = "none"]
    BY <1>1 DEF CloseSFTP, Cancel, Joinable
  <2>2. /\ call # <<>> /\ Proceed /\ Head(call) = "closeSFTP" /\ client.sftp # Null
        /\ live' = live \ {client.sftp}
        /\ UNCHANGED <<kind, owner, scp, status, answer, folder, file, pushing, using>>
    BY <1>1 DEF CloseSFTP
  <2>3. /\ client' = [ssh |-> client.ssh, sftp |-> Null]
        /\ sftp' = [ssh |-> client.ssh, sftp |-> Null]
    BY <1>1, <1>t DEF CloseSFTP, TypeOK
  <2>4. misuse' \subseteq Pointers
    BY <1>1, <1>k, GivenPointers DEF CloseSFTP
  <2>5. TypeOK'
    BY <1>t, <1>k, <1>ty, <2>1, <2>2, <2>3, <2>4, CallGoesOn DEF TypeOK, Parts
  <2>6. CallInv'
    BY <2>2, <2>3, CallGoesOn DEF CallInv, Ready, Comes
  <2>7. ThreadInv' /\ file = Null
    BY <1>t, <2>1, <2>2 DEF ThreadInv, TypeOK, Parts
  <2>8. HandleInv' /\ OnlyScpLeft'
    BY <1>h, <1>k, <1>1, <2>2, <2>3 DEF Owners, HandleInv, SftpFollowsClient, OnlyScpLeft, CloseSFTP
  <2>9. SftpFollowsClient'
    BY <1>h, <2>2, <2>3, <2>7 DEF HandleInv, SftpFollowsClient
  <2>10. QED
    BY <2>5, <2>6, <2>7, <2>8, <2>9 DEF CallerInv
<1>2. CASE CloseSCP
  <2>1. copying' = [copying EXCEPT !["scp"] = "none"]
    BY <1>2 DEF CloseSCP, Cancel
  <2>2. /\ call # <<>> /\ Proceed /\ Head(call) = "closeSCP" /\ scp.scp # Null
        /\ live' = live \ {scp.scp}
        /\ UNCHANGED <<kind, owner, client, sftp, status, answer, folder, file, pushing, using>>
    BY <1>2 DEF CloseSCP
  <2>3. scp' = [ssh |-> scp.ssh, scp |-> Null]
    BY <1>2, <1>t DEF CloseSCP, TypeOK
  <2>4. misuse' \subseteq Pointers
    BY <1>2, <1>k, GivenPointers DEF CloseSCP
  <2>5. TypeOK'
    BY <1>t, <1>k, <1>ty, <2>1, <2>2, <2>3, <2>4, CallGoesOn DEF TypeOK, Parts
  <2>6. CallInv'
    BY <2>2, <2>3, CallGoesOn DEF CallInv, Ready, Comes
  <2>7. ThreadInv'
    BY <1>t, <2>1, <2>2 DEF ThreadInv, TypeOK, Parts
  <2>8. HandleInv'
    BY <1>h, <2>2, <2>3 DEF Owners, HandleInv
  <2>9. OnlyScpLeft'
    BY <1>h, <1>2, <2>2, <2>3 DEF OnlyScpLeft, CloseSCP
  <2>10. SftpFollowsClient'
    BY <1>h, <2>2, <2>3 DEF HandleInv, SftpFollowsClient
  <2>11. QED
    BY <2>5, <2>6, <2>7, <2>8, <2>9, <2>10 DEF CallerInv
<1>3. CASE CloseSSH
  <2>1. client.sftp = Null
    BY <1>3, <1>t DEF CloseSSH, CallInv, Ready
  <2>2. /\ call # <<>> /\ Proceed /\ Head(call) = "closeSSH" /\ client.ssh # Null
        /\ live' = live \ {client.ssh}
        /\ UNCHANGED <<kind, owner, scp, copying, status, answer, folder, file, pushing, using>>
    BY <1>3 DEF CloseSSH
  <2>3. /\ client' = [ssh |-> Null, sftp |-> Null]
        /\ sftp' = [ssh |-> Null, sftp |-> Null]
    BY <1>3, <1>t, <2>1 DEF CloseSSH, TypeOK, SftpForgets
  <2>4. misuse' \subseteq Pointers
    BY <1>3, <1>k, GivenPointers DEF CloseSSH
  <2>5. TypeOK'
    BY <1>t, <1>k, <2>2, <2>3, <2>4, CallGoesOn DEF TypeOK
  <2>6. CallInv'
    BY <2>2, <2>3, CallGoesOn DEF CallInv, Ready, Comes
  <2>7. ThreadInv' /\ file = Null
    BY <1>t, <2>1, <2>2, <2>3 DEF ThreadInv
  <2>8. \A h \in live : kind[h] = "scp" => h \in live'
    BY <1>h, <2>2 DEF HandleInv
  <2>9. HandleInv' /\ SftpFollowsClient' /\ OnlyScpLeft'
    BY <1>h, <1>k, <2>1, <2>2, <2>3, <2>7, <2>8 DEF Owners, HandleInv, SftpFollowsClient, OnlyScpLeft
  <2>10. QED
    BY <2>5, <2>6, <2>7, <2>9 DEF CallerInv
<1>4. CASE OpenSSHFails
  <2>1. /\ call # <<>> /\ Return /\ live' = live
        /\ UNCHANGED <<client, sftp, scp, copying, status, answer, folder, file, pushing, using>>
    BY <1>4 DEF OpenSSHFails, handleVars, LeftOnFailure, Opening
  <2>2. misuse' \subseteq Pointers
    BY <1>t, <1>k, <1>4, GivenPointers DEF OpenSSHFails, TypeOK
  <2>3. /\ kind' \in [Handles -> Kinds]
        /\ owner' \in [Handles -> Pointers]
        /\ \A g \in Handles : kind[g] # "none" => kind'[g] = kind[g] /\ owner'[g] = owner[g]
        /\ Owners'
    <3>1. CASE UNCHANGED handleVars
      BY <1>t, <3>1 DEF TypeOK, Owners, HandleInv, handleVars
    <3>2. CASE \E h \in Unused : HandOut(h, "ssh", Null)
      BY <1>t, <1>h, <1>k, <3>2, HandedOut, OwnersKept DEF HandleInv, Kinds
    <3>3. QED
      BY <1>4, <3>1, <3>2 DEF OpenSSHFails
  <2>4. TypeOK'
    BY <1>t, <1>k, <2>1, <2>2, <2>3, CallGoesOn DEF TypeOK
  <2>5. CallInv' /\ ThreadInv'
    BY <1>t, <2>1, CallGoesOn DEF CallInv, ThreadInv, Return
  <2>6. HandleInv' /\ SftpFollowsClient' /\ OnlyScpLeft'
    BY <1>h, <1>k, <2>1, <2>3 DEF HandleInv, SftpFollowsClient, OnlyScpLeft
  <2>7. QED
    BY <2>4, <2>5, <2>6 DEF CallerInv
<1>5. CASE OpenSFTPFails
  <2>1. /\ call # <<>> /\ Return /\ live' = live
        /\ UNCHANGED <<client, sftp, scp, copying, status, answer, folder, file, pushing, using>>
    BY <1>5 DEF OpenSFTPFails, handleVars, LeftOnFailure
  <2>2. misuse' \subseteq Pointers
    BY <1>t, <1>k, <1>5, GivenPointers DEF OpenSFTPFails, TypeOK
  <2>3. /\ kind' \in [Handles -> Kinds]
        /\ owner' \in [Handles -> Pointers]
        /\ \A g \in Handles : kind[g] # "none" => kind'[g] = kind[g] /\ owner'[g] = owner[g]
        /\ Owners'
    <3>1. CASE UNCHANGED handleVars
      BY <1>t, <3>1 DEF TypeOK, Owners, HandleInv, handleVars
    <3>2. CASE \E h \in Unused : HandOut(h, "sftp", client.ssh)
      <4>1. client.ssh # Null
        BY <1>t, <1>5 DEF OpenSFTPFails, CallInv, Ready
      <4>2. client.ssh \in Handles /\ kind[client.ssh] = "ssh"
        BY <1>h, <1>k, <4>1 DEF HandleInv
      <4>3. QED
        BY <1>t, <1>h, <1>k, <3>2, <4>2, HandedOut, OwnersKept DEF HandleInv, Kinds
    <3>3. QED
      BY <1>5, <3>1, <3>2 DEF OpenSFTPFails
  <2>4. TypeOK'
    BY <1>t, <1>k, <2>1, <2>2, <2>3, CallGoesOn DEF TypeOK
  <2>5. CallInv' /\ ThreadInv'
    BY <1>t, <2>1, CallGoesOn DEF CallInv, ThreadInv, Return
  <2>6. HandleInv' /\ SftpFollowsClient' /\ OnlyScpLeft'
    BY <1>h, <1>k, <2>1, <2>3 DEF HandleInv, SftpFollowsClient, OnlyScpLeft
  <2>7. QED
    BY <2>4, <2>5, <2>6 DEF CallerInv
<1>6. CASE OpenSSH
  <2>1. PICK h \in Unused :
          /\ HandOut(h, "ssh", Null)
          /\ live' = live \cup {h}
          /\ client' = [client EXCEPT !.ssh = h]
          /\ sftp' = [ssh |-> h, sftp |-> Null]
          /\ scp' = [ssh |-> h, scp |-> Null]
    BY <1>6 DEF OpenSSH
  <2>2. /\ h \in Handles /\ h \in Pointers /\ h # Null /\ kind'[h] = "ssh"
        /\ kind' \in [Handles -> Kinds]
        /\ owner' \in [Handles -> Pointers]
        /\ kind[h] = "none" /\ h \notin live /\ Owners'
        /\ \A g \in Handles \ {h} : kind'[g] = kind[g] /\ owner'[g] = owner[g]
    BY <1>t, <1>h, <1>k, <2>1, HandedOut, OwnersKept DEF HandleInv, Kinds
  <2>3. /\ call # <<>> /\ Proceed /\ Head(call) \in {"openSSH", "ensureSSH"}
        /\ UNCHANGED <<copying, status, answer, folder, file, pushing, using, misuse>>
    BY <1>6 DEF OpenSSH, Opening
  <2>4. client.ssh = Null /\ client.sftp = Null
    BY <1>6, <1>t DEF OpenSSH, Opening, CallInv, Ready, SftpFollowsClient
  <2>5. client' = [ssh |-> h, sftp |-> Null]
    BY <1>t, <2>1, <2>4 DEF TypeOK
  <2>6. TypeOK'
    BY <1>t, <1>k, <2>1, <2>2, <2>3, <2>4, <2>5, CallGoesOn DEF TypeOK
  <2>7. CallInv'
    BY <2>2, <2>3, <2>5, CallGoesOn DEF CallInv, Ready, Comes
  <2>8. ThreadInv' /\ file = Null
    BY <1>t, <2>3, <2>4 DEF ThreadInv
  <2>9. \A g \in live : kind[g] = "scp" /\ kind'[g] = "scp"
    BY <1>h, <1>k, <2>2, <2>4 DEF OnlyScpLeft
  <2>10. HandleInv' /\ SftpFollowsClient' /\ OnlyScpLeft'
    BY <2>1, <2>2, <2>3, <2>4, <2>5, <2>8, <2>9
    DEF HandleInv, SftpFollowsClient, OnlyScpLeft
  <2>11. QED
    BY <2>6, <2>7, <2>8, <2>10 DEF CallerInv
<1>7. CASE OpenSFTP
  <2>1. PICK h \in Unused :
          /\ HandOut(h, "sftp", client.ssh)
          /\ live' = live \cup {h}
          /\ client' = [client EXCEPT !.sftp = h]
          /\ sftp' = [ssh |-> client.ssh, sftp |-> h]
    BY <1>7 DEF OpenSFTP
  <2>2. /\ h \in Handles /\ h \in Pointers /\ h # Null /\ kind'[h] = "sftp"
        /\ kind[h] = "none" /\ h \notin live /\ owner'[h] = client.ssh
        /\ kind' \in [Handles -> Kinds]
        /\ owner' \in [Handles -> Pointers]
        /\ \A g \in Handles \ {h} : kind'[g] = kind[g] /\ owner'[g] = owner[g]
    BY <1>t, <1>k, <2>1, HandedOut DEF Kinds
  <2>3. /\ call # <<>> /\ Proceed /\ Head(call) = "openSFTP"
        /\ UNCHANGED <<scp, copying, status, answer, folder, file, pushing, using>>
    BY <1>7 DEF OpenSFTP
  <2>4. client.ssh # Null /\ client.sftp = Null
    BY <2>3, <1>t DEF CallInv, Ready
  <2>5. client' = [ssh |-> client.ssh, sftp |-> h] /\ client.ssh \in live /\ client.ssh # h
    BY <1>t, <1>h, <2>1, <2>2, <2>4 DEF TypeOK, SftpFollowsClient
  <2>6. misuse' \subseteq Pointers
    BY <1>7, <1>k, GivenPointers DEF OpenSFTP
  <2>7. TypeOK'
    BY <1>t, <1>k, <2>1, <2>2, <2>3, <2>5, <2>6, CallGoesOn DEF TypeOK
  <2>8. CallInv'
    BY <2>3, CallGoesOn DEF CallInv, Ready, Comes
  <2>9. ThreadInv' /\ file = Null
    BY <1>t, <2>2, <2>3, <2>4, <2>5 DEF ThreadInv
  <2>10. status' # "destroyed"
    BY <1>7, <2>3 DEF OpenSFTP
  <2>11. HandleInv'
    <3>1. Owners'
      BY <1>t, <1>h, <1>k, <2>1, <2>4, OwnersKept DEF HandleInv, Kinds
    <3>2. \A g \in Handles : kind[g] # "none" => kind'[g] = kind[g] /\ owner'[g] = owner[g]
      BY <2>2
    <3>3. QED
      BY <1>h, <1>k, <2>1, <2>2, <2>3, <2>4, <2>5, <3>1, <3>2 DEF HandleInv
  <2>12. SftpFollowsClient'
    BY <2>1, <2>2, <2>3, <2>4, <2>5, <2>9 DEF SftpFollowsClient
  <2>13. OnlyScpLeft'
    BY <1>h, <1>k, <2>1, <2>2, <2>3, <2>4, <2>5, <2>10 DEF OnlyScpLeft
  <2>14. QED
    BY <2>7, <2>8, <2>9, <2>11, <2>12, <2>13 DEF CallerInv
<1>8. CASE ForgetSCP
  <2>1. /\ call # <<>> /\ Proceed /\ Head(call) = "forgetSCP"
        /\ scp' = [ssh |-> client.ssh, scp |-> Null]
        /\ UNCHANGED <<kind, owner, live, client, sftp, copying, status, answer, folder, file, pushing, using, misuse>>
    BY <1>8 DEF ForgetSCP, handleVars
  <2>2. TypeOK'
    BY <1>t, <1>k, <2>1, CallGoesOn DEF TypeOK
  <2>3. CallInv'
    BY <1>t, <2>1, CallGoesOn DEF CallInv, Ready, Comes
  <2>4. client.ssh # Null /\ client.ssh \in Handles
    BY <1>t, <1>k, <2>1 DEF CallInv, Ready
  <2>5. ThreadInv' /\ SftpFollowsClient' /\ OnlyScpLeft'
    BY <1>t, <2>1 DEF ThreadInv, SftpFollowsClient, OnlyScpLeft
  <2>6. HandleInv'
    BY <1>t, <2>1, <2>4 DEF Owners, HandleInv
  <2>7. QED
    BY <2>2, <2>3, <2>5, <2>6 DEF CallerInv
<1>9. CASE OpenSCPFails
  <2>1. /\ call # <<>> /\ Return /\ live' = live
        /\ UNCHANGED <<client, sftp, copying, status, answer, folder, file, pushing, using>>
    BY <1>9 DEF OpenSCPFails, handleVars
  <2>2. misuse' \subseteq Pointers
    BY <1>9, <1>k, GivenPointers DEF OpenSCPFails
  <2>3. CallInv' /\ ThreadInv'
    BY <1>t, <2>1, CallGoesOn DEF CallInv, ThreadInv, Return
  <2>4. CASE UNCHANGED <<handleVars, scp>>
    <3>1. TypeOK'
      BY <1>t, <2>1, <2>2, <2>4, CallGoesOn DEF TypeOK, handleVars
    <3>2. HandleInv' /\ SftpFollowsClient' /\ OnlyScpLeft'
      BY <2>1, <2>4, SameHandles
    <3>3. QED
      BY <2>3, <3>1, <3>2 DEF CallerInv
  <2>5. CASE \E h \in Unused :
               HandOut(h, "broken", scp.ssh) /\ scp' = [scp EXCEPT !.scp = h]
    <3>1. PICK h \in Unused : HandOut(h, "broken", scp.ssh) /\ scp' = [scp EXCEPT !.scp = h]
      BY <2>5
    <3>2. /\ h \in Handles /\ h \in Pointers /\ kind'[h] = "broken" /\ owner'[h] = scp.ssh
          /\ kind[h] = "none" /\ h \notin live
          /\ kind' \in [Handles -> Kinds]
          /\ owner' \in [Handles -> Pointers]
          /\ \A g \in Handles \ {h} : kind'[g] = kind[g] /\ owner'[g] = owner[g]
      BY <1>t, <1>k, <3>1, HandedOut DEF Kinds
    <3>3. scp' = [ssh |-> scp.ssh, scp |-> h]
      BY <1>t, <3>1 DEF TypeOK
    <3>4. TypeOK'
      BY <1>t, <1>k, <2>1, <2>2, <3>2, <3>3, CallGoesOn DEF TypeOK
    <3>5. client.ssh # Null /\ scp.ssh = client.ssh /\ kind[client.ssh] = "ssh" /\ client.ssh \in Handles
      BY <1>t, <1>h, <1>k, <1>9 DEF OpenSCPFails, CallInv, Ready, HandleInv
    <3>6. Owners'
      BY <1>t, <1>h, <1>k, <3>1, <3>5, OwnersKept DEF HandleInv, Kinds
    <3>7. SftpFollowsClient' /\ OnlyScpLeft'
      BY <1>h, <1>k, <2>1, <3>2, <3>3 DEF SftpFollowsClient, OnlyScpLeft
    <3>8. HandleInv'
      <4>1. \A g \in Handles : kind[g] # "none" => kind'[g] = kind[g] /\ owner'[g] = owner[g]
        BY <3>2
      <4>2. scp.ssh # Garbage
        BY <3>5, MaxHandlesAssumption DEF Handles, Garbage
      <4>3. /\ client'.ssh # Null => kind'[client'.ssh] = "ssh" /\ scp'.ssh = client'.ssh
            /\ client'.sftp # Null => kind'[client'.sftp] = "sftp" /\ owner'[client'.sftp] = client'.ssh
        BY <1>h, <1>k, <2>1, <3>3, <3>5, <4>1 DEF HandleInv
      <4>4. scp'.ssh = client.ssh /\ scp'.ssh # Garbage /\ scp'.ssh \in Handles /\ kind'[scp'.ssh] = "ssh"
        BY <3>3, <3>5, <4>1, <4>2
      <4>5. scp'.scp = h /\ h \in Handles /\ owner'[h] = scp'.ssh /\ kind'[h] = "broken"
        BY <3>2, <3>3
      <4>6. QED
        BY <3>6, <4>3, <4>4, <4>5 DEF HandleInv, Garbage
    <3>9. QED
      BY <2>3, <3>4, <3>7, <3>8 DEF CallerInv
  <2>6. QED
    BY <1>9, <2>4, <2>5 DEF OpenSCPFails
<1>10. CASE OpenSCP
  <2>1. PICK h \in Unused :
          HandOut(h, "scp", scp.ssh) /\ live' = live \cup {h} /\ scp' = [scp EXCEPT !.scp = h]
    BY <1>10 DEF OpenSCP
  <2>2. /\ h \in Handles /\ h \in Pointers /\ kind'[h] = "scp" /\ owner'[h] = scp.ssh
        /\ kind[h] = "none" /\ h \notin live
        /\ kind' \in [Handles -> Kinds]
        /\ owner' \in [Handles -> Pointers]
        /\ \A g \in Handles \ {h} : kind'[g] = kind[g] /\ owner'[g] = owner[g]
    BY <1>t, <1>k, <2>1, HandedOut DEF Kinds
  <2>3. /\ call # <<>> /\ Proceed /\ Head(call) = "openSCP" /\ status' # "destroyed"
        /\ UNCHANGED <<client, sftp, copying, status, answer, folder, file, pushing, using>>
    BY <1>10 DEF OpenSCP
  <2>4. client.ssh # Null /\ scp.ssh = client.ssh
    BY <2>3, <1>t DEF CallInv, Ready
  <2>5. scp' = [ssh |-> client.ssh, scp |-> h]
    BY <1>t, <2>1, <2>4 DEF TypeOK
  <2>6. misuse' \subseteq Pointers
    BY <1>10, <1>k, GivenPointers DEF OpenSCP
  <2>7. TypeOK'
    BY <1>t, <1>k, <2>1, <2>2, <2>3, <2>5, <2>6, CallGoesOn DEF TypeOK
  <2>8. CallInv' /\ ThreadInv'
    BY <1>t, <2>3, CallGoesOn DEF CallInv, Ready, Comes, ThreadInv
  <2>9. kind[client.ssh] = "ssh" /\ client.ssh \in Handles
    BY <1>h, <1>k, <2>4 DEF HandleInv
  <2>10. Owners'
    BY <1>t, <1>h, <1>k, <2>1, <2>4, <2>9, OwnersKept DEF HandleInv, Kinds
  <2>11. SftpFollowsClient' /\ OnlyScpLeft'
    BY <1>h, <1>k, <2>1, <2>2, <2>3 DEF SftpFollowsClient, OnlyScpLeft
  <2>12. HandleInv'
    <3>1. \A g \in Handles : kind[g] # "none" => kind'[g] = kind[g] /\ owner'[g] = owner[g]
      BY <2>2
    <3>2. client.ssh # Garbage
      BY <2>9, MaxHandlesAssumption DEF Handles, Garbage
    <3>3. /\ client'.ssh # Null => kind'[client'.ssh] = "ssh" /\ scp'.ssh = client'.ssh
          /\ client'.sftp # Null => kind'[client'.sftp] = "sftp" /\ owner'[client'.sftp] = client'.ssh
      BY <1>h, <1>k, <2>3, <2>5, <2>9, <3>1 DEF HandleInv
    <3>4. scp'.ssh = client.ssh /\ scp'.ssh # Garbage /\ scp'.ssh \in Handles /\ kind'[scp'.ssh] = "ssh"
      BY <2>5, <2>9, <3>1, <3>2
    <3>5. scp'.scp = h /\ h \in Handles /\ owner'[h] = scp'.ssh /\ kind'[h] = "scp" /\ h \in live'
      BY <2>1, <2>2, <2>4, <2>5
    <3>6. QED
      BY <2>10, <3>3, <3>4, <3>5 DEF HandleInv, Garbage
  <2>13. QED
    BY <2>7, <2>8, <2>11, <2>12 DEF CallerInv
<1>11. QED
  BY <1>1, <1>2, <1>3, <1>4, <1>5, <1>6, <1>7, <1>8, <1>9, <1>10

LEMMA Stuttering == CallerInv /\ UNCHANGED vars => CallerInv'
<1>1. SUFFICES ASSUME CallerInv, UNCHANGED vars PROVE CallerInv'
  OBVIOUS
<1>2. TypeOK' /\ HandleInv' /\ SftpFollowsClient' /\ OnlyScpLeft'
  BY <1>1, SameTypes, SameHandles DEF vars, handleVars, CallerInv, TypeOK
<1>3. CallInv' /\ ThreadInv'
  BY <1>1 DEF vars, CallerInv, CallInv, Ready, Ordered, ThreadInv
<1>4. QED
  BY <1>2, <1>3 DEF CallerInv

LEMMA CallerInductive == CallerInv /\ [Next]_vars => CallerInv'
BY NextQuiet, NextHandles, Stuttering DEF Next, Step

\* The scp object changes, or handles end, only in ways the copy thread survives.
LEMMA ScpInductive ==
  ASSUME IInv, [Next]_vars
  PROVE  ScpInv'
<1> USE DEF At, resultVars, threadVars, handleVars
<1>t. TypeOK /\ CallInv /\ HandleInv /\ ThreadInv /\ SftpFollowsClient /\ OnlyScpLeft /\ ScpInv
  BY DEF IInv, CallerInv
<1>k. /\ Null \notin Handles /\ Garbage \notin Handles /\ Null # Garbage
      /\ {client.ssh, client.sftp} \subseteq Handles \cup {Null}
      /\ live \subseteq Handles
  <2>1. Null \notin Handles /\ Garbage \notin Handles /\ Null # Garbage
    BY MaxHandlesAssumption DEF Null, Handles, Garbage
  <2>2. QED
    BY <1>t, <2>1 DEF TypeOK, SftpFollowsClient
<1>0. ASSUME UNCHANGED <<kind, live, pushing, using>>,
             copying'["scp"] = copying["scp"], scp'.ssh = scp.ssh \/ scp'.ssh # Garbage
      PROVE  ScpInv'
  BY <1>t, <1>0 DEF ScpInv
<1>c. \A c \in {"none", "ended", "running"} :
        [copying EXCEPT !["sftp"] = c]["scp"] = copying["scp"] /\ [copying EXCEPT !["scp"] = c]["scp"] = c
  BY <1>t DEF TypeOK, Parts
<1>1. CASE \E c \in DOMAIN Calls : Begin(c)
  BY <1>0, <1>1 DEF Begin
<1>2. CASE SkipClosed \/ Use \/ RemoveDir \/ Destruct \/ OpenFile \/ CloseFile
  BY <1>0, <1>2 DEF SkipClosed, Use, RemoveDir, Destruct, OpenFile, CloseFile
<1>3. ASSUME NEW p \in Parts, CopyDir(p) PROVE ScpInv'
  <2>1. UNCHANGED <<kind, live, pushing, using, scp>>
    BY <1>3 DEF CopyDir
  <2>2. \/ copying' = copying
        \/ copying' = [copying EXCEPT ![p] = "running"] /\ Existing(p) # {} /\ ThreadGone(p)
    BY <1>3 DEF CopyDir
  <2>3. CASE copying' = copying \/ p = "sftp"
    BY <1>0, <1>c, <2>1, <2>2, <2>3
  <2>4. CASE copying' = [copying EXCEPT !["scp"] = "running"] /\ p = "scp" /\ Existing(p) # {}
    <3>1. scp.scp # Null
      BY <2>4 DEF Existing
    <3>2. copying'["scp"] = "running"
      BY <1>c, <2>4
    <3>3. QED
      BY <1>t, <2>1, <3>1, <3>2 DEF HandleInv, ScpInv
  <2>5. QED
    BY <2>2, <2>3, <2>4 DEF Parts
<1>4. ASSUME NEW p \in Parts, JoinCopy(p) \/ CopyEnds(p) PROVE ScpInv'
  <2>1. UNCHANGED <<kind, live, pushing, using, scp>>
    BY <1>4 DEF JoinCopy, CopyEnds
  <2>2. \E c \in {"none", "ended"} : copying' = [copying EXCEPT ![p] = c]
    BY <1>4 DEF JoinCopy, CopyEnds, Cancel
  <2>3. CASE p = "sftp"
    BY <1>0, <1>c, <2>1, <2>2, <2>3
  <2>4. CASE p = "scp"
    <3>1. ~pushing
      BY <1>t, <1>4, <2>4 DEF JoinCopy, CopyEnds, Cancel, Joinable, ScpInv
    <3>2. copying'["scp"] # "running"
      BY <1>c, <2>2, <2>4
    <3>3. QED
      BY <1>t, <2>1, <3>1, <3>2 DEF ScpInv
  <2>5. QED
    BY <2>3, <2>4 DEF Parts
<1>5. CASE CopyTest \/ CopyFileEnds
  BY <1>t, <1>5 DEF CopyTest, CopyFileEnds, ScpThread, ScpInv
<1>6. CASE CopyEnter
  <2>1. /\ copying["scp"] = "running" /\ pushing /\ using' \in {scp.ssh, scp.scp} \ {Null}
        /\ UNCHANGED <<kind, live, pushing, copying, scp>>
    BY <1>6 DEF CopyEnter, ScpThread
  <2>2. scp.ssh \in Handles /\ kind[scp.ssh] = "ssh"
    BY <1>t, <2>1 DEF ScpInv, HandleInv
  <2>3. scp.scp # Null => scp.scp \in Handles /\ kind[scp.scp] \in {"scp", "broken"}
                          /\ (kind[scp.scp] = "scp" => scp.scp \in live)
    BY <1>t DEF HandleInv
  <2>4. QED
    BY <1>t, <2>1, <2>2, <2>3 DEF ScpInv
<1>7. CASE CopyLeave
  BY <1>t, <1>7 DEF CopyLeave, ScpInv
<1>8. CASE CloseSFTP
  <2>1. /\ UNCHANGED <<kind, pushing, using, scp>> /\ copying'["scp"] = copying["scp"]
        /\ live' = live \ {client.sftp} /\ client.sftp # Null
    BY <1>8, <1>c DEF CloseSFTP, Cancel
  <2>2. kind[client.sftp] = "sftp"
    BY <1>t, <2>1 DEF HandleInv
  <2>3. QED
    BY <1>t, <2>1, <2>2 DEF ScpInv
<1>9. CASE CloseSCP
  <2>1. ~pushing /\ copying'["scp"] = "none" /\ UNCHANGED <<pushing, using>>
    BY <1>t, <1>9, <1>c DEF CloseSCP, Cancel, Joinable, ScpInv
  <2>2. QED
    BY <1>t, <2>1 DEF ScpInv
<1>10. CASE CloseSSH
  <2>1. /\ UNCHANGED <<kind, pushing, using, scp, copying>>
        /\ live' = live \ {client.ssh} /\ client.ssh # Null
    BY <1>10 DEF CloseSSH
  <2>2. kind[client.ssh] = "ssh"
    BY <1>t, <2>1 DEF HandleInv
  <2>3. QED
    BY <1>t, <2>1, <2>2 DEF ScpInv
<1>11. ASSUME UNCHANGED <<pushing, using, copying>>, live \subseteq live',
              \A g \in Handles : kind[g] # "none" => kind'[g] = kind[g],
              scp'.ssh = scp.ssh \/ scp'.ssh # Garbage
       PROVE  ScpInv'
  BY <1>t, <1>11 DEF ScpInv
<1>12. \A h \in Unused : \A k, s : HandOut(h, k, s) => \A g \in Handles : kind[g] # "none" => kind'[g] = kind[g]
  BY <1>t DEF HandOut, Unused, TypeOK
<1>13. CASE OpenSSHFails \/ OpenSFTPFails \/ OpenSFTP
  BY <1>11, <1>12, <1>13 DEF OpenSSHFails, OpenSFTPFails, OpenSFTP, LeftOnFailure
<1>14. CASE OpenSCPFails \/ OpenSCP
  <2>1. scp'.ssh = scp.ssh
    BY <1>t, <1>14 DEF OpenSCPFails, OpenSCP, TypeOK
  <2>2. QED
    BY <1>11, <1>12, <1>14, <2>1 DEF OpenSCPFails, OpenSCP
<1>15. CASE OpenSSH
  <2>1. scp'.ssh # Garbage
    BY <1>15, <1>k DEF OpenSSH, Unused
  <2>2. QED
    BY <1>11, <1>12, <1>15, <2>1 DEF OpenSSH
<1>16. CASE ForgetSCP
  <2>1. scp'.ssh # Garbage
    BY <1>16, <1>t, <1>k DEF ForgetSCP, CallInv, Ready
  <2>2. QED
    BY <1>11, <1>16, <2>1 DEF ForgetSCP
<1>17. CASE UNCHANGED vars
  BY <1>0, <1>17 DEF vars
<1>18. QED
  BY <1>1, <1>2, <1>3, <1>4, <1>5, <1>6, <1>7, <1>8, <1>9, <1>10, <1>13, <1>14, <1>15, <1>16, <1>17
  DEF Next, Step

LEMMA AlwaysIInv == Spec => []IInv
<1>1. Init => IInv
  <2>1. Init => ScpInv
    BY DEF Init, ScpInv, Parts
  <2>2. QED
    BY <2>1, InitInv DEF IInv
<1>2. IInv /\ [Next]_vars => IInv'
  <2>1. IInv /\ [Next]_vars => CallerInv'
    BY CallerInductive DEF IInv
  <2>2. IInv /\ [Next]_vars => ScpInv'
    BY ScpInductive
  <2>3. QED
    BY <2>1, <2>2 DEF IInv
<1>3. QED
  BY <1>1, <1>2, PTL DEF Spec

-----------------------------------------------------------------------------
\* Every handle is of a kind, every copy a pointer, every call made of known steps.
THEOREM TypeCorrect == Spec => []TypeOK
<1>1. IInv => TypeOK
  BY DEF IInv, CallerInv
<1>2. QED
  BY <1>1, AlwaysIInv, PTL

\* SSHClient's own handles are allocated, and SFTPActions holds exactly them, whatever the
\* caller does, libssh fails at, and the copy thread is doing.
THEOREM SftpFollows == Spec => []SftpFollowsClient
<1>1. IInv => SftpFollowsClient
  BY DEF IInv, CallerInv
<1>2. QED
  BY <1>1, AlwaysIInv, PTL

\* The destructor's call, what is left of it after each step, and when the scp object is closed.
Destroying ==
  {<<"closeSFTP", "closeSCP", "closeSFTP", "closeSSH", "destruct">>,
   <<"closeSCP", "closeSFTP", "closeSSH", "destruct">>}
ScpClosed == {<<"closeSFTP", "closeSSH", "destruct">>, <<"closeSSH", "destruct">>, <<"destruct">>}
Destructs(s) == \E i \in 1 .. Len(s) : s[i] = "destruct"

DestroyInv ==
  /\ Destructs(call) => call \in Destroying \cup ScpClosed
  /\ call \in ScpClosed \/ status = "destroyed" => scp.scp = Null
  /\ status = "destroyed" => client.ssh = Null /\ client.sftp = Null

LEMMA OnlyDestroyDestructs ==
  ASSUME NEW c \in DOMAIN Calls
  PROVE  IF Destructs(Calls[c]) THEN Calls[c] \in Destroying ELSE Calls[c] \notin ScpClosed
<1> USE DEF Destructs, Destroying, ScpClosed
<1>1. CASE c = "destroy"
  <2>1. Calls[c] = <<"closeSFTP", "closeSCP", "closeSFTP", "closeSSH", "destruct">>
    BY <1>1 DEF Calls
  <2>2. QED
    BY <2>1
<1>2. CASE c # "destroy"
  <2>1. \/ \E a \in Steps \ {"destruct"} : Calls[c] = <<a>>
        \/ \E a, b \in Steps \ {"destruct"} : Calls[c] = <<a, b>>
        \/ \E a, b, d \in Steps \ {"destruct"} : Calls[c] = <<a, b, d>>
    BY <1>2 DEF Calls, Steps
  <2>2. QED
    BY <2>1, SMTT(20)
<1>3. QED
  BY <1>1, <1>2

\* Taking the first step off a call.
LEMMA DestroyTail ==
  ASSUME NEW s \in Seq(Steps), s # <<>>, Destructs(s) => s \in Destroying \cup ScpClosed
  PROVE  /\ Destructs(Tail(s)) => Tail(s) \in Destroying \cup ScpClosed
         /\ Tail(s) \in ScpClosed => s \in ScpClosed \/ Head(s) = "closeSCP"
<1>1. /\ Len(s) \in Nat /\ Len(Tail(s)) = Len(s) - 1
      /\ \A i \in 1 .. Len(s) - 1 : Tail(s)[i] = s[i + 1]
  OBVIOUS
<1>2. Destructs(Tail(s)) => Destructs(s)
  <2>1. ASSUME NEW i \in 1 .. Len(Tail(s)), Tail(s)[i] = "destruct" PROVE Destructs(s)
    <3>1. i + 1 \in 1 .. Len(s) /\ s[i + 1] = "destruct"
      BY <1>1, <2>1
    <3>2. QED
      BY <3>1 DEF Destructs
  <2>2. QED
    BY <2>1 DEF Destructs
<1>3. \A u \in ScpClosed : Destructs(u)
  BY DEF ScpClosed, Destructs
<1>4. CASE s \in Destroying
  <2>1. CASE s = <<"closeSFTP", "closeSCP", "closeSFTP", "closeSSH", "destruct">>
    <3>1. Tail(s) = <<"closeSCP", "closeSFTP", "closeSSH", "destruct">>
      BY <2>1
    <3>2. QED
      BY <3>1 DEF Destroying, ScpClosed
  <2>2. CASE s = <<"closeSCP", "closeSFTP", "closeSSH", "destruct">>
    <3>1. Tail(s) = <<"closeSFTP", "closeSSH", "destruct">> /\ Head(s) = "closeSCP"
      BY <2>2
    <3>2. QED
      BY <3>1 DEF Destroying, ScpClosed
  <2>3. QED
    BY <1>4, <2>1, <2>2 DEF Destroying
<1>5. CASE s \in ScpClosed
  <2>1. Tail(s) \in {<<"closeSSH", "destruct">>, <<"destruct">>, <<>>}
    <3>1. /\ Tail(<<"closeSFTP", "closeSSH", "destruct">>) = <<"closeSSH", "destruct">>
          /\ Tail(<<"closeSSH", "destruct">>) = <<"destruct">>
          /\ Tail(<<"destruct">>) = <<>>
      OBVIOUS
    <3>2. QED
      BY <1>5, <3>1 DEF ScpClosed
  <2>2. ~Destructs(<<>>)
    BY DEF Destructs
  <2>3. QED
    BY <1>5, <2>1, <2>2 DEF ScpClosed
<1>6. QED
  BY <1>2, <1>3, <1>4, <1>5

LEMMA DestroyInductive ==
  ASSUME IInv, DestroyInv, [Next]_vars
  PROVE  DestroyInv'
<1> USE DEF At, resultVars, threadVars
<1>t. TypeOK /\ CallInv /\ SftpFollowsClient
  BY DEF IInv, CallerInv
<1>e. ~Destructs(<<>>) /\ <<>> \notin ScpClosed
  BY DEF Destructs, ScpClosed
<1>1. CASE UNCHANGED <<call, scp, status, client>>
  BY <1>1 DEF DestroyInv
<1>2. CASE \E c \in DOMAIN Calls : Begin(c)
  <2>1. PICK c \in DOMAIN Calls : call' = Calls[c] /\ status' = "alive"
    BY <1>2 DEF Begin
  <2>2. IF Destructs(call') THEN call' \in Destroying ELSE call' \notin ScpClosed
    BY <2>1, OnlyDestroyDestructs
  <2>3. \A u \in ScpClosed : Destructs(u) /\ u \notin Destroying
    BY DEF ScpClosed, Destructs, Destroying
  <2>4. QED
    BY <2>1, <2>2, <2>3 DEF DestroyInv
\* A step of a call that opens no scp handle.
<1>3. ASSUME call # <<>>, Proceed \/ Return, status = "alive", status' # "destroyed",
             scp'.scp \in {scp.scp, Null}, Head(call) = "closeSCP" => scp'.scp = Null
      PROVE  DestroyInv'
  <2>1. CASE Return
    BY <1>3, <1>e, <2>1 DEF Return, DestroyInv
  <2>2. CASE Proceed
    BY <1>t, <1>3, <2>2, DestroyTail DEF Proceed, DestroyInv, TypeOK
  <2>3. QED
    BY <1>3, <2>1, <2>2
<1>4. CASE SkipClosed
  BY <1>3, <1>4 DEF SkipClosed
<1>5. CASE CloseSFTP \/ CloseSSH \/ OpenSSHFails \/ OpenSFTPFails \/ OpenSFTP \/ Use \/ RemoveDir
  BY <1>3, <1>5 DEF CloseSFTP, CloseSSH, OpenSSHFails, OpenSFTPFails, OpenSFTP, Use, RemoveDir, Opening
<1>6. CASE CloseSCP
  <2>1. scp'.scp = Null
    BY <1>t, <1>6 DEF CloseSCP, TypeOK
  <2>2. QED
    BY <1>3, <1>6, <2>1 DEF CloseSCP
<1>7. CASE OpenSSH \/ ForgetSCP
  <2>1. scp'.scp = Null
    BY <1>7 DEF OpenSSH, ForgetSCP
  <2>2. QED
    BY <1>3, <1>7, <2>1 DEF OpenSSH, ForgetSCP, Opening
<1>8. CASE OpenSCP \/ OpenSCPFails
  <2>1. /\ call # <<>> /\ Head(call) = "openSCP" /\ (Proceed \/ Return)
        /\ status = "alive" /\ status' = "alive"
    BY <1>8 DEF OpenSCP, OpenSCPFails
  <2>2. call \notin ScpClosed
    BY <2>1 DEF ScpClosed
  <2>3. call' \notin ScpClosed /\ (Destructs(call') => call' \in Destroying \cup ScpClosed)
    BY <1>t, <1>e, <2>1, <2>2, DestroyTail DEF Proceed, Return, DestroyInv, TypeOK
  <2>4. QED
    BY <2>1, <2>3 DEF DestroyInv
<1>9. ASSUME NEW p \in Parts, CopyDir(p) \/ JoinCopy(p) PROVE DestroyInv'
  <2>1. /\ call # <<>> /\ Head(call) \in {"copySFTP", "copySCP", "joinSFTP", "joinSCP"}
        /\ (Proceed \/ Return) /\ status = "alive" /\ status' # "destroyed" /\ scp' = scp
    BY <1>9 DEF CopyDir, JoinCopy
  <2>2. QED
    BY <1>3, <2>1
<1>10. CASE Destruct
  <2>1. call # <<>> /\ Head(call) = "destruct" /\ Return /\ UNCHANGED <<scp, client>>
    BY <1>10 DEF Destruct
  <2>2. Destructs(call)
    BY <1>t, <2>1 DEF Destructs, TypeOK
  <2>3. call \in ScpClosed
    BY <2>1, <2>2 DEF DestroyInv, Destroying
  <2>4. scp.scp = Null /\ client.ssh = Null /\ client.sftp = Null
    BY <1>t, <2>1, <2>3 DEF DestroyInv, CallInv, Ready, SftpFollowsClient
  <2>5. QED
    BY <1>e, <2>1, <2>4 DEF DestroyInv, Return
<1>11. CASE CopyTest \/ CopyEnter \/ CopyLeave \/ CopyFileEnds \/ OpenFile \/ CloseFile
  BY <1>1, <1>11 DEF CopyTest, CopyEnter, CopyLeave, CopyFileEnds, OpenFile, CloseFile
<1>12. ASSUME NEW p \in Parts, CopyEnds(p) PROVE DestroyInv'
  BY <1>1, <1>12 DEF CopyEnds
<1>13. CASE UNCHANGED vars
  BY <1>1, <1>13 DEF vars
<1>14. QED
  BY <1>2, <1>4, <1>5, <1>6, <1>7, <1>8, <1>9, <1>10, <1>11, <1>12, <1>13 DEF Next, Step

\* No path of connecting, failing, reconnecting and destroying forgets an allocated ssh or sftp
\* handle; an scp handle may be forgotten, and it outlives the client then.
THEOREM NothingLeft == Spec => []NothingForgotten
<1>1. Init => DestroyInv
  BY DEF Init, DestroyInv, Destructs, ScpClosed
<1>2. IInv /\ DestroyInv /\ [Next]_vars => DestroyInv'
  BY DestroyInductive
<1>3. IInv /\ DestroyInv => NothingForgotten
  <2>1. Null \notin Handles
    BY MaxHandlesAssumption DEF Null, Handles
  <2>2. QED
    BY <2>1 DEF IInv, CallerInv, TypeOK, OnlyScpLeft, DestroyInv, NothingForgotten
<1>4. QED
  BY <1>1, <1>2, <1>3, AlwaysIInv, PTL DEF Spec

\* The handles OnlyStaleScpMisuses allows to be misused.
MayBeMisused(h) ==
  \/ kind[h] = "broken" /\ h \in {scp.scp, using}
  \/ kind[h] = "ssh" /\ ((h = scp.ssh /\ client.ssh = Null) \/ h \in With(using))

\* What one step gives to libssh.
LEMMA StaleStep ==
  ASSUME IInv, [Next]_vars, NEW h \in misuse' \ misuse
  PROVE  MayBeMisused(h)
<1> USE DEF At
<1>t. TypeOK /\ CallInv /\ HandleInv /\ ThreadInv /\ SftpFollowsClient /\ ScpInv
  BY DEF IInv, CallerInv
<1>k. Null \notin Handles /\ Garbage \notin Handles /\ Null # Garbage
  BY MaxHandlesAssumption DEF Null, Handles, Garbage
<1>o. /\ client.ssh # Null => client.ssh \in live
      /\ client.sftp # Null => client.sftp \in live /\ client.ssh # Null
      /\ live \subseteq Handles
  BY <1>t DEF SftpFollowsClient, TypeOK
\* The client's handles are allocated, and so are their sessions.
<1>1. ASSUME NEW g \in {client.ssh, client.sftp, Null} PROVE With(g) \subseteq live \cup {Null}
  <2>1. CASE g = Null
    BY <1>k, <2>1 DEF With
  <2>2. CASE g = client.ssh /\ g # Null
    BY <1>t, <1>o, <2>2 DEF With, HandleInv, Owners
  <2>3. CASE g = client.sftp /\ g # Null
    BY <1>t, <1>o, <2>3 DEF With, HandleInv, Owners
  <2>4. QED
    BY <1>1, <2>1, <2>2, <2>3
\* So are those of the scp object, unless they are allowed to be misused.
<1>2. ASSUME scp.ssh # Garbage, h = scp.ssh, h \notin live PROVE MayBeMisused(h)
  <2>1. kind[h] = "ssh"
    BY <1>t, <1>2 DEF HandleInv
  <2>2. client.ssh = Null
    BY <1>t, <1>o, <1>2 DEF HandleInv
  <2>3. QED
    BY <1>2, <2>1, <2>2 DEF MayBeMisused
<1>3. ASSUME scp.scp # Null, h = scp.scp, h \notin live PROVE MayBeMisused(h)
  BY <1>t, <1>3 DEF HandleInv, MayBeMisused
<1>4. ASSUME h \in With(scp.scp), h \notin live \cup {Null} PROVE MayBeMisused(h)
  <2>1. scp.scp # Null
    BY <1>k, <1>4 DEF With
  <2>2. h = scp.scp \/ h = scp.ssh
    BY <1>t, <1>4, <2>1 DEF With, HandleInv, Owners
  <2>3. scp.ssh # Garbage
    BY <1>t, <2>1 DEF HandleInv
  <2>4. QED
    BY <1>2, <1>3, <1>4, <2>1, <2>2, <2>3
<1>5. ASSUME h \in With(scp.ssh), h \notin live \cup {Null}, scp.ssh # Garbage PROVE MayBeMisused(h)
  <2>1. scp.ssh \in Handles /\ owner[scp.ssh] = Null
    BY <1>t, <1>5 DEF HandleInv, Owners
  <2>2. h = scp.ssh
    BY <1>5, <2>1 DEF With
  <2>3. QED
    BY <1>2, <1>5, <2>2
\* And those with which the copy thread is under way.
<1>6. ASSUME h \in With(using), h \notin live \cup {Null}, using # Null PROVE MayBeMisused(h)
  <2>1. using \in Handles /\ kind[using] \in {"ssh", "scp", "broken"} /\ (kind[using] = "scp" => using \in live)
    BY <1>t, <1>6 DEF ScpInv
  <2>2. h = using \/ h = owner[using]
    BY <1>6, <2>1 DEF With
  <2>3. CASE h = using
    BY <1>6, <2>1, <2>3 DEF MayBeMisused
  <2>4. CASE h = owner[using]
    <3>1. kind[using] # "ssh"
      BY <1>t, <1>6, <2>1, <2>4 DEF HandleInv, Owners
    <3>2. kind[h] = "ssh"
      BY <1>t, <2>1, <2>4, <3>1 DEF HandleInv, Owners
    <3>3. QED
      BY <1>6, <3>2 DEF MayBeMisused
  <2>5. QED
    BY <2>2, <2>3, <2>4
<1>7. ASSUME NEW H, Given(H) PROVE \E g \in H : h \in With(g) /\ h \notin live \cup {Null}
  <2>1. h \in UNION {With(g) : g \in H} /\ h \notin live \cup {Null}
    BY <1>7 DEF Given
  <2>2. QED
    BY <2>1
<1>8. ASSUME NEW g, Given({g}) PROVE h \in With(g) /\ h \notin live \cup {Null}
  BY <1>7, <1>8
<1>9. CASE CloseSFTP \/ CloseSSH \/ OpenSFTPFails \/ OpenSFTP
  <2>1. \E g \in {client.ssh, client.sftp, Null} : Given({g})
    BY <1>9 DEF CloseSFTP, CloseSSH, OpenSFTPFails, OpenSFTP
  <2>2. QED
    BY <1>1, <1>8, <2>1
<1>10. CASE OpenSCPFails \/ OpenSCP
  <2>1. scp.ssh = client.ssh /\ Given({scp.ssh})
    BY <1>10, <1>t DEF OpenSCPFails, OpenSCP, CallInv, Ready
  <2>2. QED
    BY <1>1, <1>8, <2>1
<1>11. CASE CloseSCP
  BY <1>4, <1>8, <1>11 DEF CloseSCP
<1>12. ASSUME Given(Existing("scp")) PROVE MayBeMisused(h)
  <2>1. PICK g \in Existing("scp") : h \in With(g) /\ h \notin live \cup {Null}
    BY <1>7, <1>12
  <2>2. scp.scp # Null /\ g \in {scp.ssh, scp.scp}
    BY <2>1 DEF Existing
  <2>3. scp.ssh # Garbage
    BY <1>t, <2>2 DEF HandleInv
  <2>4. QED
    BY <1>4, <1>5, <2>1, <2>2, <2>3
<1>13. CASE RemoveDir
  BY <1>12, <1>13 DEF RemoveDir
<1>14. CASE CopyLeave
  BY <1>6, <1>8, <1>14 DEF CopyLeave
<1>15. ASSUME Given(Existing("sftp")), client.ssh # Null PROVE FALSE
  <2>1. PICK g \in Existing("sftp") : h \in With(g) /\ h \notin live \cup {Null}
    BY <1>7, <1>15
  <2>2. g \in {client.ssh, client.sftp}
    BY <1>15, <2>1, ClientIsLive DEF Existing, IInv
  <2>3. QED
    BY <1>1, <2>1, <2>2
<1>16. CASE Use
  <2>1. CASE At("useSFTP")
    <3>1. client.ssh # Null /\ sftp = client
      BY <1>t, <2>1, ClientIsLive DEF CallInv, Ready, IInv
    <3>2. Given(Existing("sftp")) \/ Given({client.sftp})
      BY <1>16, <2>1, <3>1 DEF Use
    <3>3. QED
      BY <1>1, <1>8, <1>15, <3>1, <3>2
  <2>2. CASE At("useSCP")
    <3>1. client.ssh # Null
      BY <1>t, <2>2 DEF CallInv, Ready
    <3>2. scp.ssh # Garbage
      BY <1>t, <1>o, <1>k, <3>1 DEF HandleInv, Owners
    <3>3. Given(Existing("scp")) \/ Given({scp.scp}) \/ Given({scp.ssh})
      BY <1>16, <2>2 DEF Use
    <3>4. QED
      BY <1>4, <1>5, <1>8, <1>12, <3>2, <3>3
  <2>3. CASE At("execute")
    <3>1. Given({client.ssh})
      BY <1>16, <2>3 DEF Use
    <3>2. QED
      BY <1>1, <1>8, <3>1
  <2>4. QED
    BY <1>16, <2>1, <2>2, <2>3 DEF Use
<1>17. CASE OpenFile \/ CloseFile
  <2>1. client.ssh # Null /\ file \in {client.sftp, Null}
    BY <1>17, <1>t DEF OpenFile, CloseFile, ThreadInv, SftpFollowsClient
  <2>2. Given(Existing("sftp")) \/ Given({file} \cup Existing("sftp"))
    BY <1>17 DEF OpenFile, CloseFile
  <2>3. ASSUME Given({file} \cup Existing("sftp")) PROVE FALSE
    <3>1. PICK g \in {file} \cup Existing("sftp") : h \in With(g) /\ h \notin live \cup {Null}
      BY <1>7, <2>3
    <3>2. g \in {client.ssh, client.sftp, Null}
      BY <2>1, <3>1, ClientIsLive DEF Existing, IInv
    <3>3. QED
      BY <1>1, <3>1, <3>2
  <2>4. QED
    BY <1>15, <2>1, <2>2, <2>3
<1>18. misuse' = misuse \/ CloseSFTP \/ CloseSSH \/ OpenSFTPFails \/ OpenSFTP \/ OpenSCPFails
       \/ OpenSCP \/ CloseSCP \/ RemoveDir \/ CopyLeave \/ Use \/ OpenFile \/ CloseFile
  BY DEF Next, Step, vars, Begin, SkipClosed, OpenSSHFails, OpenSSH, ForgetSCP, Destruct, CopyDir,
     JoinCopy, CopyTest, CopyEnter, CopyFileEnds, CopyEnds
<1>19. QED
  BY <1>9, <1>10, <1>11, <1>13, <1>14, <1>16, <1>17, <1>18

\* The copy threads included, what libssh is given after it was freed is a handle that was never
\* usable and the scp object kept, or a session that was closed under the scp object.
THEOREM StaleScpOnly == Spec => OnlyStaleScpMisuses
<1>1. IInv /\ [Next]_vars => \A h \in misuse' \ misuse : MayBeMisused(h)
  BY StaleStep
<1>2. IInv /\ [Next]_vars => [\A h \in misuse' \ misuse :
          \/ kind[h] = "broken" /\ h \in {scp.scp, using}
          \/ kind[h] = "ssh" /\ \/ h = scp.ssh /\ client.ssh = Null
                                \/ h \in With(using)]_vars
  BY <1>1 DEF MayBeMisused
<1>3. QED
  BY <1>2, AlwaysIInv, PTL DEF Spec, OnlyStaleScpMisuses
=============================================================================
