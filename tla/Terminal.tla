------------------------------ MODULE Terminal ------------------------------
(***************************************************************************)
(* DockerExecService with a terminal: the main goroutine makes and starts a*)
(* container and waits for it; another goroutine attaches the terminal to  *)
(* it and meets the main goroutine on an unbuffered channel, twice; a third*)
(* one waits for a signal and stops the container.                         *)
(***************************************************************************)
EXTENDS Machine

CONSTANTS MaxOutput   \* bound: pieces of output the container's program writes

TerminalAssumption == MaxOutput \in Nat

ASSUME TerminalAssumption

VARIABLES session

\* main, attach and handler: where the three goroutines are.  signal: one is
\* in the handler's channel, which holds no more.  open: the connection to the
\* container came about.  unread and shown: pieces of its output.
Session == [main : {"idle", "data", "make", "start", "meet", "reply", "wait", "remove"},
            attach : {"none", "dial", "offer", "await", "copy", "ended"},
            handler : {"none", "ready", "stop", "ended"},
            signal : BOOLEAN, raw : BOOLEAN, open : BOOLEAN, res : {"ok", "err"},
            unread : 0..MaxOutput, shown : 0..MaxOutput]

NoSession == [main |-> "idle", attach |-> "none", handler |-> "none", signal |-> FALSE,
              raw |-> FALSE, open |-> FALSE, res |-> "ok", unread |-> 0, shown |-> 0]

S == session
Keep == UNCHANGED disk
Set(s) == session' = s
Stay == UNCHANGED <<boxes, disk>>

-----------------------------------------------------------------------------
\* The main goroutine.

\* A service may have its data container managed.
SessionBegin ==
  /\ Start("exec")
  /\ \E m \in {"data", "make"} : Set([NoSession EXCEPT !.main = m])
  /\ Stay

\* A container of the name, or of one a failed listing did not show, makes the
\* creation an error.  Nothing is removed then.
Refused == Set(NoSession) /\ Over("err") /\ UNCHANGED boxes

SessionData ==
  /\ S.main = "data"
  /\ \/ /\ Set([S EXCEPT !.main = "make"]) /\ GoOn
        /\ boxes' = IF boxes[Kept] = "none" THEN [boxes EXCEPT ![Kept] = "created"] ELSE boxes
     \/ Refused
  /\ Keep

\* Raw mode may be refused, and goes on without.
SessionMake ==
  /\ S.main = "make"
  /\ \/ /\ boxes[Temp] = "none" /\ boxes' = [boxes EXCEPT ![Temp] = "created"]
        /\ \E r \in BOOLEAN : Set([S EXCEPT !.main = "start", !.attach = "dial", !.handler = "ready", !.raw = r])
        /\ GoOn
     \/ Refused
  /\ Keep

\* Whatever the function returns, the terminal is restored.
Finish(r) == [S EXCEPT !.main = "remove", !.raw = FALSE, !.res = r]

SessionStart ==
  /\ S.main = "start"
  /\ \/ Set([S EXCEPT !.main = "meet"]) /\ boxes' = [boxes EXCEPT ![Temp] = "running"]
     \/ Set(Finish("err")) /\ UNCHANGED boxes
  /\ Keep /\ GoOn

\* attached is unbuffered: who comes first waits for the other.
SessionMeet ==
  /\ S.main = "meet" /\ S.attach = "offer"
  /\ Set([S EXCEPT !.main = "reply", !.attach = "await"])
  /\ Stay /\ GoOn

SessionReply ==
  /\ S.main = "reply" /\ S.attach = "await"
  /\ Set([S EXCEPT !.main = "wait", !.attach = "copy"])
  /\ Stay /\ GoOn

\* The container ends, well or not, or the daemon refuses to wait.
SessionWait ==
  /\ S.main = "wait"
  /\ \/ boxes[Temp] = "exited" /\ \E r \in {"ok", "err"} : Set(Finish(r))
     \/ Set(Finish("err"))
  /\ Stay /\ GoOn

\* The deferred removal, without force; its errors are lost.  The process is
\* over, and with it the other goroutines.
SessionRemove ==
  /\ S.main = "remove"
  /\ Set(NoSession) /\ Over(S.res)
  /\ \/ UNCHANGED boxes
     \/ boxes[Temp] # "running" /\ boxes' = [boxes EXCEPT ![Temp] = "none"]
  /\ Keep

-----------------------------------------------------------------------------
\* attachContainer, and hijack of the Docker client.  A connection that cannot
\* be made ends the goroutine, and its error is dropped; a request that fails on
\* a connection goes unnoticed.

\* Faulty variants: the client waits for the main goroutine first; it does not
\* wait.
DialAwaiting ==
  /\ S.attach = "dial"
  /\ \/ Set([S EXCEPT !.attach = "ended"])
     \/ \E o \in BOOLEAN : Set([S EXCEPT !.attach = "await", !.open = o])
  /\ Stay /\ GoOn

DialCopying ==
  /\ S.attach = "dial"
  /\ \/ Set([S EXCEPT !.attach = "ended"])
     \/ \E o \in BOOLEAN : Set([S EXCEPT !.attach = "copy", !.open = o])
  /\ Stay /\ GoOn

Dial ==
  /\ S.attach = "dial"
  /\ \/ Set([S EXCEPT !.attach = "ended"])
     \/ \E o \in BOOLEAN : Set([S EXCEPT !.attach = "offer", !.open = o])
  /\ Stay /\ GoOn

CopyOutput ==
  /\ S.attach = "copy"
  /\ IF S.open /\ S.unread > 0 THEN Set([S EXCEPT !.unread = @ - 1, !.shown = @ + 1])
     ELSE /\ ~S.open \/ boxes[Temp] # "running"
          /\ Set([S EXCEPT !.attach = "ended"])
  /\ Stay /\ GoOn

-----------------------------------------------------------------------------
\* The signal handler acts once.

Signal ==
  /\ S.handler # "none" /\ ~S.signal
  /\ Set([S EXCEPT !.signal = TRUE])
  /\ Stay /\ GoOn

Catch ==
  /\ S.handler = "ready" /\ S.signal
  /\ Set([S EXCEPT !.handler = "stop", !.signal = FALSE])
  /\ Stay /\ GoOn

\* stopContainer is an error for a container that does not run.
HandlerStop ==
  /\ S.handler = "stop"
  /\ Set([S EXCEPT !.handler = "ended"])
  /\ \/ boxes[Temp] = "running" /\ boxes' = [boxes EXCEPT ![Temp] = "exited"]
     \/ UNCHANGED boxes
  /\ Keep /\ GoOn

-----------------------------------------------------------------------------
\* The program in the container.

Output ==
  /\ S.attach # "none" /\ boxes[Temp] = "running"
  /\ S.unread + S.shown < MaxOutput
  /\ Set([S EXCEPT !.unread = @ + 1])
  /\ Stay /\ GoOn

ProgramEnds ==
  /\ boxes[Temp] = "running"
  /\ boxes' = [boxes EXCEPT ![Temp] = "exited"]
  /\ Keep /\ GoOn /\ UNCHANGED session

SessionMain    == SessionData \/ SessionMake \/ SessionStart \/ SessionMeet \/ SessionReply \/ SessionWait \/ SessionRemove
SessionAttach  == Dial \/ CopyOutput
SessionHandler == Catch \/ HandlerStop

SessionNext == SessionBegin \/ SessionMain \/ SessionAttach \/ SessionHandler \/ Signal \/ Output \/ ProgramEnds
=============================================================================
