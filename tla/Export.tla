------------------------------- MODULE Export -------------------------------
(***************************************************************************)
(* ExportData: a goroutine downloads an archive from the data container    *)
(* into a pipe, the main goroutine unpacks what it reads from the pipe     *)
(* into a temporary directory and copies the files to their destination    *)
(* when it has them all.  An error of the download ends the whole process. *)
(***************************************************************************)
EXTENDS Machine

CONSTANTS Payload   \* the files in the data container, in the order of the archive

ExportAssumption == Payload \in Seq(Files)

ASSUME ExportAssumption

VARIABLES transfer

\* main and copier: where the two goroutines are.  got: files read from the pipe
\* and unpacked; left: files still to copy; out: what the main goroutine returns.
Transfer == [main : {"idle", "check", "make", "look", "unpack", "prepare", "copy", "close"},
             copier : {"none", "send", "sent", "over"},
             got : 0..Len(Payload), left : SUBSET Files, out : {"ok", "err"}]

NoTransfer == [main |-> "idle", copier |-> "none", got |-> 0, left |-> {}, out |-> "ok"]

T == transfer
TGo(t) == transfer' = t /\ GoOn /\ UNCHANGED boxes

\* The process exits, whatever the other goroutine does.  A temporary directory
\* that is not empty stays behind.
TExit(r) == transfer' = NoTransfer /\ Over(r) /\ UNCHANGED <<boxes, disk>>

\* An error after which the pipe is closed: the copier's may come before the end
\* of the process.
TFails == TGo([T EXCEPT !.main = "close", !.out = "err"])

-----------------------------------------------------------------------------

TransferBegin ==
  /\ Start("export")
  /\ transfer' = [NoTransfer EXCEPT !.main = "check"]
  /\ UNCHANGED <<boxes, disk>>

\* The container is looked for twice, before and after the temporary directory
\* is made.  A listing that fails shows none.
Find(l, Found) ==
  /\ T.main = l
  /\ \/ boxes[Kept] # "none" /\ Found /\ UNCHANGED disk
     \/ TExit("err")

TransferCheck == Find("check", TGo([T EXCEPT !.main = "make"]))

TransferMake ==
  /\ T.main = "make"
  /\ \/ TGo([T EXCEPT !.main = "look"]) /\ UNCHANGED disk
     \/ TExit("err")

TransferLook == Find("look", TGo([T EXCEPT !.main = "unpack", !.copier = "send"]))

\* Faulty variant: reads on behind the last file.
PassBeyond ==
  /\ T.main = "unpack" /\ T.copier = "send"
  /\ TGo([T EXCEPT !.got = @ + 1])
  /\ UNCHANGED disk

\* A write to the pipe ends when the reader has read it.
Pass ==
  /\ T.main = "unpack" /\ T.copier = "send"
  /\ T.got < Len(Payload)
  /\ TGo([T EXCEPT !.got = @ + 1])
  /\ UNCHANGED disk

\* The end of the archive passes, too; the copier has yet to see that of the stream.
PassEnd ==
  /\ T.main = "unpack" /\ T.copier = "send"
  /\ T.got = Len(Payload)
  /\ TGo([T EXCEPT !.main = "prepare", !.copier = "sent"])
  /\ UNCHANGED disk

\* Faulty variant: the error closes the pipe, which the reader takes for the end
\* of the archive.
DownloadFailsQuietly ==
  /\ T.copier \in {"send", "sent"}
  /\ TGo([T EXCEPT !.copier = "over", !.main = IF @ = "unpack" THEN "prepare" ELSE @])
  /\ UNCHANGED disk

\* The download fails, or the reader has closed the pipe: IfExit.
DownloadFails == T.copier \in {"send", "sent"} /\ TExit("err")

DownloadEnds ==
  /\ T.copier = "sent"
  /\ TGo([T EXCEPT !.copier = "over"])
  /\ UNCHANGED disk

\* A file cannot be unpacked.
UnpackFails == T.main = "unpack" /\ TFails /\ UNCHANGED disk

Received == {Payload[i] : i \in 1..T.got}

\* What lies in .eris moves out of it, and the destination is made.
TransferPrepare ==
  /\ T.main = "prepare"
  /\ \/ TGo([T EXCEPT !.main = "copy", !.left = Received]) /\ MakePath("data")
     \/ TFails /\ (UNCHANGED dirs \/ MakePath(Root))
  /\ UNCHANGED tree

\* The errors of Copy are ignored.
CopyFile ==
  /\ T.main = "copy"
  /\ \E f \in T.left :
       /\ transfer' = [T EXCEPT !.left = @ \ {f}]
       /\ Put("data", f, "user") \/ UNCHANGED disk
  /\ GoOn /\ UNCHANGED boxes

\* The temporary directory goes.
TransferClear ==
  /\ T.main = "copy" /\ T.left = {}
  /\ TGo([T EXCEPT !.main = "close"]) \/ TFails
  /\ UNCHANGED disk

\* Faulty variant: the main goroutine waits for a copier that writes on.
CloseWaiting == T.main = "close" /\ T.copier = "over" /\ TExit(T.out)

TransferClose == T.main = "close" /\ TExit(T.out)

TransferMain == TransferCheck \/ TransferMake \/ TransferLook \/ TransferPrepare \/ CopyFile \/ TransferClear
                  \/ TransferClose
TransferPass == Pass \/ PassEnd

TransferNext == TransferBegin \/ TransferMain \/ TransferPass \/ DownloadFails \/ DownloadEnds \/ UnpackFails
=============================================================================
