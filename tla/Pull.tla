-------------------------------- MODULE Pull --------------------------------
(***************************************************************************)
(* A download: handle_pull on the device sends, remote_pull on the host    *)
(* receives, over the stream of FileStream.  A pull registers no route on  *)
(* the device: only window updates and StreamCancel are addressed to it.   *)
(***************************************************************************)
EXTENDS FileStream

-----------------------------------------------------------------------------
(***************************************************************************)
(* Host: remote_pull.                                                      *)
(***************************************************************************)
HostRequest ==
    HostWrite("request", Frame("PullRequest")) \/ HostWritten("request", "meta")

HostRecvMeta ==
    HostRecv("meta", IF Received.kind = "FileMeta" THEN [AfterReceiving EXCEPT !.pc = "create"]
                     ELSE Dropped(AfterReceiving, "err", Completes(Received)))

\* create_dir_all and File::create.
HostCreate ==
    /\ host.pc = "create"
    /\ \/ HostFaults /\ host' = Failed
       \/ host' = [host EXCEPT !.pc = "open_window"]
    /\ UNCHANGED <<dev, xfer, h2d, d2h, up>>

\* grant_window: an ordinary send, so the stream is checked before and after.
HostGrant(pc) ==
    \/ /\ host.pc = pc /\ ~host.written
       /\ IF ~Active THEN host' = Failed /\ UNCHANGED <<xfer, h2d>>
          ELSE LET bytes == GrantSize(pc = "open_window") IN
               /\ HasRoom(h2d)
               /\ h2d' = Append(h2d, WindowUpdate(bytes))
               /\ xfer' = Granted(bytes)
               /\ host' = [host EXCEPT !.written = TRUE]
       /\ UNCHANGED <<dev, d2h, up>>
    \/ HostWritten(pc, "recv")

HostRecvFrame ==
    HostRecv("recv",
        CASE Received.kind = "FileChunk" ->
                 [AfterReceiving EXCEPT !.pc = "write", !.chunk = Received.n]
          [] Received.kind = "FileEnd" -> [AfterReceiving EXCEPT !.pc = "flush"]
          [] OTHER -> Dropped(AfterReceiving, "err", Completes(Received)))

\* Write the chunk and account for it.
HostWriteFile ==
    /\ host.pc = "write"
    /\ \/ HostFaults /\ host' = Failed /\ UNCHANGED xfer
       \/ /\ xfer' = Written(host.chunk)
          /\ host' = [host EXCEPT !.chunk = 0,
                                  !.pc = IF GrantDue(xfer'.unreturned) THEN "grant" ELSE "recv"]
    /\ UNCHANGED <<dev, h2d, d2h, up>>

HostFlushUnchecked ==
    /\ host.pc = "flush"
    /\ \/ HostFaults /\ host' = Dropped(host, "err", TRUE)
       \/ host' = Dropped(host, "ok", TRUE)
    /\ UNCHANGED <<dev, xfer, h2d, d2h, up>>

\* file.flush, then the announced size is compared with what was written.
HostFlush ==
    /\ host.pc = "flush"
    /\ \/ HostFaults /\ host' = Dropped(host, "err", TRUE)
       \/ host' = Dropped(host, IF xfer.file = FileUnits THEN "ok" ELSE "err", TRUE)
    /\ UNCHANGED <<dev, xfer, h2d, d2h, up>>

HostTask == \/ HostOpen \/ HostRequest \/ HostRecvMeta \/ HostCreate
            \/ HostGrant("open_window") \/ HostRecvFrame \/ HostWriteFile
            \/ HostGrant("grant") \/ HostFlush

-----------------------------------------------------------------------------
(***************************************************************************)
(* Device: handle_pull.  Opening the file stands for File::open and its    *)
(* metadata or for the shell's stat and cat; the end of the file for the   *)
(* child's exit status too.                                                *)
(***************************************************************************)
DevOpen ==
    /\ dev.pc = "create"
    /\ \/ DeviceFaults /\ dev' = DevFail
       \/ dev' = [dev EXCEPT !.pc = "meta"]
    /\ UNCHANGED <<host, xfer, h2d, d2h, up>>

DevSendMeta == DevWrite("meta", Frame("FileMeta")) \/ DevWritten("meta", "read")

\* The select on the cancellation watch (first) and the file.
DevReadFile ==
    /\ dev.pc = "read"
    /\ \/ /\ dev.watch
          /\ dev' = DevFail
       \/ /\ ~dev.watch /\ DeviceFaults
          /\ dev' = DevFail
       \/ /\ ~dev.watch /\ (xfer.left = 0 \/ Truncates)
          /\ dev' = [dev EXCEPT !.pc = "end"]
       \/ /\ ~dev.watch /\ xfer.left > 0
          /\ \E n \in ReadSizes : dev' = [dev EXCEPT !.pc = "credit", !.chunk = n]
    /\ UNCHANGED <<host, xfer, h2d, d2h, up>>

DevAcquireDeaf ==
    /\ dev.pc = "credit"
    /\ CanAfford(dev.chunk)
    /\ dev' = [dev EXCEPT !.pc = "chunk"]
    /\ xfer' = Paid(dev.chunk)
    /\ UNCHANGED <<host, h2d, d2h, up>>

DevAcquireUnpaid ==
    /\ dev.pc = "credit"
    /\ dev' = [dev EXCEPT !.pc = "chunk"]
    /\ xfer' = PaidWithout(dev.chunk)
    /\ UNCHANGED <<host, h2d, d2h, up>>

\* acquire_flow_credit: woken by credit, by cancel_local or by the writer's end.
DevAcquire ==
    /\ dev.pc = "credit"
    /\ \/ /\ DevInactive
          /\ dev' = DevFail
          /\ UNCHANGED xfer
       \/ /\ ~DevInactive
          /\ CanAfford(dev.chunk)
          /\ dev' = [dev EXCEPT !.pc = "chunk"]
          /\ xfer' = Paid(dev.chunk)
    /\ UNCHANGED <<host, h2d, d2h, up>>

DevSendChunk == DevWrite("chunk", FileChunk(dev.chunk)) \/ DevWritten("chunk", "read")

DevSendEnd == DevWrite("end", Frame("FileEnd")) \/ DevWritten("end", "unroute_ok")

DevTask == \/ DevOpen \/ DevSendMeta \/ DevReadFile \/ DevAcquire
           \/ DevSendChunk \/ DevSendEnd \/ DevEnding

-----------------------------------------------------------------------------
Next == HostTask \/ DevTask \/ Connection

Spec == Init /\ [][Next]_vars

\* Local file operations return, and both tasks are polled when ready.
FairSpec == Spec /\ ConnectionFairness /\ WF_vars(HostTask) /\ WF_vars(DevTask)

=============================================================================
