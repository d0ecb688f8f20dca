-------------------------------- MODULE Push --------------------------------
(***************************************************************************)
(* An upload: remote_push on the host sends, handle_push on the device     *)
(* receives, over the stream of FileStream.                                *)
(***************************************************************************)
EXTENDS FileStream

-----------------------------------------------------------------------------
(***************************************************************************)
(* Host: remote_push.                                                      *)
(***************************************************************************)
HostRequest ==
    HostWrite("request", Frame("PushRequest")) \/ HostWritten("request", "meta")

HostRecvMeta ==
    HostRecv("meta", IF Received.kind = "FileMeta" THEN [AfterReceiving EXCEPT !.pc = "read"]
                     ELSE Dropped(AfterReceiving, "err", Completes(Received)))

\* file.read: an error, the end of the file, or the next chunk.
HostReadFile ==
    /\ host.pc = "read"
    /\ \/ /\ HostFaults
          /\ host' = Failed
       \/ /\ xfer.left = 0
          /\ host' = IF Active THEN [host EXCEPT !.pc = "end"] ELSE Failed
       \/ /\ xfer.left > 0
          /\ \E n \in ReadSizes : host' = [host EXCEPT !.pc = "credit", !.chunk = n]
    /\ UNCHANGED <<dev, xfer, h2d, d2h, up>>

HostAcquireUnpaid ==
    /\ host.pc = "credit"
    /\ host' = [host EXCEPT !.pc = "chunk"]
    /\ xfer' = PaidWithout(host.chunk)
    /\ UNCHANGED <<dev, h2d, d2h, up>>

(***************************************************************************)
(* acquire_flow_credit: woken by credit, by a cancellation or by the       *)
(* connection's end, and by nothing else; a frame in the queue is not seen.*)
(***************************************************************************)
HostAcquire ==
    /\ host.pc = "credit"
    /\ \/ /\ ~Active
          /\ host' = Failed
          /\ UNCHANGED xfer
       \/ /\ Active
          /\ CanAfford(host.chunk)
          /\ host' = [host EXCEPT !.pc = "chunk"]
          /\ xfer' = Paid(host.chunk)
    /\ UNCHANGED <<dev, h2d, d2h, up>>

HostSendChunk ==
    HostWrite("chunk", FileChunk(host.chunk)) \/ HostWritten("chunk", "poll")

\* try_recv after each chunk: any frame there ends the upload.
HostPoll ==
    /\ host.pc = "poll"
    /\ host' = IF host.cancel THEN Dropped(host, "err", TRUE)
               ELSE IF host.queue # <<>>
                    THEN Dropped(host, "err", Completes(Head(host.queue)))
               ELSE IF ~host.route THEN Failed
               ELSE [host EXCEPT !.pc = "read"]
    /\ UNCHANGED <<dev, xfer, h2d, d2h, up>>

HostSendEnd == HostWrite("end", Frame("FileEnd")) \/ HostWritten("end", "done")

HostRecvDone ==
    HostRecv("done", Dropped(AfterReceiving, IF Received.kind = "FileEnd" THEN "ok" ELSE "err",
                             Completes(Received)))

HostTask == \/ HostOpen \/ HostRequest \/ HostRecvMeta \/ HostReadFile
            \/ HostAcquire \/ HostSendChunk \/ HostPoll
            \/ HostSendEnd \/ HostRecvDone

-----------------------------------------------------------------------------
(***************************************************************************)
(* Device: handle_push.  Creating the file stands for File::create or for  *)
(* the shell's redirection becoming ready; flushing for file.flush or for  *)
(* the child's exit.                                                       *)
(***************************************************************************)
DevCreate ==
    /\ dev.pc = "create"
    /\ \/ DeviceFaults /\ dev' = DevFail
       \/ dev' = [dev EXCEPT !.pc = "meta"]
    /\ UNCHANGED <<host, xfer, h2d, d2h, up>>

DevSendMeta == DevWrite("meta", Frame("FileMeta")) \/ DevWritten("meta", "open_window")

\* send_window_update, which does not look at the stream again once written.
DevGrant ==
    /\ dev.pc \in {"open_window", "grant"}
    /\ IF DevInactive THEN dev' = DevFail /\ UNCHANGED <<xfer, d2h>>
       ELSE LET bytes == GrantSize(dev.pc = "open_window") IN
            /\ HasRoom(d2h)
            /\ d2h' = Append(d2h, WindowUpdate(bytes))
            /\ xfer' = Granted(bytes)
            /\ dev' = [dev EXCEPT !.pc = "recv"]
    /\ UNCHANGED <<host, h2d, up>>

\* The select on the cancellation watch (first) and the inbox.
DevRecv ==
    /\ dev.pc = "recv"
    /\ \/ /\ dev.watch
          /\ dev' = DevFail
       \/ /\ ~dev.watch /\ dev.inbox # <<>>
          /\ LET frame == Head(dev.inbox)
                 d     == [dev EXCEPT !.inbox = Tail(@)]
             IN  dev' = CASE frame.kind = "FileChunk" ->
                                [d EXCEPT !.pc = "write", !.chunk = frame.n]
                          [] frame.kind = "FileEnd" -> [d EXCEPT !.pc = "flush"]
                          [] OTHER -> [d EXCEPT !.pc = "unroute_err"]
       \/ /\ ~dev.watch /\ dev.inbox = <<>> /\ ~dev.route
          /\ dev' = DevFail
    /\ UNCHANGED <<host, xfer, h2d, d2h, up>>

\* Write the chunk and account for it.
DevWriteFile ==
    /\ dev.pc = "write"
    /\ \/ DeviceFaults /\ dev' = DevFail /\ UNCHANGED xfer
       \/ /\ xfer' = Written(dev.chunk)
          /\ dev' = [dev EXCEPT !.chunk = 0,
                                !.pc = IF GrantDue(xfer'.unreturned) THEN "grant" ELSE "recv"]
    /\ UNCHANGED <<host, h2d, d2h, up>>

DevFlush ==
    /\ dev.pc = "flush"
    /\ \/ DeviceFaults /\ dev' = DevFail
       \/ dev' = [dev EXCEPT !.pc = "end"]
    /\ UNCHANGED <<host, xfer, h2d, d2h, up>>

DevSendEnd == DevWrite("end", Frame("FileEnd")) \/ DevWritten("end", "unroute_ok")

DevTask == \/ DevCreate \/ DevSendMeta \/ DevGrant \/ DevRecv
           \/ DevWriteFile \/ DevFlush \/ DevSendEnd \/ DevEnding

-----------------------------------------------------------------------------
Next == HostTask \/ DevTask \/ Connection

Spec == Init /\ [][Next]_vars

\* Local file operations return, and both tasks are polled when ready.
FairSpec == Spec /\ ConnectionFairness /\ WF_vars(HostTask) /\ WF_vars(DevTask)

-----------------------------------------------------------------------------
(***************************************************************************)
(* remote_push always returns.                                             *)
(***************************************************************************)
PushEnds == <>Ended
=============================================================================
