---------------------------- MODULE FileTransfer ----------------------------
(***************************************************************************)
(* One file-transfer job: a reading end that cuts the source files into    *)
(* blocks, a writing end that assembles each of them in `<name>.download`  *)
(* and renames it when the next file begins, and the user who is asked     *)
(* before an existing file is overwritten.                                 *)
(*                                                                         *)
(* A download is written by the controlling io_loop and read by the        *)
(* connection of the controlled machine; an upload is read by the io_loop  *)
(* and written by the connection manager of the controlled machine.  Both  *)
(* ends run the TransferJob of hbb_common; the handlers around it differ   *)
(* with the direction.  The network and the ipc channel are FIFO, so each  *)
(* direction is one sequence of messages.  Jobs follow one another: a job  *)
(* of another id meets this one only on the disk, which is kept when the   *)
(* connection is lost or the controlling process dies, as is the list of   *)
(* unfinished jobs in the peer's configuration.                            *)
(*                                                                         *)
(* A handler makes several file-system calls.  Any of them may fail, and   *)
(* most of their errors are swallowed.                                     *)
(***************************************************************************)
EXTENDS Integers, Sequences, FiniteSets

CONSTANTS
  NumFiles,    \* number of files of the job
  Size,        \* blocks of each file, by file number
  FirstFile,   \* the file_num a new job is given: 0 by the desktop and Flutter
               \* user interfaces, 1 by session_send_files of the bridge
  NoFile,      \* what a name without a file holds
  MaxJobs,     \* bound: jobs started or restored
  MaxFaults    \* bound: calls of the file system that fail

Files == 0 .. NumFiles - 1

ASSUME NumFilesAssumption == NumFiles \in Nat \ {0}
ASSUME SizeAssumption == Size \in [Files -> Nat]
ASSUME FirstFileAssumption == FirstFile \in Nat
ASSUME NoFileAssumption == NoFile \notin Seq(Nat)
ASSUME BoundAssumption == MaxJobs \in Nat /\ MaxFaults \in Nat

VARIABLES
  upload,      \* ~is_remote: the io_loop reads and the peer writes
  r,           \* the TransferJob of the reading end
  w,           \* the TransferJob of the writing end
  strategy,    \* default_overwrite_strategy of the controlling end
  asked,       \* the files an override_file_confirm dialog is open for
  toW, toR,    \* messages to the writing and to the reading end
  disk,        \* the destination, by file number
  saved,       \* file_num of the job kept in PeerConfig.transfer, or -1
  jobs,        \* number of jobs so far
  faults,      \* number of calls of the file system that have failed
  first,       \* history: the file number the running job began with
  consent,     \* history: files of this job that are not there yet or that it may overwrite
  kept,        \* history: files of this job that were to be kept
  untold,      \* history: kept files the writing end of an upload was not told of
  stale,       \* history: files that had a `.download` when the job began
  spoiled,     \* history: files that lost a block, a resume offset or their final name, and
               \* the file a writing end kept open when it could not open the next
  events       \* history: job_done and job_error reported for this job, whether the user
               \* cancelled it, and whether a digest was left unanswered

job == <<r, w, strategy>>
net == <<toW, toR>>
history == <<first, consent, kept, untold, stale, spoiled>>
vars == <<upload, job, asked, net, disk, saved, jobs, faults, history, events>>

-----------------------------------------------------------------------------
(* Files.  Block k of a source file is the number k; the destination had   *)
(* other contents, block 0, before the first job.                          *)

Source(f) == [k \in 1 .. Size[f] |-> k]

\* What the destination knows of one file: the content under the final name and
\* whether its mtime is the source's, the content of `.download`, and whether
\* the `.digest` of the source lies beside it.
Contents == Seq(Nat) \union {NoFile}
FileOnDisk ==
  {d \in [data : Contents, src : BOOLEAN, part : Contents, dig : BOOLEAN] :
     d.src => d.data # NoFile}

Whole(f) == disk[f].data = Source(f) /\ disk[f].src

\* The calls of modify_time, of the rest of write, and of remove_download_file
ModifyCalls == {"digest", "rename", "mtime"}
Calls == ModifyCalls \union {"sync", "path", "open", "note", "data"}
RemoveCalls == {"part", "digest"}

\* Slip: the source's mtime is there without the file.
ModifyTime_MtimeOfNothing(d, ok) ==
  LET moved == "rename" \in ok /\ d.part # NoFile
  IN [data |-> IF moved THEN d.part ELSE d.data,
      src  |-> "mtime" \in ok \/ (d.src /\ ~moved),
      part |-> IF moved THEN NoFile ELSE d.part,
      dig  |-> d.dig /\ "digest" \notin ok]

\* modify_time: the digest goes, `.download` gets the final name, and whatever
\* has that name gets the mtime of the source.  Errors are swallowed: of the
\* calls, only those of `ok` have an effect.
ModifyTime(d, ok) ==
  LET moved == "rename" \in ok /\ d.part # NoFile
  IN [data |-> IF moved THEN d.part ELSE d.data,
      src  |-> IF "mtime" \in ok THEN moved \/ d.data # NoFile ELSE d.src /\ ~moved,
      part |-> IF moved THEN NoFile ELSE d.part,
      dig  |-> d.dig /\ "digest" \notin ok]

\* Slip: the last file is taken to be out of range.
HasFile_ButLast(j) == j.files /\ j.num + 1 < NumFiles

HasFile(j) == j.files /\ j.num < NumFiles

Renamed(j, ok) ==
  IF HasFile(j) THEN [disk EXCEPT ![j.num] = ModifyTime(@, ok)] ELSE disk

\* the file that does not get its name or its mtime
Marred(j, ok) == IF HasFile(j) /\ ~({"rename", "mtime"} \subseteq ok) THEN {j.num} ELSE {}

\* remove_download_file, which swallows errors too
Removed(j, ok) ==
  IF HasFile(j)
  THEN [disk EXCEPT ![j.num].part = IF "part" \in ok THEN NoFile ELSE @,
                    ![j.num].dig = @ /\ "digest" \notin ok]
  ELSE disk

\* is_write_need_confirmation: the length of a `.download` that can be resumed.  The
\* digest beside it is taken to be that of the source: sources do not change here.
Resumable(f, resume) ==
  IF resume /\ disk[f].dig /\ disk[f].part # NoFile THEN Len(disk[f].part) ELSE 0

-----------------------------------------------------------------------------
(* Jobs                                                                    *)

Reader == [on : BOOLEAN, last : BOOLEAN, resume : BOOLEAN, num : Nat, open : BOOLEAN,
           pos : Nat, confirmed : BOOLEAN, waiting : BOOLEAN, skipped : BOOLEAN]
\* The writing end's data_stream is a handle: it follows its file when that is renamed.
NoStream == -1
Writer == [on : BOOLEAN, last : BOOLEAN, resume : BOOLEAN, num : Nat,
           stream : Files \union {NoStream}, files : BOOLEAN]

NoReader == [on |-> FALSE, last |-> FALSE, resume |-> FALSE, num |-> 0, open |-> FALSE,
             pos |-> 0, confirmed |-> FALSE, waiting |-> FALSE, skipped |-> FALSE]
NoWriter == [on |-> FALSE, last |-> FALSE, resume |-> FALSE, num |-> 0,
             stream |-> NoStream, files |-> FALSE]

NewReader(n) == [NoReader EXCEPT !.on = TRUE, !.num = n]
NewWriter(n) == [NoWriter EXCEPT !.on = TRUE, !.num = n]

Ctl  == IF upload THEN r ELSE w
Peer == IF upload THEN w ELSE r

\* The answers a FileTransferSendConfirmRequest carries: Skip, or OffsetBlk
Answers == [skip : {TRUE}, off : {0}] \union [skip : {FALSE}, off : Nat]
Skip == [skip |-> TRUE, off |-> 0]
From(n) == [skip |-> FALSE, off |-> n]

\* TransferJob::confirm at the writing end: an answer for another file than the
\* current one is ignored; a skipped file is left behind; an offset opens the
\* `.download` that is there.
Confirm(j, f, ans) ==
  IF j.num # f THEN j
  ELSE IF ans.skip THEN [j EXCEPT !.num = @ + 1, !.stream = NoStream]
  ELSE IF ans.off > 0 /\ Resumable(f, TRUE) > 0 THEN [j EXCEPT !.stream = f] ELSE j

\* Slip: a skipped file is still waited for.
ReaderConfirm_SkipWaits(j, f, ans) ==
  IF j.num # f THEN j
  ELSE IF ans.skip
  THEN [j EXCEPT !.num = @ + 1, !.open = FALSE, !.confirmed = FALSE, !.skipped = TRUE]
  ELSE [j EXCEPT !.confirmed = TRUE, !.skipped = FALSE, !.open = @ \/ ans.off > 0,
          !.pos = IF ans.off > 0 THEN ans.off ELSE @]

\* and at the reading end
ReaderConfirm(j, f, ans) ==
  IF j.num # f THEN j
  ELSE IF ans.skip
  THEN [j EXCEPT !.num = @ + 1, !.open = FALSE, !.confirmed = FALSE, !.waiting = FALSE,
          !.skipped = TRUE]
  ELSE [j EXCEPT !.confirmed = TRUE, !.skipped = FALSE, !.open = @ \/ ans.off > 0,
          !.pos = IF ans.off > 0 THEN ans.off ELSE @]

-----------------------------------------------------------------------------
(* Messages: file actions and file responses, with what the ends look at   *)

Confirms == [type : {"confirm"}, file : Files, ans : Answers]
ToWriter ==
  [type : {"receive", "dir", "cancel", "error", "done"}, file : Nat]
    \union [type : {"digest"}, file : Files, resume : BOOLEAN]
    \union [type : {"block"}, file : Files, data : Seq(Nat)] \union Confirms
ToReader ==
  [type : {"send", "cancel", "error", "done"}, file : Nat]
    \union [type : {"ask"}, file : Files, off : Nat] \union Confirms

Msg(type, f) == [type |-> type, file |-> f]
Ans(f, ans) == [type |-> "confirm", file |-> f, ans |-> ans]

SendW(m) == toW' = Append(toW, m)
SendR(m) == toR' = Append(toR, m)
RecvW(type) == toW # << >> /\ Head(toW).type = type /\ toW' = Tail(toW)
RecvR(type) == toR # << >> /\ Head(toR).type = type /\ toR' = Tail(toR)

Idle == ~r.on /\ ~w.on /\ toW = << >> /\ toR = << >>

Failures(n) == faults + n <= MaxFaults /\ faults' = faults + n
Fault == Failures(1)

\* A handler of whose calls those of `ok` succeed and the others fail
Calling(ok, calls) == Failures(Cardinality(calls \ ok))

\* set_stream_offset: what an end makes of an answer.  An offset that it cannot open the
\* file at or seek to is lost, and nobody is told.
Seeks(j, f, ans, got) ==
  \/ got = ans /\ UNCHANGED faults
  \/ j.num = f /\ ans.off > 0 /\ got = From(0) /\ Fault

\* Files whose offset or block is lost join those that are spoiled.
Spoil(files) == spoiled' = spoiled \union files

Init ==
  /\ upload \in BOOLEAN
  /\ r = NoReader /\ w = NoWriter /\ strategy = "ask" /\ asked = {}
  /\ toW = << >> /\ toR = << >>
  /\ disk \in [Files -> {[data |-> c, src |-> FALSE, part |-> NoFile, dig |-> FALSE] :
                           c \in {NoFile, <<0>>}}]
  /\ saved = -1 /\ jobs = 0 /\ faults = 0
  /\ first = 0 /\ consent = {} /\ kept = {} /\ untold = {}
  /\ stale = {} /\ spoiled = {} /\ events = {}

-----------------------------------------------------------------------------
(* The controlling end: Data of the user interface                         *)

\* A job enters the list of the controlling end with the file number n.
BeginJob(n, waits) ==
  /\ Idle /\ jobs < MaxJobs /\ jobs' = jobs + 1
  /\ r' = IF upload THEN [NewReader(n) EXCEPT !.last = waits] ELSE NoReader
  /\ w' = IF upload THEN NoWriter ELSE [NewWriter(n) EXCEPT !.last = waits]
  /\ strategy' = "ask" /\ asked' = {}
  /\ first' = n /\ consent' = {} /\ kept' = {} /\ untold' = {} /\ events' = {}
  /\ stale' = {f \in Files : disk[f].part # NoFile}
  /\ UNCHANGED <<upload, disk, saved, faults, spoiled>>

\* the request that starts the other end: ReceiveRequest or SendRequest
Request(n) ==
  IF upload THEN SendW(Msg("receive", n)) /\ UNCHANGED toR
            ELSE SendR(Msg("send", n)) /\ UNCHANGED toW

\* Data::SendFiles
SendFiles == BeginJob(FirstFile, FALSE) /\ Request(FirstFile)

\* Data::AddJob, for a job of the configuration: it waits for ResumeJob
AddJob == saved >= 0 /\ BeginJob(saved, TRUE) /\ UNCHANGED net

\* Data::ResumeJob.  The handler does not look at is_last_job: it is the user interfaces
\* that offer it for restored jobs alone.
ResumeJob ==
  /\ Ctl.on /\ Ctl.last
  /\ IF upload THEN r' = [r EXCEPT !.last = FALSE, !.resume = TRUE] /\ UNCHANGED w
               ELSE w' = [w EXCEPT !.last = FALSE, !.resume = TRUE] /\ UNCHANGED r
  /\ Request(Ctl.num)
  /\ UNCHANGED <<upload, strategy, asked, disk, saved, jobs, faults, history, events>>

RemoveDownload ==
  \E ok \in SUBSET RemoveCalls : Calling(ok, RemoveCalls) /\ disk' = Removed(w, ok)

\* Slip: only this end's job is dropped.
CancelJob_Silent ==
  /\ Ctl.on /\ asked' = {}
  /\ IF upload THEN r' = NoReader /\ UNCHANGED <<w, disk, faults>>
               ELSE w' = NoWriter /\ RemoveDownload /\ UNCHANGED r
  /\ events' = events \union {"cancel"}
  /\ UNCHANGED <<upload, strategy, net, saved, jobs, history>>

\* cancel_transfer_job
CancelJob ==
  /\ Ctl.on /\ asked' = {}
  /\ IF upload
     THEN r' = NoReader /\ SendW(Msg("cancel", 0)) /\ UNCHANGED <<w, toR, disk, faults>>
     ELSE w' = NoWriter /\ SendR(Msg("cancel", 0)) /\ RemoveDownload /\ UNCHANGED <<r, toW>>
  /\ events' = events \union {"cancel"}
  /\ UNCHANGED <<upload, strategy, saved, jobs, history>>

\* What an answer means for the file, for the properties
Decide(f, ans) ==
  /\ consent' = IF ans.skip THEN consent ELSE consent \union {f}
  /\ kept' = IF ans.skip THEN kept \union {f} ELSE kept

\* An offset the writing end ignores or cannot go to: it will write the rest of f to a
\* new file.
OffsetLost(f, ans, got) == IF got # ans \/ (ans.off > 0 /\ w.num # f) THEN {f} ELSE {}

\* Slip: only the reading end hears of the answer.
Answer_ReaderOnly(f, ans) ==
  /\ SendR(Ans(f, ans))
  /\ Decide(f, ans)
  /\ UNCHANGED <<w, spoiled, faults>>

\* The writing end of a download answers: it confirms its own job and tells the
\* reading end.
Answer(f, ans) ==
  /\ \E got \in {ans, From(0)} :
       Seeks(w, f, ans, got) /\ w' = Confirm(w, f, got) /\ Spoil(OffsetLost(f, ans, got))
  /\ SendR(Ans(f, ans))
  /\ Decide(f, ans)

\* Data::SetConfirmOverrideFile.  For an upload only the reading end, which is
\* this one, hears of the answer.
SetConfirmOverrideFile ==
  \E f \in asked, overwrite \in BOOLEAN, remember \in BOOLEAN :
    LET ans == IF overwrite THEN From(0) ELSE Skip IN
    /\ Ctl.on /\ asked' = asked \ {f}
    /\ strategy' = IF remember THEN (IF overwrite THEN "yes" ELSE "no") ELSE strategy
    /\ IF upload
       THEN /\ r' = ReaderConfirm(r, f, ans)
            /\ Decide(f, ans)
            /\ untold' = IF ans.skip THEN untold \union {f} ELSE untold
            /\ UNCHANGED <<w, toR, spoiled, faults>>
       ELSE Answer(f, ans) /\ UNCHANGED <<r, untold>>
    /\ UNCHANGED <<upload, toW, disk, saved, jobs, first, stale, events>>

-----------------------------------------------------------------------------
(* The reading end: one tick of handle_read_jobs                           *)

Reading == r.on /\ ~r.last
Rest == <<upload, strategy, asked, toR, disk, saved, jobs, history, events, w>>

\* init_data_stream: the file is opened and its digest sent
SendDigest ==
  /\ Reading /\ r.num < NumFiles /\ ~r.confirmed /\ ~r.waiting
  /\ r' = [r EXCEPT !.open = TRUE, !.pos = 0, !.waiting = TRUE]
  /\ SendW([type |-> "digest", file |-> r.num, resume |-> r.resume])
  /\ UNCHANGED <<Rest, faults>>

\* left behind at the end of a file, and after an error of it
NextFile(j) ==
  [j EXCEPT !.num = @ + 1, !.open = FALSE, !.confirmed = FALSE, !.waiting = FALSE]

\* read: a block, or the empty block that ends the file
ReadBlock ==
  /\ Reading /\ r.num < NumFiles /\ r.confirmed
  /\ IF r.pos < Size[r.num]
     THEN r' = [r EXCEPT !.pos = @ + 1] /\ SendW([type |-> "block", file |-> r.num,
                                                 data |-> <<r.pos + 1>>])
     ELSE r' = NextFile(r) /\ SendW([type |-> "block", file |-> r.num, data |-> << >>])
  /\ UNCHANGED <<Rest, faults>>

\* The file cannot be opened.  The tick that reports it finds nothing to read
\* and nothing to wait for, so it also ends the job.
OpenError ==
  /\ Reading /\ r.num < NumFiles /\ ~r.open /\ Fault
  /\ r' = NoReader
  /\ toW' = toW \o <<Msg("error", r.num + 1), Msg("done", r.num + 1)>>
  /\ UNCHANGED Rest

\* The open file cannot be read: the error is reported, the next file is next.
ReadError ==
  /\ Reading /\ r.num < NumFiles /\ r.confirmed /\ Fault
  /\ r' = NextFile(r)
  /\ SendW(Msg("error", r.num + 1))
  /\ UNCHANGED Rest

\* No file is left: job_completed, and job_error for a single skipped file
EndJob ==
  /\ Reading /\ r.num >= NumFiles
  /\ r' = NoReader
  /\ SendW(Msg(IF r.skipped /\ NumFiles = 1 THEN "error" ELSE "done", r.num))
  /\ UNCHANGED <<Rest, faults>>

-----------------------------------------------------------------------------
(* The reading end: messages                                               *)

\* A download: FileAction::Send makes the read job, or reports why it cannot
RecvSend ==
  /\ RecvR("send")
  /\ \/ /\ r' = NewReader(Head(toR).file) /\ SendW(Msg("dir", 0)) /\ UNCHANGED faults
     \/ /\ Fault /\ SendW(Msg("error", 0)) /\ UNCHANGED r
  /\ UNCHANGED <<upload, w, strategy, asked, disk, saved, jobs, history, events>>

\* SendConfirm, of either direction
RecvConfirm ==
  /\ RecvR("confirm")
  /\ LET f == Head(toR).file
         ans == Head(toR).ans
     IN IF ~r.on THEN UNCHANGED <<r, spoiled, faults>>
        ELSE \E got \in {ans, From(0)} :
               /\ Seeks(r, f, ans, got) /\ r' = ReaderConfirm(r, f, got)
               /\ Spoil(IF got # ans THEN {f} ELSE {})
  /\ UNCHANGED <<upload, w, strategy, asked, toW, disk, saved, jobs, first, consent, kept,
                 untold, stale, events>>

\* FileAction::Cancel of a download
RecvCancelRead ==
  /\ ~upload /\ RecvR("cancel") /\ r' = NoReader
  /\ UNCHANGED <<upload, w, strategy, asked, toW, disk, saved, jobs, faults, history, events>>

\* An upload: the digest of a file that exists comes back.  A resumed file and a
\* remembered answer are confirmed at both ends; otherwise the user is asked.
RecvAsk ==
  /\ RecvR("ask")
  /\ LET f == Head(toR).file
         n == IF r.resume THEN Head(toR).off ELSE 0
         ans == IF n > 0 THEN From(n) ELSE IF strategy = "yes" THEN From(0) ELSE Skip
     IN IF ~r.on THEN UNCHANGED <<r, toW, asked, consent, kept, spoiled, faults>>
        ELSE IF n > 0 \/ strategy # "ask"
        THEN /\ \E got \in {ans, From(0)} : /\ Seeks(r, f, ans, got) /\ r' = ReaderConfirm(r, f, got)
                                     /\ Spoil(IF got # ans THEN {f} ELSE {})
             /\ SendW(Ans(f, ans)) /\ Decide(f, ans) /\ UNCHANGED asked
        ELSE asked' = asked \union {f} /\ UNCHANGED <<r, toW, consent, kept, spoiled, faults>>
  /\ UNCHANGED <<upload, w, strategy, disk, saved, jobs, first, untold, stale, events>>

\* An upload: what the connection manager reports reaches the io_loop
RecvReport ==
  /\ \/ RecvR("done") /\ events' = events \union {"done"} /\ UNCHANGED <<r, asked>>
     \/ RecvR("error") /\ events' = events \union {"error"} /\ r' = NoReader /\ asked' = {}
  /\ UNCHANGED <<upload, w, strategy, toW, disk, saved, jobs, faults, history>>

-----------------------------------------------------------------------------
(* The writing end                                                         *)

\* An upload: FS::NewWrite, refused when a name in the list is not allowed
RecvReceive ==
  /\ RecvW("receive")
  /\ \/ /\ w' = [NewWriter(Head(toW).file) EXCEPT !.files = TRUE]
        /\ UNCHANGED <<toR, faults>>
     \/ Fault /\ SendR(Msg("error", 0)) /\ UNCHANGED w
  /\ UNCHANGED <<upload, r, strategy, asked, disk, saved, jobs, history, events>>

\* A download: FileResponse::Dir, set_files.  A list with a name that is not allowed
\* cancels the job and reports an error; it has no file yet that could be removed.
RecvDir ==
  /\ RecvW("dir")
  /\ \/ /\ w' = IF w.on THEN [w EXCEPT !.files = TRUE] ELSE w
        /\ UNCHANGED <<asked, toR, faults, events>>
     \/ /\ w.on /\ Fault /\ w' = NoWriter /\ asked' = {} /\ SendR(Msg("cancel", 0))
        /\ events' = events \union {"error"}
  /\ UNCHANGED <<upload, r, strategy, disk, saved, jobs, history>>

\* FileResponse::Digest of a download.  When the file that is there cannot be
\* examined, nobody answers.
RecvDigest ==
  /\ ~upload /\ RecvW("digest")
  /\ LET f == Head(toW).file
         n == Resumable(f, w.resume)
         Auto(ans) == Answer(f, ans) /\ UNCHANGED asked
         nothing == UNCHANGED <<w, toR, asked, consent, kept, spoiled>>
     IN \/ /\ UNCHANGED events
           /\ IF ~w.on THEN nothing /\ UNCHANGED faults
              ELSE IF n > 0 THEN Auto(From(n))
              ELSE IF disk[f].data = NoFile THEN Auto(From(0))
              ELSE IF strategy # "ask"
              THEN Auto(IF strategy = "yes" THEN From(0) ELSE Skip)
              ELSE /\ asked' = asked \union {f}
                   /\ UNCHANGED <<w, toR, consent, kept, spoiled, faults>>
        \/ /\ w.on /\ n = 0 /\ disk[f].data # NoFile /\ Fault
           /\ nothing /\ events' = events \union {"unanswered"}
  /\ UNCHANGED <<upload, r, strategy, disk, saved, jobs, first, untold, stale>>

\* FS::CheckDigest of an upload: a file that exists is the user's to decide
CheckDigest ==
  /\ upload /\ RecvW("digest")
  /\ LET f == Head(toW).file
         n == Resumable(f, Head(toW).resume)
     IN \/ /\ UNCHANGED faults
           /\ IF ~w.on THEN UNCHANGED <<toR, consent, kept>>
              ELSE IF n > 0 \/ disk[f].data # NoFile
              THEN SendR([type |-> "ask", file |-> f, off |-> n]) /\ UNCHANGED <<consent, kept>>
              ELSE SendR(Ans(f, From(0))) /\ Decide(f, From(0))
        \/ /\ w.on /\ n = 0 /\ disk[f].data # NoFile /\ Fault
           /\ SendR(Msg("error", f)) /\ UNCHANGED <<consent, kept>>
  /\ UNCHANGED <<upload, job, asked, disk, saved, jobs, first, untold, stale, spoiled, events>>

\* FS::SendConfirm of an upload
RecvConfirmWrite ==
  /\ RecvW("confirm")
  /\ LET f == Head(toW).file
         ans == Head(toW).ans
     IN IF ~w.on THEN UNCHANGED <<w, spoiled, faults>>
        ELSE \E got \in {ans, From(0)} : /\ Seeks(w, f, ans, got) /\ w' = Confirm(w, f, got)
                                  /\ Spoil(OffsetLost(f, ans, got))
  /\ UNCHANGED <<upload, r, strategy, asked, toR, disk, saved, jobs, first, consent, kept,
                 untold, stale, events>>

\* TransferJob::write.  The first block of a file finishes the file before it and opens
\* its own; when that fails the handle is still the old one, and if file_num is set
\* by then, the next blocks do not try again.
New(f) == f # w.num \/ w.stream = NoStream
Synced(ok) == w.stream = NoStream \/ "sync" \in ok
Opens(ok) == {"path", "open"} \subseteq ok
Unopened(f, ok) == New(f) /\ ~(Synced(ok) /\ Opens(ok))

Moved(f, ok) ==
  IF ~New(f) \/ ~Synced(ok) THEN w
  ELSE [w EXCEPT !.num = f, !.stream = IF Opens(ok) THEN f ELSE @]

\* Slip: a `.download` that is there is opened without being truncated.
Opened_Keeps(f, ok) ==
  IF ~New(f) THEN disk
  ELSE IF ~Synced(ok) THEN Renamed(w, ok)
  ELSE IF ~Opens(ok) THEN [Renamed(w, ok) EXCEPT ![f].dig = @ /\ "path" \notin ok]
  ELSE [Renamed(w, ok) EXCEPT ![f].part = IF @ = NoFile THEN << >> ELSE @,
                              ![f].dig = "note" \in ok]

\* the file opened: the digest of an earlier `.download` goes before it is truncated
Opened(f, ok) ==
  IF ~New(f) THEN disk
  ELSE IF ~Synced(ok) THEN Renamed(w, ok)
  ELSE IF ~Opens(ok) THEN [Renamed(w, ok) EXCEPT ![f].dig = @ /\ "path" \notin ok]
  ELSE [Renamed(w, ok) EXCEPT ![f].part = << >>, ![f].dig = "note" \in ok]

\* the block written, through a handle of the file g
Appended(files, g, data) ==
  IF files[g].part # NoFile THEN [files EXCEPT ![g].part = @ \o data]
  ELSE [files EXCEPT ![g].data = @ \o data, ![g].src = @ /\ data = << >>]

Fails(f, data, ok) == Unopened(f, ok) \/ (data # << >> /\ "data" \notin ok)

Written(f, data, ok) ==
  IF Fails(f, data, ok) THEN Opened(f, ok)
  ELSE Appended(Opened(f, ok), IF New(f) THEN f ELSE w.stream, data)

\* what a failure spoils: the file whose block is lost, the one the handle is left on, and
\* the one that is not finished
Spoils(f, data, ok) ==
  (IF Fails(f, data, ok) THEN {f} ELSE {})
    \union (IF Unopened(f, ok) THEN {w.stream} \ {NoStream} ELSE {})
    \union (IF New(f) THEN Marred(w, ok) ELSE {})

\* A block.  When writing it fails, a download goes on and an upload reports it.
RecvBlock ==
  /\ RecvW("block")
  /\ LET f == Head(toW).file
         data == Head(toW).data
     IN IF ~w.on THEN UNCHANGED <<w, disk, spoiled, faults, toR>>
        ELSE \E ok \in SUBSET Calls :
               /\ Calling(ok, Calls)
               /\ w' = Moved(f, ok) /\ disk' = Written(f, data, ok)
               /\ Spoil(Spoils(f, data, ok))
               /\ IF upload /\ Fails(f, data, ok) THEN SendR(Msg("error", f)) ELSE UNCHANGED toR
  /\ UNCHANGED <<upload, r, strategy, asked, saved, jobs, first, consent, kept, untold, stale,
                 events>>

\* FileResponse::Done, FS::WriteDone
RecvDone ==
  /\ RecvW("done")
  /\ w' = NoWriter
  /\ IF ~w.on THEN UNCHANGED <<disk, spoiled, faults>>
     ELSE \E ok \in SUBSET ModifyCalls :
            Calling(ok, ModifyCalls) /\ disk' = Renamed(w, ok) /\ Spoil(Marred(w, ok))
  /\ events' = IF upload THEN events ELSE events \union {"done"}
  /\ asked' = IF upload THEN asked ELSE {}
  /\ IF upload /\ w.on THEN SendR(Msg("done", 0)) ELSE UNCHANGED toR
  /\ UNCHANGED <<upload, r, strategy, saved, jobs, first, consent, kept, untold, stale>>

\* Slip: the job that failed is finished like one that is done.
RecvError_Finishes ==
  /\ RecvW("error")
  /\ w' = NoWriter
  /\ disk' = IF w.on THEN Renamed(w, ModifyCalls) ELSE disk
  /\ events' = IF upload THEN events ELSE events \union {"error"}
  /\ asked' = IF upload THEN asked ELSE {}
  /\ IF upload /\ w.on THEN SendR(Msg("error", 0)) ELSE UNCHANGED toR
  /\ UNCHANGED <<upload, r, strategy, saved, jobs, faults, history>>

\* FileResponse::Error, FS::WriteError
RecvError ==
  /\ RecvW("error")
  /\ w' = NoWriter
  /\ events' = IF upload THEN events ELSE events \union {"error"}
  /\ asked' = IF upload THEN asked ELSE {}
  /\ IF upload /\ w.on THEN SendR(Msg("error", 0)) ELSE UNCHANGED toR
  /\ UNCHANGED <<upload, r, strategy, disk, saved, jobs, faults, history>>

\* FS::CancelWrite
RecvCancelWrite ==
  /\ upload /\ RecvW("cancel")
  /\ w' = NoWriter
  /\ IF w.on THEN RemoveDownload ELSE UNCHANGED <<disk, faults>>
  /\ UNCHANGED <<upload, r, strategy, asked, toR, saved, jobs, history, events>>

-----------------------------------------------------------------------------
(* The end of a connection                                                 *)

Lost ==
  /\ ~Idle
  /\ r' = NoReader /\ w' = NoWriter /\ toW' = << >> /\ toR' = << >> /\ asked' = {}
  /\ UNCHANGED <<upload, strategy, disk, jobs, faults, history, events>>

\* The io_loop ends: sync_jobs_status_to_local stores the jobs it still has.
Disconnect == Lost /\ saved' = IF Ctl.on THEN Ctl.num ELSE -1

\* The controlling process dies: the configuration is as the last session left it.
Crash == Lost /\ UNCHANGED saved

Tick == SendDigest \/ ReadBlock \/ EndJob
Trouble == OpenError \/ ReadError
ReaderMessage == RecvSend \/ RecvConfirm \/ RecvCancelRead \/ RecvAsk \/ RecvReport
WriterMessage ==
  \/ RecvReceive \/ RecvDir \/ RecvDigest \/ CheckDigest \/ RecvConfirmWrite
  \/ RecvBlock \/ RecvDone \/ RecvError \/ RecvCancelWrite
User == SendFiles \/ AddJob \/ ResumeJob \/ CancelJob \/ SetConfirmOverrideFile

Next == User \/ Tick \/ Trouble \/ ReaderMessage \/ WriterMessage \/ Disconnect \/ Crash

Spec == Init /\ [][Next]_vars

\* The timer of the reading end ticks every millisecond while it has jobs, and both
\* ends go on taking messages.  Nothing obliges the user to answer.
FairSpec == Spec /\ WF_vars(Tick) /\ WF_vars(ReaderMessage) /\ WF_vars(WriterMessage)

-----------------------------------------------------------------------------
(* Properties                                                              *)

\* Both ends' jobs, the messages and the disk keep their types, whichever calls fail: only a
\* file that is there has the mtime of the source (modify_time, write).
TypeOK ==
  /\ upload \in BOOLEAN
  /\ r \in Reader /\ w \in Writer
  /\ toW \in Seq(ToWriter) /\ toR \in Seq(ToReader)
  /\ strategy \in {"ask", "yes", "no"}
  /\ asked \subseteq Files
  /\ disk \in [Files -> FileOnDisk]
  /\ saved \in Nat \union {-1} /\ first \in Nat /\ jobs \in Nat /\ faults \in Nat
  /\ \A h \in {consent, kept, untold, stale, spoiled} : h \subseteq Files
  /\ events \subseteq {"done", "error", "cancel", "unanswered"}

\* A `.download` is a prefix of the source: is_write_need_confirmation takes its length as
\* the offset to go on from.  Excepted are the files that a failed call of write or
\* set_stream_offset spoiled, and those of which the writing end ignored the offset.
PartsArePrefixes ==
  \A f \in Files \ spoiled : disk[f].part # NoFile =>
    /\ Len(disk[f].part) <= Size[f]
    /\ disk[f].part = SubSeq(Source(f), 1, Len(disk[f].part))

\* After job_done (and no job_error and no cancel_transfer_job) every file from the first
\* one on is whole under its final name, unless it was to be kept or is spoiled: exactly the
\* file of a block that write could not store, the one its data_stream was left on, the one
\* modify_time failed for, or one of a lost offset.
DoneDelivers ==
  events = {"done"} => \A f \in first .. NumFiles - 1 : f \in kept \union spoiled \/ Whole(f)

\* What modify_time renames to the final name is the whole source, never a part of it, and
\* nothing is appended to it afterwards -- unless an earlier `.download` was lying there, or
\* a failure before had spoiled the file (the blocks of a file that write cannot open go to
\* the file before it).
RenamesWholeFiles ==
  [][\A f \in Files : disk'[f].data # disk[f].data
                    => disk'[f].data = Source(f) \/ f \in stale \union spoiled]_vars

\* A file that exists changes, in content or mtime, only if SetConfirmOverrideFile or the
\* remembered strategy has agreed to it in this job -- or if the user chose to keep it and
\* the writing end of an upload was not told.
OverwriteNeedsConsent ==
  [][\A f \in Files : disk[f].data # NoFile /\ <<disk'[f].data, disk'[f].src>> #
                                               <<disk[f].data, disk[f].src>>
                    => f \in consent \union untold]_vars

\* A job that init_jobs and handle_read_jobs work on ends, with or without an error, or
\* asks override_file_confirm: it never waits for an answer or a message that does not
\* come, unless the writing end of a download could not examine a file.
JobEndsOrAsks ==
  Ctl.on /\ ~Ctl.last /\ asked = {} ~> ~Ctl.on \/ asked # {} \/ "unanswered" \in events

\* Without failures of the file system, the other end drops its job as well: Done, Error
\* and cancel_transfer_job reach it, whatever is under way in the other direction.
PeerJobEnds == faults = 0 /\ Peer.on /\ ~Ctl.on ~> ~Peer.on \/ faults > 0

\* The comment in TransferJob::confirm: an answer the connection manager ignores is
\* no loss, "because `confirm()` in `ui_cm_interface.rs` is only used for resuming".
\* So a job reported done without an error or a failure delivers its files also when
\* it resumed them.
ResumeDelivers ==
  events = {"done"} /\ faults = 0 =>
    \A f \in first .. NumFiles - 1 : f \in kept \/ Whole(f)

\* session_send_files "starts a file transfer task" for the path it is given: once
\* it is reported done, no file of it that the user did not keep is missing.
SendFilesDelivers ==
  events = {"done"} /\ jobs = 1 /\ faults = 0 => \A f \in Files : f \in kept \/ Whole(f)
=============================================================================
