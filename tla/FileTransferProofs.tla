------------------------- MODULE FileTransferProofs -------------------------
(***************************************************************************)
(* Proofs about FileTransfer for jobs of any number and size of files, any *)
(* number of jobs and of failures.                                         *)
(***************************************************************************)
EXTENDS FileTransfer, FiniteSetTheorems, TLAPS

\* The writing end appends to a file that is there: nobody removes what its handle was
\* opened on, and renaming it leaves it under its final name.
There(d) == d.part # NoFile \/ d.data # NoFile
OpenIsThere == w.stream # NoStream => w.num \in Files /\ There(disk[w.stream])

IInv == TypeOK /\ OpenIsThere

Disk == [Files -> FileOnDisk]

-----------------------------------------------------------------------------
(* What the helpers return.                                                *)

LEMMA CallsFinite ==
  \A calls \in {ModifyCalls, Calls, RemoveCalls} : \A ok :
    IsFiniteSet(calls \ ok) /\ Cardinality(calls \ ok) \in Nat
<1>1. IsFiniteSet(ModifyCalls)
  <2>1. ModifyCalls = ({"digest"} \union {"rename"}) \union {"mtime"}
    BY DEF ModifyCalls
  <2> QED
    BY <2>1, FS_Singleton, FS_AddElement
<1>2. IsFiniteSet(RemoveCalls)
  <2>1. RemoveCalls = {"part"} \union {"digest"}
    BY DEF RemoveCalls
  <2> QED
    BY <2>1, FS_Singleton, FS_AddElement
<1>3. IsFiniteSet(Calls)
  <2>1. IsFiniteSet({"sync"} \union {"path"})
    BY FS_Singleton, FS_AddElement
  <2>3. IsFiniteSet(({"sync"} \union {"path"}) \union {"open"})
    BY <2>1, FS_AddElement
  <2>4. IsFiniteSet((({"sync"} \union {"path"}) \union {"open"}) \union {"note"})
    BY <2>3, FS_AddElement
  <2>2. Calls = ModifyCalls \union
                 (((({"sync"} \union {"path"}) \union {"open"}) \union {"note"}) \union {"data"})
    BY DEF Calls
  <2> QED
    BY <1>1, <2>2, <2>4, FS_AddElement, FS_Union
<1>4. \A S, ok : IsFiniteSet(S) => IsFiniteSet(S \ ok) /\ Cardinality(S \ ok) \in Nat
  BY FS_Difference, FS_CardinalityType
<1>5. ASSUME NEW calls \in {ModifyCalls, Calls, RemoveCalls}
      PROVE  IsFiniteSet(calls)
  BY <1>1, <1>2, <1>3
<1> QED
  BY <1>4, <1>5, Zenon

LEMMA FailuresType ==
  ASSUME TypeOK
  PROVE  /\ Fault => faults' \in Nat
         /\ \A calls \in {ModifyCalls, Calls, RemoveCalls} : \A ok :
              Calling(ok, calls) => faults' \in Nat
         /\ \A j, f, ans, got : Seeks(j, f, ans, got) => faults' \in Nat
<1>1. \A n \in Nat : Failures(n) => faults' \in Nat
  BY DEF Failures, TypeOK
<1>2. Fault => faults' \in Nat
  BY <1>1 DEF Fault
<1>3. faults \in Nat
  BY DEF TypeOK
<1>4. \A calls \in {ModifyCalls, Calls, RemoveCalls} : \A ok : Calling(ok, calls) => faults' \in Nat
  BY <1>1, CallsFinite DEF Calling
<1>5. \A j, f, ans, got : Seeks(j, f, ans, got) => faults' \in Nat
  BY <1>2, <1>3 DEF Seeks
<1> QED
  BY <1>2, <1>4, <1>5

LEMMA ModifyTimeType ==
  ASSUME NEW d \in FileOnDisk, NEW ok
  PROVE  /\ ModifyTime(d, ok) \in FileOnDisk
         /\ There(d) => There(ModifyTime(d, ok))
BY NoFileAssumption DEF ModifyTime, FileOnDisk, Contents, There

LEMMA RenamedType ==
  ASSUME disk \in Disk, NEW STATE j, j \in Writer, NEW ok
  PROVE  /\ Renamed(j, ok) \in Disk
         /\ \A f \in Files : There(disk[f]) => There(Renamed(j, ok)[f])
<1>1. CASE HasFile(j)
  <2>1. j.num \in Files
    BY <1>1, NumFilesAssumption DEF HasFile, Files, Writer
  <2>2. /\ ModifyTime(disk[j.num], ok) \in FileOnDisk
        /\ There(disk[j.num]) => There(ModifyTime(disk[j.num], ok))
    BY <2>1, ModifyTimeType DEF Disk
  <2>3. Renamed(j, ok) = [disk EXCEPT ![j.num] = ModifyTime(disk[j.num], ok)]
    BY <1>1 DEF Renamed
  <2> QED
    BY <2>1, <2>2, <2>3 DEF Disk
<1>2. CASE ~HasFile(j)
  BY <1>2 DEF Renamed
<1> QED
  BY <1>1, <1>2

LEMMA RemovedType ==
  ASSUME disk \in Disk, NEW STATE j, j \in Writer, NEW ok
  PROVE  Removed(j, ok) \in Disk
<1>1. CASE HasFile(j)
  <2> DEFINE d == [disk[j.num] EXCEPT !.part = IF "part" \in ok THEN NoFile ELSE @,
                                      !.dig = @ /\ "digest" \notin ok]
  <2>1. j.num \in Files
    BY <1>1, NumFilesAssumption DEF HasFile, Files, Writer
  <2>2. d \in FileOnDisk
    BY <2>1 DEF FileOnDisk, Contents, Disk
  <2>3. Removed(j, ok) = [disk EXCEPT ![j.num] = d]
    BY <1>1, <2>1 DEF Removed, Disk, FileOnDisk
  <2> QED
    BY <2>1, <2>2, <2>3 DEF Disk
<1>2. CASE ~HasFile(j)
  BY <1>2 DEF Removed
<1> QED
  BY <1>1, <1>2

LEMMA ResumableType ==
  ASSUME disk \in Disk, NEW STATE f, f \in Files, NEW STATE b, b \in BOOLEAN
  PROVE  Resumable(f, b) \in Nat /\ (Resumable(f, b) > 0 => disk[f].part # NoFile)
BY DEF Resumable, Disk, FileOnDisk, Contents

\* An answer that skips a file has no offset.
LEMMA AnswerOffsets == \A ans \in Answers : ans.off \in Nat /\ (ans.off > 0 => ~ans.skip)
<1>1. \A ans \in [skip : {TRUE}, off : {0}] : ans.off \in Nat /\ (ans.off > 0 => ~ans.skip)
  OBVIOUS
<1>2. \A ans \in [skip : {FALSE}, off : Nat] : ans.off \in Nat /\ (ans.off > 0 => ~ans.skip)
  OBVIOUS
<1> QED
  BY <1>1, <1>2, Zenon DEF Answers

\* A confirmed job: as it was, at the next file, or with the file it is at opened.
LEMMA ConfirmType ==
  ASSUME TypeOK, NEW STATE f, f \in Files, NEW ans \in Answers
  PROVE  /\ Confirm(w, f, ans) \in Writer
         /\ ReaderConfirm(r, f, ans) \in Reader
<1>1. f \in Nat /\ ans.off \in Nat
  BY NumFilesAssumption, AnswerOffsets DEF Files
<1>2. Confirm(w, f, ans) \in Writer
  <2>1. w \in Writer /\ w.num + 1 \in Nat
    BY DEF TypeOK, Writer
  <2>2. /\ [w EXCEPT !.num = w.num + 1, !.stream = NoStream] \in Writer
        /\ [w EXCEPT !.stream = f] \in Writer
    BY <2>1 DEF Writer
  <2> QED
    BY <2>1, <2>2 DEF Confirm
<1>3. ReaderConfirm(r, f, ans) \in Reader
  <2>1. r \in Reader /\ r.num + 1 \in Nat
    BY DEF TypeOK, Reader
  <2>2. [r EXCEPT !.num = r.num + 1, !.open = FALSE, !.confirmed = FALSE, !.waiting = FALSE,
                  !.skipped = TRUE] \in Reader
    BY <2>1 DEF Reader
  <2>3. (r.open \/ ans.off > 0) \in BOOLEAN
    OBVIOUS
  <2>4. (IF ans.off > 0 THEN ans.off ELSE r.pos) \in Nat
    BY <1>1, <2>1 DEF Reader
  <2>5. [r EXCEPT !.confirmed = TRUE, !.skipped = FALSE, !.open = r.open \/ ans.off > 0,
                  !.pos = IF ans.off > 0 THEN ans.off ELSE r.pos] \in Reader
    BY <2>1, <2>3, <2>4 DEF Reader
  <2> QED
    BY <2>1, <2>2, <2>5 DEF ReaderConfirm
<1> QED
  BY <1>2, <1>3

LEMMA ConfirmOpens ==
  ASSUME TypeOK, OpenIsThere, NEW STATE f, f \in Files, NEW ans \in Answers
  PROVE  LET j == Confirm(w, f, ans)
         IN j.stream # NoStream => j.num \in Files /\ There(disk[j.stream])
<1>1. Resumable(f, TRUE) > 0 => There(disk[f])
  BY ResumableType DEF TypeOK, Disk, There
<1> QED
  BY <1>1 DEF Confirm, OpenIsThere, TypeOK, Writer

LEMMA AnswersType ==
  /\ Skip \in Answers
  /\ \A n \in Nat : From(n) \in Answers
BY DEF Skip, From, Answers

\* What an end makes of an answer is an answer.
LEMMA SeeksType ==
  ASSUME TypeOK, NEW j, NEW f, NEW ans \in Answers, NEW got, Seeks(j, f, ans, got)
  PROVE  got \in Answers
BY AnswersType DEF Seeks

LEMMA WriterHead ==
  ASSUME TypeOK, toW # << >>
  PROVE  /\ Tail(toW) \in Seq(ToWriter)
         /\ Head(toW).type \in {"receive", "dir", "cancel", "error", "done"}
              => Head(toW).file \in Nat
         /\ Head(toW).type \in {"digest", "block", "confirm"} => Head(toW).file \in Files
         /\ Head(toW).type = "digest" => Head(toW).resume \in BOOLEAN
         /\ Head(toW).type = "block" => Head(toW).data \in Seq(Nat)
         /\ Head(toW).type = "confirm" => Head(toW).ans \in Answers
<1>1. toW \in Seq(ToWriter)
  BY DEF TypeOK
<1>2. Head(toW) \in ToWriter /\ Tail(toW) \in Seq(ToWriter)
  BY <1>1
<1> QED
  BY <1>2 DEF ToWriter, Confirms

LEMMA ReaderHead ==
  ASSUME TypeOK, toR # << >>
  PROVE  /\ Tail(toR) \in Seq(ToReader)
         /\ Head(toR).type \in {"send", "cancel", "error", "done"} => Head(toR).file \in Nat
         /\ Head(toR).type \in {"ask", "confirm"} => Head(toR).file \in Files
         /\ Head(toR).type = "ask" => Head(toR).off \in Nat
         /\ Head(toR).type = "confirm" => Head(toR).ans \in Answers
<1>1. toR \in Seq(ToReader)
  BY DEF TypeOK
<1>2. Head(toR) \in ToReader /\ Tail(toR) \in Seq(ToReader)
  BY <1>1
<1> QED
  BY <1>2 DEF ToReader, Confirms

LEMMA Messages ==
  /\ \A t \in {"receive", "dir", "cancel", "error", "done"}, n \in Nat : Msg(t, n) \in ToWriter
  /\ \A t \in {"send", "cancel", "error", "done"}, n \in Nat : Msg(t, n) \in ToReader
  /\ \A f \in Files, a \in Answers : Ans(f, a) \in ToWriter /\ Ans(f, a) \in ToReader
  /\ \A f \in Files, b \in BOOLEAN : [type |-> "digest", file |-> f, resume |-> b] \in ToWriter
  /\ \A f \in Files, d \in Seq(Nat) : [type |-> "block", file |-> f, data |-> d] \in ToWriter
  /\ \A f \in Files, n \in Nat : [type |-> "ask", file |-> f, off |-> n] \in ToReader
BY DEF Msg, Ans, ToWriter, ToReader, Confirms

LEMMA SendWType ==
  ASSUME TypeOK, NEW STATE m, m \in ToWriter, SendW(m)
  PROVE  toW' \in Seq(ToWriter)
BY DEF TypeOK, SendW

LEMMA SendRType ==
  ASSUME TypeOK, NEW STATE m, m \in ToReader, SendR(m)
  PROVE  toR' \in Seq(ToReader)
BY DEF TypeOK, SendR

LEMMA NoJobs ==
  /\ NoReader \in Reader /\ NoWriter \in Writer /\ NoWriter.stream = NoStream
  /\ \A n \in Nat : /\ NewReader(n) \in Reader /\ NewWriter(n) \in Writer
                    /\ [NewReader(n) EXCEPT !.last = TRUE] \in Reader
                    /\ [NewWriter(n) EXCEPT !.last = TRUE] \in Writer
                    /\ [NewReader(n) EXCEPT !.last = FALSE] \in Reader
                    /\ [NewWriter(n) EXCEPT !.last = FALSE] \in Writer
                    /\ [NewWriter(n) EXCEPT !.files = TRUE] \in Writer
                    /\ NewWriter(n).stream = NoStream
BY DEF NoReader, NoWriter, NewReader, NewWriter, Reader, Writer

\* The writing end of a download answers.
LEMMA AnswerType ==
  ASSUME IInv, NEW STATE f, f \in Files, NEW STATE ans, ans \in Answers, Answer(f, ans)
  PROVE  /\ w' \in Writer /\ toR' \in Seq(ToReader) /\ faults' \in Nat
         /\ consent' \subseteq Files /\ kept' \subseteq Files /\ spoiled' \subseteq Files
         /\ w'.stream # NoStream => w'.num \in Files /\ There(disk[w'.stream])
<1>1. PICK got : /\ Seeks(w, f, ans, got) /\ w' = Confirm(w, f, got)
                 /\ Spoil(OffsetLost(f, ans, got))
  BY DEF Answer
<1>2. got \in Answers /\ faults' \in Nat
  BY <1>1, SeeksType, FailuresType DEF IInv
<1>3. w' \in Writer /\ (w'.stream # NoStream => w'.num \in Files /\ There(disk[w'.stream]))
  BY <1>1, <1>2, ConfirmType, ConfirmOpens DEF IInv
<1>4. toR' \in Seq(ToReader)
  BY Messages, SendRType DEF Answer, IInv
<1>5. consent' \subseteq Files /\ kept' \subseteq Files
  BY DEF Answer, Decide, IInv, TypeOK
<1>6. spoiled' \subseteq Files
  BY <1>1 DEF Spoil, OffsetLost, IInv, TypeOK
<1> QED
  BY <1>2, <1>3, <1>4, <1>5, <1>6

-----------------------------------------------------------------------------
LEMMA IInvInit == Init => IInv
<1> SUFFICES ASSUME Init PROVE IInv
  OBVIOUS
<1>1. disk \in Disk
  <2>1. <<0>> \in Contents /\ NoFile \in Contents
    BY DEF Contents
  <2>2. \A c \in {NoFile, <<0>>} :
          [data |-> c, src |-> FALSE, part |-> NoFile, dig |-> FALSE] \in FileOnDisk
    BY <2>1 DEF FileOnDisk
  <2> QED
    BY <2>2 DEF Init, Disk
<1>2. toW \in Seq(ToWriter) /\ toR \in Seq(ToReader)
  BY DEF Init
<1>3. TypeOK
  BY <1>1, <1>2, NoJobs DEF Init, TypeOK, Disk
<1>4. OpenIsThere
  BY NoJobs DEF Init, OpenIsThere
<1> QED
  BY <1>3, <1>4 DEF IInv

\* The commands of the user keep the types.
LEMMA UserStep == IInv /\ User => IInv'
<1> SUFFICES ASSUME IInv, User PROVE IInv'
  OBVIOUS
<1> USE DEF IInv
<1>1. ASSUME NEW n \in Nat, NEW b \in BOOLEAN, BeginJob(n, b),
             toW' \in Seq(ToWriter), toR' \in Seq(ToReader)
      PROVE  IInv'
  <2>1. r' \in Reader /\ w' \in Writer /\ w'.stream = NoStream
    BY <1>1, NoJobs DEF BeginJob, NoWriter, NewWriter
  <2>2. jobs' \in Nat /\ stale' \subseteq Files
    BY <1>1 DEF BeginJob, TypeOK
  <2>3. TypeOK'
    BY <1>1, <2>1, <2>2 DEF BeginJob, TypeOK
  <2> QED
    BY <2>1, <2>3 DEF OpenIsThere
<1>2. ASSUME NEW n \in Nat, Request(n)
      PROVE  toW' \in Seq(ToWriter) /\ toR' \in Seq(ToReader)
  BY <1>2, Messages, SendWType, SendRType DEF Request, TypeOK
<1>3. CASE SendFiles
  BY <1>1, <1>2, <1>3, FirstFileAssumption DEF SendFiles
<1>4. CASE AddJob
  <2>1. saved \in Nat
    BY <1>4 DEF AddJob, TypeOK
  <2>2. toW' \in Seq(ToWriter) /\ toR' \in Seq(ToReader)
    BY <1>4 DEF AddJob, TypeOK, net
  <2> QED
    BY <1>1, <1>4, <2>1, <2>2 DEF AddJob
<1>5. CASE ResumeJob
  <2>1. r' \in Reader /\ w' \in Writer
    BY <1>5 DEF ResumeJob, TypeOK, Reader, Writer
  <2>2. Ctl.num \in Nat
    BY DEF Ctl, TypeOK, Reader, Writer
  <2>3. toW' \in Seq(ToWriter) /\ toR' \in Seq(ToReader)
    BY <1>2, <1>5, <2>2 DEF ResumeJob
  <2>4. TypeOK'
    BY <1>5, <2>1, <2>3 DEF ResumeJob, TypeOK, history
  <2>5. w'.stream = w.stream /\ w'.num = w.num
    BY <1>5 DEF ResumeJob, TypeOK, Writer
  <2> QED
    BY <1>5, <2>4, <2>5 DEF ResumeJob, OpenIsThere
<1>6. CASE CancelJob
  <2>1. r' \in Reader /\ w' \in Writer
    BY <1>6, NoJobs DEF CancelJob, TypeOK
  <2>2. disk' \in Disk /\ faults' \in Nat
    BY <1>6, RemovedType, FailuresType DEF CancelJob, RemoveDownload, TypeOK, Disk
  <2>3. toW' \in Seq(ToWriter) /\ toR' \in Seq(ToReader)
    BY <1>6, Messages, SendWType, SendRType DEF CancelJob, TypeOK
  <2>4. TypeOK'
    BY <1>6, <2>1, <2>2, <2>3 DEF CancelJob, TypeOK, history, Disk
  <2>5. OpenIsThere'
    BY <1>6, NoJobs DEF CancelJob, OpenIsThere
  <2> QED
    BY <2>4, <2>5
<1>7. CASE SetConfirmOverrideFile
  <2>1. PICK f \in asked, overwrite \in BOOLEAN, remember \in BOOLEAN :
          LET ans == IF overwrite THEN From(0) ELSE Skip IN
          /\ asked' = asked \ {f}
          /\ strategy' = IF remember THEN (IF overwrite THEN "yes" ELSE "no") ELSE strategy
          /\ IF upload
             THEN /\ r' = ReaderConfirm(r, f, ans) /\ Decide(f, ans)
                  /\ untold' = IF ans.skip THEN untold \union {f} ELSE untold
                  /\ UNCHANGED <<w, toR, spoiled, faults>>
             ELSE Answer(f, ans) /\ UNCHANGED <<r, untold>>
          /\ UNCHANGED <<upload, toW, disk, saved, jobs, first, stale, events>>
    BY <1>7, Zenon DEF SetConfirmOverrideFile
  <2> DEFINE ans == IF overwrite THEN From(0) ELSE Skip
  <2>2. f \in Files /\ ans \in Answers
    BY AnswersType DEF TypeOK
  <2> HIDE DEF ans
  <2>3. r' \in Reader /\ w' \in Writer /\ toR' \in Seq(ToReader) /\ OpenIsThere'
    <3>1. CASE upload
      BY <2>1, <2>2, <3>1, ConfirmType DEF TypeOK, OpenIsThere, ans
    <3>2. CASE ~upload
      BY <2>1, <2>2, <3>2, AnswerType DEF TypeOK, OpenIsThere, ans
    <3> QED
      BY <3>1, <3>2
  <2>4. consent' \subseteq Files /\ kept' \subseteq Files /\ untold' \subseteq Files
    BY <2>1, <2>2, AnswerType DEF Decide, TypeOK, ans
  <2>5. spoiled' \subseteq Files /\ faults' \in Nat
    BY <2>1, <2>2, AnswerType DEF TypeOK, ans
  <2>7. TypeOK'
    BY <2>1, <2>3, <2>4, <2>5 DEF TypeOK
  <2>8. OpenIsThere'
    BY <2>3
  <2> QED
    BY <2>7, <2>8
<1> QED
  BY <1>3, <1>4, <1>5, <1>6, <1>7 DEF User

\* A tick of the reading end, with or without an error, keeps the types.
LEMMA TickStep == IInv /\ (Tick \/ Trouble) => IInv'
<1> SUFFICES ASSUME IInv, Tick \/ Trouble PROVE IInv'
  OBVIOUS
<1> USE DEF IInv
<1>1. ASSUME r' \in Reader, toW' \in Seq(ToWriter), faults' \in Nat, UNCHANGED Rest
      PROVE  IInv'
  <2>1. TypeOK'
    BY <1>1 DEF Rest, history, TypeOK
  <2> QED
    BY <1>1, <2>1 DEF Rest, OpenIsThere
<1>2. /\ r.num \in Nat /\ r.pos \in Nat /\ r.num + 1 \in Nat /\ r.pos + 1 \in Nat
      /\ r.resume \in BOOLEAN /\ (r.num < NumFiles => r.num \in Files)
      /\ faults \in Nat /\ (Fault => faults' \in Nat)
  BY NumFilesAssumption, FailuresType DEF TypeOK, Reader, Files
<1>3. NextFile(r) \in Reader
  BY <1>2 DEF NextFile, TypeOK, Reader
<1>4. CASE SendDigest
  <2>1. r' \in Reader
    BY <1>4 DEF SendDigest, TypeOK, Reader
  <2>2. toW' \in Seq(ToWriter)
    BY <1>2, <1>4, Messages, SendWType DEF SendDigest
  <2> QED
    BY <1>1, <1>2, <1>4, <2>1, <2>2 DEF SendDigest
<1>5. CASE ReadBlock
  <2>1. [r EXCEPT !.pos = r.pos + 1] \in Reader
    BY <1>2 DEF TypeOK, Reader
  <2>2. r' \in Reader
    BY <1>3, <1>5, <2>1 DEF ReadBlock
  <2>3. r.num \in Files /\ <<r.pos + 1>> \in Seq(Nat) /\ << >> \in Seq(Nat)
    BY <1>2, <1>5 DEF ReadBlock
  <2>4. toW' \in Seq(ToWriter)
    BY <1>5, <2>3, Messages, SendWType DEF ReadBlock
  <2> QED
    BY <1>1, <1>2, <1>5, <2>2, <2>4 DEF ReadBlock
<1>6. CASE OpenError
  <2>1. Msg("error", r.num + 1) \in ToWriter /\ Msg("done", r.num + 1) \in ToWriter
    BY <1>2, Messages
  <2>2. toW' \in Seq(ToWriter)
    BY <1>6, <2>1 DEF OpenError, TypeOK
  <2> QED
    BY <1>1, <1>2, <1>6, <2>2, NoJobs DEF OpenError
<1>7. CASE ReadError
  <2>1. toW' \in Seq(ToWriter)
    BY <1>2, <1>7, Messages, SendWType DEF ReadError
  <2> QED
    BY <1>1, <1>2, <1>3, <1>7, <2>1 DEF ReadError
<1>8. CASE EndJob
  <2>1. toW' \in Seq(ToWriter)
    BY <1>2, <1>8, Messages, SendWType DEF EndJob
  <2> QED
    BY <1>1, <1>2, <1>8, <2>1, NoJobs DEF EndJob
<1> QED
  BY <1>4, <1>5, <1>6, <1>7, <1>8 DEF Tick, Trouble

\* What the reading end receives keeps the types.
LEMMA ReaderMessageStep == IInv /\ ReaderMessage => IInv'
<1> SUFFICES ASSUME IInv, ReaderMessage PROVE IInv'
  OBVIOUS
<1> USE DEF IInv
<1>1. CASE RecvSend
  <2>1. toR # << >> /\ toR' = Tail(toR) /\ Head(toR).type = "send"
    BY <1>1 DEF RecvSend, RecvR
  <2>2. toR' \in Seq(ToReader) /\ Head(toR).file \in Nat
    BY <2>1, ReaderHead
  <2>3. r' \in Reader
    BY <1>1, <2>2, NoJobs DEF RecvSend, TypeOK
  <2>4. toW' \in Seq(ToWriter)
    BY <1>1, Messages, SendWType DEF RecvSend
  <2>5. faults' \in Nat
    BY <1>1, FailuresType DEF RecvSend, TypeOK
  <2>6. TypeOK'
    BY <1>1, <2>2, <2>3, <2>4, <2>5 DEF RecvSend, TypeOK, history
  <2> QED
    BY <1>1, <2>6 DEF RecvSend, OpenIsThere
<1>2. CASE RecvConfirm
  <2>1. toR # << >> /\ toR' = Tail(toR) /\ Head(toR).type = "confirm"
    BY <1>2 DEF RecvConfirm, RecvR
  <2>2. toR' \in Seq(ToReader) /\ Head(toR).file \in Files /\ Head(toR).ans \in Answers
    BY <2>1, ReaderHead
  <2>3. r' \in Reader /\ faults' \in Nat /\ spoiled' \subseteq Files
    <3>1. CASE ~r.on
      BY <1>2, <3>1 DEF RecvConfirm, TypeOK
    <3>2. CASE r.on
      <4>1. PICK got : /\ Seeks(r, Head(toR).file, Head(toR).ans, got)
                       /\ r' = ReaderConfirm(r, Head(toR).file, got)
                       /\ Spoil(IF got # Head(toR).ans THEN {Head(toR).file} ELSE {})
        BY <1>2, <3>2 DEF RecvConfirm
      <4>2. got \in Answers /\ faults' \in Nat
        BY <2>2, <4>1, SeeksType, FailuresType
      <4>3. spoiled' \subseteq Files
        BY <2>2, <4>1 DEF Spoil, TypeOK
      <4> QED
        BY <2>2, <4>1, <4>2, <4>3, ConfirmType
    <3> QED
      BY <3>1, <3>2
  <2>4. TypeOK'
    BY <1>2, <2>2, <2>3 DEF RecvConfirm, TypeOK
  <2> QED
    BY <1>2, <2>4 DEF RecvConfirm, OpenIsThere
<1>3. CASE RecvCancelRead
  <2>1. toR' \in Seq(ToReader)
    BY <1>3, ReaderHead DEF RecvCancelRead, RecvR
  <2>2. TypeOK'
    BY <1>3, <2>1, NoJobs DEF RecvCancelRead, TypeOK, history
  <2> QED
    BY <1>3, <2>2 DEF RecvCancelRead, OpenIsThere
<1>4. CASE RecvAsk
  <2>1. toR # << >> /\ toR' = Tail(toR) /\ Head(toR).type = "ask"
    BY <1>4 DEF RecvAsk, RecvR
  <2> DEFINE f == Head(toR).file
             n == IF r.resume THEN Head(toR).off ELSE 0
             ans == IF n > 0 THEN From(n) ELSE IF strategy = "yes" THEN From(0) ELSE Skip
  <2>2. toR' \in Seq(ToReader) /\ f \in Files /\ n \in Nat
    BY <2>1, ReaderHead
  <2>3. ans \in Answers
    BY <2>2, AnswersType
  <2>4. IF ~r.on THEN UNCHANGED <<r, toW, asked, consent, kept, spoiled, faults>>
        ELSE IF n > 0 \/ strategy # "ask"
        THEN /\ \E got \in {ans, From(0)} : /\ Seeks(r, f, ans, got) /\ r' = ReaderConfirm(r, f, got)
                                            /\ Spoil(IF got # ans THEN {f} ELSE {})
             /\ SendW(Ans(f, ans)) /\ Decide(f, ans) /\ UNCHANGED asked
        ELSE asked' = asked \union {f} /\ UNCHANGED <<r, toW, consent, kept, spoiled, faults>>
    BY <1>4, Zenon DEF RecvAsk
  <2> HIDE DEF f, n, ans
  <2>5. ASSUME NEW got, Seeks(r, f, ans, got), r' = ReaderConfirm(r, f, got),
               Spoil(IF got # ans THEN {f} ELSE {})
        PROVE  r' \in Reader /\ faults' \in Nat /\ spoiled' \subseteq Files
    <3>1. got \in Answers /\ faults' \in Nat
      BY <2>3, <2>5, SeeksType, FailuresType
    <3>2. spoiled' \subseteq Files
      BY <2>2, <2>5 DEF Spoil, TypeOK
    <3> QED
      BY <2>2, <2>5, <3>1, <3>2, ConfirmType
  <2>6. toW' \in Seq(ToWriter)
    BY <2>2, <2>3, <2>4, Messages, SendWType DEF TypeOK
  <2>7. asked' \subseteq Files /\ consent' \subseteq Files /\ kept' \subseteq Files
    BY <2>2, <2>4 DEF TypeOK, Decide
  <2>9. r' \in Reader /\ faults' \in Nat /\ spoiled' \subseteq Files
    BY <2>4, <2>5 DEF TypeOK
  <2>8. TypeOK'
    BY <1>4, <2>2, <2>6, <2>7, <2>9 DEF RecvAsk, TypeOK
  <2> QED
    BY <1>4, <2>8 DEF RecvAsk, OpenIsThere
<1>5. CASE RecvReport
  <2>1. toR' \in Seq(ToReader)
    BY <1>5, ReaderHead DEF RecvReport, RecvR
  <2>2. TypeOK'
    BY <1>5, <2>1, NoJobs DEF RecvReport, TypeOK, history
  <2> QED
    BY <1>5, <2>2 DEF RecvReport, OpenIsThere
<1> QED
  BY <1>1, <1>2, <1>3, <1>4, <1>5 DEF ReaderMessage

\* What opening a file does to the disk: no file that is there goes, and the `.download`
\* of the file is there afterwards unless it could not be opened.
LEMMA OpenedType ==
  ASSUME IInv, NEW STATE f, f \in Files, NEW ok
  PROVE  /\ Opened(f, ok) \in Disk
         /\ \A g \in Files : There(disk[g]) => There(Opened(f, ok)[g])
         /\ New(f) /\ ~Unopened(f, ok) => There(Opened(f, ok)[f])
<1> DEFINE d == Renamed(w, ok)
<1>1. disk \in Disk /\ w \in Writer
  BY DEF IInv, TypeOK, Disk
<1>2. d \in Disk /\ \A g \in Files : There(disk[g]) => There(d[g])
  BY <1>1, RenamedType
<1>3. << >> \in Contents /\ << >> # NoFile
  <2>1. << >> \in Seq(Nat)
    OBVIOUS
  <2> QED
    BY <2>1, NoFileAssumption, Zenon DEF Contents
<1> HIDE DEF d
<1>4. CASE ~New(f)
  BY <1>1, <1>4 DEF Opened
<1>5. CASE New(f) /\ ~Synced(ok)
  BY <1>2, <1>5 DEF Opened, Unopened, d
<1>6. CASE New(f) /\ Synced(ok) /\ ~Opens(ok)
  <2> DEFINE x == [d[f] EXCEPT !.dig = @ /\ "path" \notin ok]
  <2>1. x \in FileOnDisk /\ (There(d[f]) => There(x))
    BY <1>2 DEF Disk, FileOnDisk, There
  <2>2. Opened(f, ok) = [d EXCEPT ![f] = x]
    BY <1>2, <1>6 DEF Opened, Disk, FileOnDisk, d
  <2> HIDE DEF x
  <2> QED
    BY <1>2, <1>6, <2>1, <2>2 DEF Disk, Unopened
<1>7. CASE New(f) /\ Synced(ok) /\ Opens(ok)
  <2> DEFINE noted == "note" \in ok
             x == [d[f] EXCEPT !.part = << >>, !.dig = noted]
  <2>2. Opened(f, ok) = [d EXCEPT ![f] = x]
    BY <1>2, <1>7 DEF Opened, Disk, FileOnDisk, d
  <2>3. noted \in BOOLEAN
    OBVIOUS
  <2> HIDE DEF noted
  <2>1. x \in FileOnDisk /\ There(x)
    BY <1>2, <1>3, <2>3 DEF Disk, FileOnDisk, There
  <2> HIDE DEF x
  <2> QED
    BY <1>2, <1>7, <2>1, <2>2 DEF Disk
<1> QED
  BY <1>4, <1>5, <1>6, <1>7

\* Writing a block extends the file of the handle, which is there.
LEMMA AppendedType ==
  ASSUME NEW files \in Disk, NEW g \in Files, There(files[g]), NEW data \in Seq(Nat)
  PROVE  /\ Appended(files, g, data) \in Disk
         /\ \A h \in Files : There(files[h]) => There(Appended(files, g, data)[h])
<1>1. files[g] \in FileOnDisk
  BY DEF Disk
<1>2. CASE files[g].part # NoFile
  <2>1. files[g].part \in Seq(Nat)
    BY <1>1, <1>2 DEF FileOnDisk, Contents
  <2> DEFINE c == files[g].part \o data
             x == [files[g] EXCEPT !.part = c]
  <2>2. c \in Seq(Nat)
    BY <2>1
  <2>3. c \in Contents /\ c # NoFile
    BY <2>2, NoFileAssumption DEF Contents
  <2>4. Appended(files, g, data) = [files EXCEPT ![g] = x]
    BY <1>2 DEF Appended
  <2> HIDE DEF c
  <2>5. x \in FileOnDisk /\ There(x)
    BY <1>1, <2>3 DEF FileOnDisk, There
  <2> HIDE DEF x
  <2> QED
    BY <2>4, <2>5 DEF Disk
<1>3. CASE files[g].part = NoFile
  <2>1. files[g].data \in Seq(Nat)
    BY <1>1, <1>3 DEF FileOnDisk, Contents, There
  <2> DEFINE c == files[g].data \o data
             x == [files[g] EXCEPT !.data = c, !.src = files[g].src /\ data = << >>]
  <2>2. c \in Seq(Nat)
    BY <2>1
  <2>3. c \in Contents /\ c # NoFile
    BY <2>2, NoFileAssumption DEF Contents
  <2>4. Appended(files, g, data) = [files EXCEPT ![g] = x]
    BY <1>1, <1>3 DEF Appended, Disk, FileOnDisk
  <2> HIDE DEF c
  <2>5. (files[g].src /\ data = << >>) \in BOOLEAN
    OBVIOUS
  <2>6. x \in FileOnDisk /\ There(x)
    BY <1>1, <2>3, <2>5 DEF FileOnDisk, There
  <2> HIDE DEF x
  <2> QED
    BY <2>4, <2>6 DEF Disk
<1> QED
  BY <1>2, <1>3

LEMMA WrittenType ==
  ASSUME IInv, NEW STATE f, f \in Files, NEW data \in Seq(Nat), NEW ok
  PROVE  /\ Written(f, data, ok) \in Disk
         /\ Moved(f, ok) \in Writer
         /\ Moved(f, ok).stream # NoStream =>
              Moved(f, ok).num \in Files /\ There(Written(f, data, ok)[Moved(f, ok).stream])
<1> DEFINE files == Opened(f, ok)
           g == IF New(f) THEN f ELSE w.stream
<1>1. w \in Writer /\ f \in Nat /\ f # NoStream
  BY NumFilesAssumption DEF IInv, TypeOK, Files, NoStream
<1>2. /\ files \in Disk
      /\ \A h \in Files : There(disk[h]) => There(files[h])
      /\ New(f) /\ ~Unopened(f, ok) => There(files[f])
  BY OpenedType
<1>3. ~New(f) => w.stream \in Files /\ w.num = f
  BY <1>1 DEF New, Writer
<1>4. w.stream # NoStream => w.stream \in Files /\ w.num \in Files /\ There(disk[w.stream])
  BY <1>1 DEF IInv, OpenIsThere, Writer
<1>5. ~Unopened(f, ok) => g \in Files /\ There(files[g])
  BY <1>2, <1>3, <1>4 DEF New
<1>6. /\ Written(f, data, ok) \in Disk
      /\ \A h \in Files : There(files[h]) => There(Written(f, data, ok)[h])
  <2> HIDE DEF files, g
  <2>1. CASE Fails(f, data, ok)
    BY <1>2, <2>1 DEF Written, files
  <2>2. CASE ~Fails(f, data, ok)
    <3>1. Written(f, data, ok) = Appended(files, g, data)
      BY <2>2 DEF Written, files, g
    <3> QED
      BY <1>2, <1>5, <2>2, <3>1, AppendedType DEF Fails
  <2> QED
    BY <2>1, <2>2
<1>7. /\ Moved(f, ok) \in Writer
      /\ Moved(f, ok).stream # NoStream =>
           /\ Moved(f, ok).num \in Files
           /\ \/ Moved(f, ok).stream = w.stream /\ w.stream # NoStream
              \/ Moved(f, ok).stream = f /\ New(f) /\ ~Unopened(f, ok)
  <2>1. CASE ~New(f) \/ ~Synced(ok)
    BY <1>1, <1>4, <2>1 DEF Moved
  <2>2. CASE New(f) /\ Synced(ok) /\ Opens(ok)
    <3>1. Moved(f, ok) = [w EXCEPT !.num = f, !.stream = f]
      BY <2>2 DEF Moved
    <3> QED
      BY <1>1, <2>2, <3>1 DEF Writer, Unopened
  <2>3. CASE New(f) /\ Synced(ok) /\ ~Opens(ok)
    <3>1. Moved(f, ok) = [w EXCEPT !.num = f]
      BY <1>1, <2>3 DEF Moved, Writer
    <3> QED
      BY <1>1, <3>1 DEF Writer
  <2> QED
    BY <2>1, <2>2, <2>3
<1> QED
  BY <1>2, <1>4, <1>6, <1>7

LEMMA MarredType ==
  ASSUME IInv
  PROVE  \A ok : Marred(w, ok) \subseteq Files
BY NumFilesAssumption DEF Marred, HasFile, Files, Writer, IInv, TypeOK

LEMMA SpoilsType ==
  ASSUME IInv, NEW STATE f, f \in Files
  PROVE  \A data, ok : Spoils(f, data, ok) \subseteq Files
BY MarredType DEF Spoils, Writer, IInv, TypeOK

\* What the writing end receives keeps the types.
LEMMA WriterMessageStep == IInv /\ WriterMessage => IInv'
<1> SUFFICES ASSUME IInv, WriterMessage PROVE IInv'
  OBVIOUS
<1> USE DEF IInv
<1>1. ASSUME RecvReceive \/ RecvDir \/ RecvDigest \/ CheckDigest \/ RecvConfirmWrite
             \/ RecvBlock \/ RecvDone \/ RecvError \/ RecvCancelWrite
      PROVE  toW # << >> /\ toW' = Tail(toW) /\ toW' \in Seq(ToWriter)
  <2>1. toW # << >> /\ toW' = Tail(toW)
    BY <1>1 DEF RecvReceive, RecvDir, RecvDigest, CheckDigest, RecvConfirmWrite, RecvBlock,
                RecvDone, RecvError, RecvCancelWrite, RecvW
  <2> QED
    BY <2>1, WriterHead
<1>2. Fault => faults' \in Nat
  BY FailuresType
<1>3. CASE RecvReceive
  <2>1. Head(toW).file \in Nat
    BY <1>1, <1>3, WriterHead DEF RecvReceive, RecvW
  <2>2. w' \in Writer /\ (w'.stream # NoStream => w' = w)
    BY <1>3, <2>1, NoJobs DEF RecvReceive, TypeOK, NewWriter, NoWriter
  <2>3. toR' \in Seq(ToReader)
    BY <1>3, Messages, SendRType DEF RecvReceive, TypeOK
  <2>4. faults' \in Nat
    BY <1>2, <1>3 DEF RecvReceive, TypeOK
  <2>5. TypeOK'
    BY <1>1, <1>3, <2>2, <2>3, <2>4 DEF RecvReceive, TypeOK, history
  <2> QED
    BY <1>3, <2>2, <2>5 DEF RecvReceive, OpenIsThere
<1>4. CASE RecvDir
  <2>1. CASE w' = (IF w.on THEN [w EXCEPT !.files = TRUE] ELSE w)
             /\ UNCHANGED <<asked, toR, faults, events>>
    <3>1. w' \in Writer /\ w'.stream = w.stream /\ w'.num = w.num
      BY <2>1 DEF TypeOK, Writer
    <3>2. TypeOK'
      BY <1>1, <1>4, <2>1, <3>1 DEF RecvDir, TypeOK, history
    <3> QED
      BY <1>4, <3>1, <3>2 DEF RecvDir, OpenIsThere
  <2>2. CASE /\ Fault /\ w' = NoWriter /\ asked' = {} /\ SendR(Msg("cancel", 0))
             /\ events' = events \union {"error"}
    <3>1. toR' \in Seq(ToReader)
      BY <2>2, Messages, SendRType
    <3>2. TypeOK'
      BY <1>1, <1>2, <1>4, <2>2, <3>1, NoJobs DEF RecvDir, TypeOK, history
    <3> QED
      BY <2>2, <3>2, NoJobs DEF OpenIsThere
  <2> QED
    BY <1>4, <2>1, <2>2 DEF RecvDir
<1>5. CASE RecvDigest
  <2> DEFINE f == Head(toW).file
             n == Resumable(f, w.resume)
  <2>1. f \in Files
    BY <1>1, <1>5, WriterHead DEF RecvDigest, RecvW
  <2>2. n \in Nat
    BY <2>1, ResumableType DEF TypeOK, Writer, Disk
  <2> HIDE DEF f, n
  <2>3. ASSUME NEW ans \in Answers, Answer(f, ans)
        PROVE  /\ w' \in Writer /\ toR' \in Seq(ToReader) /\ faults' \in Nat
               /\ consent' \subseteq Files /\ kept' \subseteq Files /\ spoiled' \subseteq Files
               /\ w'.stream # NoStream => w'.num \in Files /\ There(disk[w'.stream])
    BY <2>1, <2>3, AnswerType
  <2>4. \/ (\E ans \in Answers : Answer(f, ans)) /\ UNCHANGED asked
        \/ /\ asked' \in {asked, asked \union {f}} /\ UNCHANGED <<w, toR, consent, kept, spoiled>>
           /\ Fault \/ UNCHANGED faults
    BY <1>5, <2>2, AnswersType, Zenon DEF RecvDigest, f, n
  <2>5. asked' \subseteq Files
    BY <2>1, <2>4 DEF TypeOK
  <2>6. /\ w' \in Writer /\ toR' \in Seq(ToReader) /\ faults' \in Nat
        /\ consent' \subseteq Files /\ kept' \subseteq Files /\ spoiled' \subseteq Files
        /\ w'.stream # NoStream => w'.num \in Files /\ There(disk[w'.stream])
    BY <1>2, <2>3, <2>4 DEF TypeOK, OpenIsThere
  <2>7. events' \subseteq {"done", "error", "cancel", "unanswered"}
    BY <1>5 DEF RecvDigest, TypeOK
  <2>8. TypeOK'
    BY <1>1, <1>5, <2>5, <2>6, <2>7 DEF RecvDigest, TypeOK
  <2> QED
    BY <1>5, <2>6, <2>8 DEF RecvDigest, OpenIsThere
<1>6. CASE CheckDigest
  <2>1. Head(toW).file \in Files /\ Head(toW).resume \in BOOLEAN
    BY <1>1, <1>6, WriterHead DEF CheckDigest, RecvW
  <2>2. Resumable(Head(toW).file, Head(toW).resume) \in Nat
    BY <2>1, ResumableType DEF TypeOK, Disk
  <2>3. Head(toW).file \in Nat
    BY <2>1 DEF Files
  <2>4. toR' \in Seq(ToReader)
    BY <1>6, <2>1, <2>2, <2>3, Messages, SendRType, AnswersType DEF CheckDigest, TypeOK
  <2>5. consent' \subseteq Files /\ kept' \subseteq Files
    BY <1>6, <2>1 DEF CheckDigest, Decide, TypeOK
  <2>6. faults' \in Nat
    BY <1>2, <1>6 DEF CheckDigest, TypeOK
  <2>7. TypeOK'
    BY <1>1, <1>6, <2>4, <2>5, <2>6 DEF CheckDigest, TypeOK, job
  <2> QED
    BY <1>6, <2>7 DEF CheckDigest, OpenIsThere, job
<1>7. CASE RecvConfirmWrite
  <2>1. Head(toW).file \in Files /\ Head(toW).ans \in Answers
    BY <1>1, <1>7, WriterHead DEF RecvConfirmWrite, RecvW
  <2>2. /\ w' \in Writer /\ faults' \in Nat /\ spoiled' \subseteq Files
        /\ w'.stream # NoStream => w'.num \in Files /\ There(disk[w'.stream])
    <3>1. CASE ~w.on
      BY <1>7, <3>1 DEF RecvConfirmWrite, TypeOK, OpenIsThere
    <3>2. CASE w.on
      <4>1. PICK got : /\ Seeks(w, Head(toW).file, Head(toW).ans, got)
                       /\ w' = Confirm(w, Head(toW).file, got)
                       /\ Spoil(OffsetLost(Head(toW).file, Head(toW).ans, got))
        BY <1>7, <3>2 DEF RecvConfirmWrite
      <4>2. got \in Answers /\ faults' \in Nat
        BY <2>1, <4>1, SeeksType, FailuresType
      <4>3. spoiled' \subseteq Files
        BY <2>1, <4>1 DEF Spoil, OffsetLost, TypeOK
      <4> QED
        BY <2>1, <4>1, <4>2, <4>3, ConfirmType, ConfirmOpens
    <3> QED
      BY <3>1, <3>2
  <2>5. TypeOK'
    BY <1>1, <1>7, <2>2 DEF RecvConfirmWrite, TypeOK
  <2> QED
    BY <1>7, <2>2, <2>5 DEF RecvConfirmWrite, OpenIsThere
<1>8. CASE RecvBlock
  <2>1. /\ Head(toW).file \in Files /\ Head(toW).file \in Nat
        /\ Head(toW).data \in Seq(Nat) /\ << >> \in Seq(Nat)
    BY <1>1, <1>8, WriterHead DEF RecvBlock, RecvW, Files
  <2>2. CASE ~w.on
    <3>1. UNCHANGED <<w, disk, spoiled, faults, toR>>
      BY <1>8, <2>2 DEF RecvBlock
    <3>2. TypeOK'
      BY <1>1, <1>8, <3>1 DEF RecvBlock, TypeOK
    <3> QED
      BY <3>1, <3>2 DEF OpenIsThere
  <2>3. CASE w.on
    <3> DEFINE f == Head(toW).file
               data == Head(toW).data
    <3>1. PICK ok : /\ Calling(ok, Calls) /\ w' = Moved(f, ok) /\ disk' = Written(f, data, ok)
                    /\ Spoil(Spoils(f, data, ok))
                    /\ IF upload /\ Fails(f, data, ok) THEN SendR(Msg("error", f)) ELSE UNCHANGED toR
      BY <1>8, <2>3 DEF RecvBlock
    <3> HIDE DEF f, data
    <3>2. f \in Files /\ f \in Nat /\ data \in Seq(Nat)
      BY <2>1 DEF f, data
    <3>3. w' \in Writer /\ disk' \in Disk /\ OpenIsThere'
      BY <3>1, <3>2, WrittenType DEF OpenIsThere
    <3>4. toR' \in Seq(ToReader)
      BY <3>1, <3>2, Messages, SendRType DEF TypeOK
    <3>5. faults' \in Nat /\ spoiled' \subseteq Files
      BY <3>1, <3>2, FailuresType, SpoilsType DEF Spoil, TypeOK
    <3>6. TypeOK'
      BY <1>1, <1>8, <3>3, <3>4, <3>5 DEF RecvBlock, TypeOK, Disk
    <3> QED
      BY <3>3, <3>6
  <2> QED
    BY <2>2, <2>3
<1>9. ASSUME w' = NoWriter, RecvDone \/ RecvError \/ RecvCancelWrite
      PROVE  IInv'
  <2>1. disk' \in Disk /\ spoiled' \subseteq Files /\ faults' \in Nat
    <3>4. disk \in Disk /\ w \in Writer /\ spoiled \subseteq Files /\ faults \in Nat
      BY DEF TypeOK, Disk
    <3>1. CASE RecvDone
      <4>1. CASE ~w.on
        BY <3>1, <3>4, <4>1 DEF RecvDone
      <4>2. CASE w.on
        <5>1. PICK ok : Calling(ok, ModifyCalls) /\ disk' = Renamed(w, ok) /\ Spoil(Marred(w, ok))
          BY <3>1, <4>2 DEF RecvDone
        <5> QED
          BY <3>4, <5>1, RenamedType, FailuresType, MarredType DEF Spoil
      <4> QED
        BY <4>1, <4>2
    <3>2. CASE RecvError
      BY <3>2 DEF RecvError, TypeOK, Disk, history
    <3>3. CASE RecvCancelWrite
      BY <3>3, <3>4, RemovedType, FailuresType DEF RecvCancelWrite, RemoveDownload, history
    <3> QED
      BY <1>9, <3>1, <3>2, <3>3
  <2>2. toR' \in Seq(ToReader)
    BY <1>9, Messages, SendRType DEF RecvDone, RecvError, RecvCancelWrite, TypeOK
  <2>3. asked' \subseteq Files /\ events' \subseteq {"done", "error", "cancel", "unanswered"}
    BY <1>9 DEF RecvDone, RecvError, RecvCancelWrite, TypeOK
  <2>4. TypeOK'
    BY <1>1, <1>9, <2>1, <2>2, <2>3, NoJobs
       DEF RecvDone, RecvError, RecvCancelWrite, TypeOK, Disk, history
  <2> QED
    BY <1>9, <2>4, NoJobs DEF OpenIsThere
<1> QED
  BY <1>3, <1>4, <1>5, <1>6, <1>7, <1>8, <1>9
     DEF WriterMessage, RecvDone, RecvError, RecvCancelWrite

\* Nothing of a job survives the end of the connection but the disk.
LEMMA LostStep == IInv /\ (Disconnect \/ Crash) => IInv'
<1> SUFFICES ASSUME IInv, Disconnect \/ Crash PROVE IInv'
  OBVIOUS
<1>1. Lost /\ saved' \in Nat \union {-1}
  BY DEF IInv, Disconnect, Crash, Lost, Ctl, TypeOK, Reader, Writer
<1>2. TypeOK'
  BY <1>1, NoJobs DEF IInv, Lost, TypeOK, history
<1> QED
  BY <1>1, <1>2, NoJobs DEF IInv, Lost, OpenIsThere

LEMMA IInvStep == IInv /\ [Next]_vars => IInv'
<1> SUFFICES ASSUME IInv, [Next]_vars PROVE IInv'
  OBVIOUS
<1>1. CASE UNCHANGED vars
  BY <1>1 DEF vars, job, net, history, IInv, TypeOK, OpenIsThere
<1>2. CASE Next
  BY <1>2, UserStep, TickStep, ReaderMessageStep, WriterMessageStep, LostStep DEF Next
<1> QED
  BY <1>1, <1>2

LEMMA IInvAlways == Spec => []IInv
BY IInvInit, IInvStep, PTL DEF Spec

-----------------------------------------------------------------------------
\* Type correctness, for any number of files, jobs and failures: the jobs of both ends,
\* the messages between them and the files on the disk keep their types, and
\* TransferJob::write always finds the `.download` it appends to.
THEOREM TypeCorrect == Spec => []TypeOK
<1>1. IInv => TypeOK
  BY DEF IInv
<1> QED
  BY <1>1, IInvAlways, PTL
=============================================================================
