---------------------- MODULE FileTransferSafetyProofs ----------------------
(***************************************************************************)
(* Proofs of the safety properties of FileTransfer: what a job writes, and *)
(* what it has delivered when it is reported done.                         *)
(*                                                                         *)
(* The reading end sends the files one after another, and the messages to  *)
(* the writing end tell where it stands.  So the invariant relates each    *)
(* message to the one before it, the reader to the last one, and the       *)
(* writer and the disk to the first.                                       *)
(*                                                                         *)
(* The last part shows that a job never waits for something that is not    *)
(* under way, the safety part of the liveness properties.                  *)
(***************************************************************************)
EXTENDS FileTransferProofs, SequenceTheorems

Prefix(n) == [k \in 1 .. n |-> k]

InW(types) == \E i \in 1 .. Len(toW) : toW[i].type \in types
InR(types) == \E i \in 1 .. Len(toR) : toR[i].type \in types

-----------------------------------------------------------------------------
(* Where the reading end stands after a message.                           *)

\* It begins with file n, ...
Boundary(m, n) ==
  \/ m.type \in {"dir", "receive"} /\ n = first
  \/ m.type = "block" /\ m.data = << >> /\ n = m.file + 1
  \/ m.type = "confirm" /\ m.ans.skip /\ n = m.file + 1
  \/ m.type = "error"

\* An offset behind the end of the file, which only a `.download` that is spoiled
\* can propose, is as good as the end.
Cap(f, n) == IF n > Size[f] THEN Size[f] ELSE n

\* ... or has sent k blocks of file f.  An offset that it could not seek to is lost.
Midway(m, f, k) ==
  \/ m.type = "block" /\ m.data # << >> /\ m.file = f /\ m.data[1] = k
  \/ /\ m.type = "confirm" /\ ~m.ans.skip /\ m.file = f
     /\ k = Cap(f, m.ans.off) \/ (f \in spoiled /\ k = 0)

\* How many blocks of its file are sent before a block
Before(m) == IF m.data = << >> THEN Size[m.file] ELSE m.data[1] - 1

WellFormed(m) ==
  m.type = "block" => m.data = << >> \/ (Len(m.data) = 1 /\ m.data[1] \in 1 .. Size[m.file])

\* What a message says about the one before it
Linked(p, m) ==
  /\ m.type = "block" => Midway(p, m.file, Before(m))
  /\ m.type = "digest" => Boundary(p, m.file)
  /\ m.type = "done" => \E n \in NumFiles .. NumFiles + first : Boundary(p, n)
  /\ m.type \notin {"dir", "receive", "confirm"}

QueueW ==
  /\ \A i \in 1 .. Len(toW) : WellFormed(toW[i])
  /\ \A i \in 2 .. Len(toW) : Linked(toW[i - 1], toW[i])
  /\ \A i \in 1 .. Len(toW) : toW[i].type = "done" => i = Len(toW) /\ ~r.on

\* The reader and the last message
ReaderAt ==
  r.on =>
    /\ r.num <= NumFiles + first
    /\ r.waiting \/ r.confirmed => r.open
    /\ r.confirmed => r.waiting
    /\ r.waiting => r.num \in Files
    /\ r.waiting /\ ~r.confirmed => r.pos = 0
    /\ toW # << >> =>
         LET l == toW[Len(toW)] IN
         /\ r.confirmed => Midway(l, r.num, Cap(r.num, r.pos))
         /\ r.waiting /\ ~r.confirmed => l.type = "digest"
         /\ ~r.waiting => Boundary(l, r.num)

-----------------------------------------------------------------------------
(* The question that is open: the digest of the reader's file, the answer  *)
(* to it, or the dialog.                                                   *)

Pending == r.on /\ r.waiting /\ ~r.confirmed

\* A digest under way is that of the reader's file, and the last message.
DigestOpen ==
  \A i \in 1 .. Len(toW) : toW[i].type = "digest" =>
    /\ r.on => Pending /\ toW[i].file = r.num /\ i = Len(toW)
    /\ ~upload /\ w.on => r.on

\* So is an answer, or a digest that comes back.
AnswerOpen ==
  \A i \in 1 .. Len(toR) : toR[i].type \in {"ask", "confirm"} /\ r.on =>
    /\ Pending /\ toR[i].file = r.num /\ toW = << >> /\ asked = {}
    /\ \A j \in 1 .. Len(toR) : toR[j].type \in {"ask", "confirm"} => j = i

DialogOpen ==
  asked # {} => Pending /\ asked = {r.num} /\ toW = << >> /\ (~upload => w.on)

\* Which messages go in which direction of a transfer
Directions ==
  \A i \in 1 .. Len(toR) :
    /\ toR[i].type \in {"ask", "done", "error"} => upload
    /\ toR[i].type = "confirm" /\ upload => toR[i].ans = From(0)
    /\ toR[i].type = "cancel" => ~w.on

Question == DigestOpen /\ AnswerOpen /\ DialogOpen /\ Directions

-----------------------------------------------------------------------------
(* How a job begins                                                        *)

SendFirst ==
  \A i \in 1 .. Len(toR) : toR[i].type = "send" =>
    /\ ~upload /\ i = 1 /\ toR[i].file = first
    /\ ~r.on /\ toW = << >>
    /\ w.on => w.num = first /\ w.stream = NoStream
    /\ \A j \in 2 .. Len(toR) : toR[j].type = "cancel"

ReceiveFirst ==
  \A i \in 1 .. Len(toW) : toW[i].type = "receive" =>
    /\ upload /\ i = 1 /\ toW[i].file = first
    /\ ~w.on /\ toR = << >>
    /\ r.on => r.num = first /\ ~r.confirmed
    /\ InW({"done"}) => InW({"error"}) \/ first >= NumFiles

\* A restored job waits for ResumeJob.
BeforeResume ==
  Ctl.on /\ Ctl.last =>
    /\ toW = << >> /\ toR = << >> /\ ~Peer.on /\ Ctl.num = first
    /\ IF upload THEN ~r.open /\ ~r.waiting /\ ~r.confirmed ELSE w.stream = NoStream

\* The writing end of an upload is made with its list of files, that of a download has
\* it before anything else.
BeforeDir ==
  w.on /\ ~w.files =>
    ~upload /\ IF toW = << >> THEN ~r.on ELSE toW[1].type \in {"dir", "error"}

Beginning == SendFirst /\ ReceiveFirst /\ BeforeResume /\ BeforeDir

-----------------------------------------------------------------------------
(* The writing end and the disk, and the first message                     *)

\* A handle that is not the current file's was left behind when that could not be opened.
Strays ==
  w.stream \notin {NoStream, w.num} => {w.stream, w.num} \subseteq spoiled

\* The files before n are written.  Only a file that could not be opened, or that the
\* writer was not told to skip, can still be its current one without a handle.
Between(n) ==
  IF w.stream # NoStream
  THEN w.num < n /\ (w.num \in spoiled \/ disk[w.num].part = Source(w.num))
  ELSE w.num = n \/ w.num \in untold \union (spoiled \intersect consent)

\* k blocks of f are written.
At(f, k) ==
  IF w.stream # NoStream /\ w.num = f
  THEN f \in spoiled \/ disk[f].part = Prefix(k)
  ELSE Between(f) /\ (f \in spoiled \/ k = 0)

\* The offset of an answer is that of the `.download` there.
Fits(f, off) == off > 0 => Resumable(f, TRUE) = off

\* What the writer must have done before message m
Before1(m) ==
  /\ m.type = "block" => At(m.file, Before(m))
  /\ m.type = "confirm" => Between(m.file) /\ Fits(m.file, m.ans.off)
  /\ m.type = "digest" => Between(m.file)
  /\ m.type = "done" => \E n \in NumFiles .. NumFiles + first : Between(n)
  /\ m.type = "dir" => Between(first)

\* and before what the reader does next, if no message is under way
Before0 ==
  /\ r.confirmed => At(r.num, Cap(r.num, r.pos))
  /\ ~r.confirmed /\ (upload \/ ~InR({"confirm"})) => Between(r.num)
  /\ \A i \in 1 .. Len(toR) :
       /\ toR[i].type = "confirm" /\ ~upload =>
            IF toR[i].ans.skip THEN Between(r.num + 1)
            ELSE At(r.num, Cap(r.num, toR[i].ans.off))
       /\ toR[i].type = "ask" => Fits(r.num, toR[i].off)

WriterAt ==
  /\ Strays
  /\ w.on => IF toW # << >> THEN Before1(toW[1]) ELSE r.on => Before0

-----------------------------------------------------------------------------
(* What is on the disk, and what has been agreed to                        *)

Parts ==
  /\ PartsArePrefixes
  /\ w.on \/ InW({"receive"}) \/ (upload /\ r.on /\ r.last) =>
       \A f \in Files : disk[f].part # NoFile => f \in stale \union spoiled \/ w.stream = f

Agreed ==
  /\ w.stream # NoStream => w.on /\ {w.num, w.stream} \subseteq consent
  /\ r.on /\ r.confirmed => r.num \in consent
  /\ \A i \in 1 .. Len(toW) : toW[i].type = "block" => toW[i].file \in consent
  /\ \A i \in 1 .. Len(toW) : toW[i].type = "confirm" =>
       toW[i].file \in IF toW[i].ans.skip THEN kept ELSE consent
  /\ \A i \in 1 .. Len(toR) : toR[i].type = "confirm" =>
       toR[i].file \in IF toR[i].ans.skip THEN kept ELSE consent
  /\ untold \subseteq kept

-----------------------------------------------------------------------------
(* What has been delivered                                                 *)

Settled(f) == f \in kept \union spoiled \/ Whole(f)

\* The reader has left file f behind.
Passed(f) == IF r.on THEN f < r.num ELSE InW({"done"})

Delivered ==
  /\ w.on /\ ~InW({"error"}) =>
       \A f \in first .. NumFiles - 1 : Passed(f) =>
         \/ Settled(f)
         \/ \E i \in 1 .. Len(toW) : toW[i].type = "block" /\ toW[i].file = f
         \/ w.stream = f
  /\ "done" \in events \/ InR({"done"}) => ~r.on /\ ~w.on /\ toW = << >> /\ ~InR({"send"})
  /\ InR({"done"}) => \A f \in first .. NumFiles - 1 : Settled(f)
  /\ ~upload /\ ~w.on /\ (r.on \/ InR({"send"}) \/ InW({"done"})) =>
       events \intersect {"error", "cancel"} # {}
  /\ DoneDelivers

SafetyInv ==
  /\ QueueW /\ ReaderAt /\ Question /\ Beginning /\ WriterAt /\ Parts /\ Agreed /\ Delivered

-----------------------------------------------------------------------------
(* Sequences and the fields of messages and jobs                           *)

LEMMA AppendFacts ==
  \A S, s, m : s \in Seq(S) /\ m \in S =>
    /\ Append(s, m) \in Seq(S) /\ Append(s, m) # << >> /\ Len(Append(s, m)) = Len(s) + 1
    /\ \A i \in 1 .. Len(s) : Append(s, m)[i] = s[i]
    /\ Append(s, m)[Len(s) + 1] = m
OBVIOUS

LEMMA TailFacts ==
  \A S, s : s \in Seq(S) /\ s # << >> =>
    /\ Tail(s) \in Seq(S) /\ Len(Tail(s)) = Len(s) - 1 /\ Len(s) \in Nat \ {0}
    /\ \A i \in 1 .. Len(s) - 1 : Tail(s)[i] = s[i + 1]
    /\ Head(s) = s[1] /\ s[1] \in S
OBVIOUS

LEMMA EmptyFacts ==
  /\ Len(<< >>) = 0
  /\ \A S, s : s \in Seq(S) => Len(s) \in Nat /\ (s = << >> <=> Len(s) = 0)
                              /\ \A i \in 1 .. Len(s) : s[i] \in S
OBVIOUS

LEMMA WriterFields ==
  \A m \in ToWriter :
    /\ m.type \in {"receive", "dir", "cancel", "error", "done", "digest", "block", "confirm"}
    /\ m.file \in Nat
    /\ m.type \in {"digest", "block", "confirm"} => m.file \in Files
    /\ m.type = "block" => m.data \in Seq(Nat)
    /\ m.type = "confirm" => m.ans \in Answers /\ m.ans.off \in Nat
<1> SUFFICES ASSUME NEW m \in ToWriter
             PROVE  /\ m.type \in {"receive", "dir", "cancel", "error", "done", "digest",
                                   "block", "confirm"}
                    /\ m.file \in Nat
                    /\ m.type \in {"digest", "block", "confirm"} => m.file \in Files
                    /\ m.type = "block" => m.data \in Seq(Nat)
                    /\ m.type = "confirm" => m.ans \in Answers /\ m.ans.off \in Nat
  OBVIOUS
<1>1. \A f \in Files : f \in Nat
  BY NumFilesAssumption DEF Files
<1>2. CASE m \in [type : {"receive", "dir", "cancel", "error", "done"}, file : Nat]
  BY <1>2
<1>3. CASE m \in [type : {"digest"}, file : Files, resume : BOOLEAN]
  BY <1>1, <1>3
<1>4. CASE m \in [type : {"block"}, file : Files, data : Seq(Nat)]
  BY <1>1, <1>4
<1>5. CASE m \in [type : {"confirm"}, file : Files, ans : Answers]
  BY <1>1, <1>5, AnswerOffsets
<1> QED
  BY <1>2, <1>3, <1>4, <1>5, Zenon DEF ToWriter, Confirms

LEMMA ReaderFields ==
  \A m \in ToReader :
    /\ m.type \in {"send", "cancel", "error", "done", "ask", "confirm"}
    /\ m.file \in Nat
    /\ m.type \in {"ask", "confirm"} => m.file \in Files
    /\ m.type = "ask" => m.off \in Nat
    /\ m.type = "confirm" => m.ans \in Answers /\ m.ans.off \in Nat
<1> SUFFICES ASSUME NEW m \in ToReader
             PROVE  /\ m.type \in {"send", "cancel", "error", "done", "ask", "confirm"}
                    /\ m.file \in Nat
                    /\ m.type \in {"ask", "confirm"} => m.file \in Files
                    /\ m.type = "ask" => m.off \in Nat
                    /\ m.type = "confirm" => m.ans \in Answers /\ m.ans.off \in Nat
  OBVIOUS
<1>1. \A f \in Files : f \in Nat
  BY NumFilesAssumption DEF Files
<1>2. CASE m \in [type : {"send", "cancel", "error", "done"}, file : Nat]
  BY <1>2
<1>3. CASE m \in [type : {"ask"}, file : Files, off : Nat]
  BY <1>1, <1>3
<1>4. CASE m \in [type : {"confirm"}, file : Files, ans : Answers]
  BY <1>1, <1>4, AnswerOffsets
<1> QED
  BY <1>2, <1>3, <1>4, Zenon DEF ToReader, Confirms

LEMMA Numbers ==
  /\ \A f \in Files : f \in Nat /\ f < NumFiles /\ f + 1 \in Nat /\ Size[f] \in Nat
  /\ \A n \in Nat : n < NumFiles => n \in Files
  /\ NumFiles \in Nat /\ NumFiles > 0
BY NumFilesAssumption, SizeAssumption DEF Files

LEMMA StreamFacts ==
  /\ \A f \in Files : f # NoStream
  /\ \A n \in Nat : n # NoStream /\ n .. NumFiles - 1 \subseteq Files
BY NumFilesAssumption DEF Files, NoStream

LEMMA Types ==
  ASSUME IInv
  PROVE  /\ r \in Reader /\ r.num \in Nat /\ r.pos \in Nat
         /\ w \in Writer /\ w.num \in Nat /\ first \in Nat
         /\ toW \in Seq(ToWriter) /\ toR \in Seq(ToReader)
         /\ Len(toW) \in Nat /\ Len(toR) \in Nat
         /\ \A i \in 1 .. Len(toW) : toW[i] \in ToWriter
         /\ \A i \in 1 .. Len(toR) : toR[i] \in ToReader
         /\ disk \in Disk
BY DEF IInv, TypeOK, Reader, Writer, Disk

LEMMA TypesAfter ==
  ASSUME IInv'
  PROVE  /\ r' \in Reader /\ r'.num \in Nat /\ r'.pos \in Nat
         /\ w' \in Writer /\ w'.num \in Nat /\ first' \in Nat
         /\ toW' \in Seq(ToWriter) /\ toR' \in Seq(ToReader)
         /\ Len(toW') \in Nat /\ Len(toR') \in Nat
         /\ \A i \in 1 .. Len(toW') : toW'[i] \in ToWriter
         /\ \A i \in 1 .. Len(toR') : toR'[i] \in ToReader
         /\ disk' \in Disk
BY DEF IInv, TypeOK, Reader, Writer, Disk

LEMMA NextFileFields ==
  ASSUME r \in Reader
  PROVE  /\ NextFile(r).num = r.num + 1 /\ NextFile(r).on = r.on /\ NextFile(r).last = r.last
         /\ NextFile(r).pos = r.pos
         /\ ~NextFile(r).open /\ ~NextFile(r).confirmed /\ ~NextFile(r).waiting
BY DEF NextFile, Reader

LEMMA ReaderConfirmFields ==
  ASSUME r \in Reader
  PROVE  \A ans \in Answers : LET j == ReaderConfirm(r, r.num, ans) IN
           /\ j.on = r.on /\ j.last = r.last
           /\ ans.skip => j.num = r.num + 1 /\ ~j.confirmed /\ ~j.waiting
           /\ ~ans.skip => /\ j.num = r.num /\ j.confirmed
                           /\ (r.waiting => j.waiting) /\ (r.open => j.open)
                           /\ j.pos = IF ans.off > 0 THEN ans.off ELSE r.pos
<1> SUFFICES ASSUME NEW ans \in Answers
             PROVE  LET j == ReaderConfirm(r, r.num, ans) IN
           /\ j.on = r.on /\ j.last = r.last
           /\ ans.skip => j.num = r.num + 1 /\ ~j.confirmed /\ ~j.waiting
           /\ ~ans.skip => /\ j.num = r.num /\ j.confirmed
                           /\ (r.waiting => j.waiting) /\ (r.open => j.open)
                           /\ j.pos = IF ans.off > 0 THEN ans.off ELSE r.pos
  OBVIOUS
<1> DEFINE opens == r.open \/ ans.off > 0
           at == IF ans.off > 0 THEN ans.off ELSE r.pos
<1>1. CASE ans.skip
  <2>1. ReaderConfirm(r, r.num, ans) =
          [r EXCEPT !.num = @ + 1, !.open = FALSE, !.confirmed = FALSE, !.waiting = FALSE,
             !.skipped = TRUE]
    BY <1>1, Zenon DEF ReaderConfirm
  <2> QED
    BY <1>1, <2>1 DEF Reader
<1>2. CASE ~ans.skip
  <2>1. ReaderConfirm(r, r.num, ans) =
          [r EXCEPT !.confirmed = TRUE, !.skipped = FALSE, !.open = opens, !.pos = at]
    BY <1>2, Zenon DEF ReaderConfirm
  <2>2. at \in Nat /\ opens \in BOOLEAN /\ (r.open => opens)
    <3>1. ans.off \in Nat
      BY AnswerOffsets
    <3> QED
      BY <3>1 DEF Reader
  <2> HIDE DEF opens
  <2> QED
    BY <1>2, <2>1, <2>2 DEF Reader
<1> QED
  BY <1>1, <1>2

LEMMA WriterConfirmFields ==
  ASSUME w \in Writer
  PROVE  \A f \in Files : \A ans : LET j == Confirm(w, f, ans) IN
           /\ j.on = w.on /\ j.last = w.last /\ j.files = w.files
           /\ w.num # f => j = w
           /\ w.num = f /\ ans.skip => j.num = w.num + 1 /\ j.stream = NoStream
           /\ w.num = f /\ ~ans.skip =>
                /\ j.num = w.num
                /\ j.stream = IF ans.off > 0 /\ Resumable(f, TRUE) > 0 THEN f ELSE w.stream
BY DEF Confirm, Writer

-----------------------------------------------------------------------------
(* The queues                                                              *)

\* What a message says stays true in a job: files only join those that are spoiled.
LEMMA SameSaying ==
  ASSUME first' = first, spoiled \subseteq spoiled'
  PROVE  /\ \A x : WellFormed(x)' <=> WellFormed(x)
         /\ \A x, n : Boundary(x, n)' <=> Boundary(x, n)
         /\ \A x, f, k : Midway(x, f, k) => Midway(x, f, k)'
         /\ \A x, y : Linked(x, y) => Linked(x, y)'
<1>1. \A x : WellFormed(x)' <=> WellFormed(x)
  BY DEF WellFormed
<1>2. \A x, n : Boundary(x, n)' <=> Boundary(x, n)
  BY DEF Boundary
<1>3. \A x, f, k : Midway(x, f, k) => Midway(x, f, k)'
  BY DEF Midway, Cap
<1>4. \A x, y : Linked(x, y) => Linked(x, y)'
  <2> SUFFICES ASSUME NEW x, NEW y, Linked(x, y)
               PROVE  Linked(x, y)'
    OBVIOUS
  <2>1. (\E n \in NumFiles .. NumFiles + first : Boundary(x, n))
          => (\E n \in NumFiles .. NumFiles + first : Boundary(x, n))'
    BY <1>2
  <2>2. Before(y)' = Before(y)
    BY DEF Before
  <2> QED
    BY <1>2, <1>3, <2>1, <2>2 DEF Linked
<1> QED
  BY <1>1, <1>2, <1>3, <1>4

\* A message at the end
Pushed(s, t, m) ==
  /\ Len(t) = Len(s) + 1 /\ Len(s) \in Nat
  /\ \A i \in 1 .. Len(s) : t[i] = s[i]
  /\ t[Len(s) + 1] = m
  /\ s = << >> => t = << m >>

LEMMA QueuePushed ==
  ASSUME QueueW, first' = first, spoiled \subseteq spoiled', ~InW({"done"})
  PROVE  \A m \in ToWriter :
           /\ Pushed(toW, toW', m)
           /\ WellFormed(m) /\ (toW # << >> => Linked(toW[Len(toW)], m))
           /\ m.type = "done" => ~r'.on
           => QueueW'
<1> SUFFICES ASSUME NEW m \in ToWriter, Pushed(toW, toW', m), WellFormed(m),
                    toW # << >> => Linked(toW[Len(toW)], m), m.type = "done" => ~r'.on
             PROVE  QueueW'
  OBVIOUS
<1>1. \A x : WellFormed(x)' <=> WellFormed(x)
  BY SameSaying
<1>2. \A x, y : Linked(x, y) => Linked(x, y)'
  BY SameSaying
<1>3. \A i \in 1 .. Len(toW') : WellFormed(toW'[i])
  BY DEF QueueW, Pushed
<1>4. \A i \in 2 .. Len(toW') : Linked(toW'[i - 1], toW'[i])
  <2> SUFFICES ASSUME NEW i \in 2 .. Len(toW')
               PROVE  Linked(toW'[i - 1], toW'[i])
    OBVIOUS
  <2>1. CASE i = Len(toW) + 1
    <3>1. toW # << >> /\ toW'[i - 1] = toW[Len(toW)] /\ toW'[i] = m
      BY <2>1, EmptyFacts DEF Pushed
    <3> QED
      BY <3>1
  <2>2. CASE i # Len(toW) + 1
    <3>1. i \in 2 .. Len(toW) /\ toW'[i] = toW[i] /\ toW'[i - 1] = toW[i - 1]
      BY <2>2 DEF Pushed
    <3> QED
      BY <3>1 DEF QueueW
  <2> QED
    BY <2>1, <2>2
<1>5. \A i \in 1 .. Len(toW) : toW[i].type # "done"
  BY DEF InW
<1>6. \A i \in 1 .. Len(toW') : toW'[i].type = "done" => i = Len(toW') /\ ~r'.on
  BY <1>5 DEF Pushed
<1> QED
  BY <1>1, <1>2, <1>3, <1>4, <1>6 DEF QueueW

\* Taking the first message away
Popped(s, t) ==
  /\ Len(t) = Len(s) - 1 /\ Len(s) \in Nat \ {0}
  /\ \A i \in 1 .. Len(t) : i + 1 \in 1 .. Len(s) /\ t[i] = s[i + 1]

LEMMA TailPopped ==
  \A S, s : s \in Seq(S) /\ s # << >> => Popped(s, Tail(s)) /\ Head(s) = s[1]
BY TailFacts DEF Popped

LEMMA QueuePopped ==
  ASSUME QueueW, first' = first, spoiled \subseteq spoiled', Popped(toW, toW'), r'.on => r.on
  PROVE  QueueW'
<1>1. \A x : WellFormed(x)' <=> WellFormed(x)
  BY SameSaying
<1>2. \A x, y : Linked(x, y) => Linked(x, y)'
  BY SameSaying
<1>3. \A i \in 1 .. Len(toW') : WellFormed(toW'[i])
  BY DEF QueueW, Popped
<1>4. \A i \in 2 .. Len(toW') : Linked(toW'[i - 1], toW'[i])
  <2> SUFFICES ASSUME NEW i \in 2 .. Len(toW')
               PROVE  Linked(toW'[i - 1], toW'[i])
    OBVIOUS
  <2>1. i + 1 \in 2 .. Len(toW) /\ toW'[i] = toW[i + 1] /\ toW'[i - 1] = toW[(i + 1) - 1]
    BY DEF Popped
  <2> QED
    BY <2>1 DEF QueueW
<1>5. \A i \in 1 .. Len(toW') : toW'[i].type = "done" => i = Len(toW') /\ ~r'.on
  BY DEF QueueW, Popped
<1> QED
  BY <1>1, <1>2, <1>3, <1>4, <1>5 DEF QueueW

LEMMA QueueSame ==
  ASSUME QueueW, first' = first, spoiled \subseteq spoiled', toW' = toW, r'.on => r.on
  PROVE  QueueW'
<1>1. \A x : WellFormed(x)' <=> WellFormed(x)
  BY SameSaying
<1>2. \A x, y : Linked(x, y) => Linked(x, y)'
  BY SameSaying
<1> QED
  BY <1>1, <1>2 DEF QueueW

LEMMA QueueEmpty == toW' = << >> => QueueW'
BY EmptyFacts DEF QueueW

LEMMA QueueOne ==
  \A m \in ToWriter :
    toW' = << m >> /\ WellFormed(m) /\ (m.type = "done" => ~r'.on) => QueueW'
<1> SUFFICES ASSUME NEW m \in ToWriter, toW' = << m >>, WellFormed(m), m.type = "done" => ~r'.on
             PROVE  QueueW'
  OBVIOUS
<1>1. Len(toW') = 1 /\ toW'[1] = m
  OBVIOUS
<1>2. \A x : WellFormed(x)' <=> WellFormed(x)
  BY DEF WellFormed
<1> QED
  BY <1>1, <1>2 DEF QueueW

\* What it is to receive and to send
LEMMA Received ==
  ASSUME IInv
  PROVE  /\ \A t : RecvW(t) => /\ toW # << >> /\ Popped(toW, toW') /\ Head(toW) = toW[1]
                             /\ toW[1].type = t /\ toW[1] \in ToWriter
         /\ \A t : RecvR(t) => /\ toR # << >> /\ Popped(toR, toR') /\ Head(toR) = toR[1]
                             /\ toR[1].type = t /\ toR[1] \in ToReader
<1>1. toW \in Seq(ToWriter) /\ toR \in Seq(ToReader)
  BY Types
<1>2. \A t : RecvW(t) => toW # << >> /\ toW' = Tail(toW) /\ Head(toW).type = t
  BY DEF RecvW
<1>3. \A t : RecvR(t) => toR # << >> /\ toR' = Tail(toR) /\ Head(toR).type = t
  BY DEF RecvR
<1>4. /\ toW # << >> => Popped(toW, Tail(toW)) /\ Head(toW) = toW[1] /\ toW[1] \in ToWriter
      /\ toR # << >> => Popped(toR, Tail(toR)) /\ Head(toR) = toR[1] /\ toR[1] \in ToReader
  BY <1>1, TailPopped, TailFacts
<1> QED
  BY <1>2, <1>3, <1>4

LEMMA AppendPushed ==
  \A S, s, m : s \in Seq(S) /\ m \in S => Pushed(s, Append(s, m), m)
<1> SUFFICES ASSUME NEW S, NEW s \in Seq(S), NEW m \in S
             PROVE  Pushed(s, Append(s, m), m)
  OBVIOUS
<1>1. /\ Len(Append(s, m)) = Len(s) + 1 /\ Len(s) \in Nat
      /\ \A i \in 1 .. Len(s) : Append(s, m)[i] = s[i]
      /\ Append(s, m)[Len(s) + 1] = m
  BY AppendFacts
<1>2. Append(<< >>, m) = << m >>
  OBVIOUS
<1> QED
  BY <1>1, <1>2 DEF Pushed

LEMMA Sent ==
  ASSUME IInv
  PROVE  /\ \A m \in ToWriter : SendW(m) => Pushed(toW, toW', m)
         /\ \A m \in ToReader : SendR(m) => Pushed(toR, toR', m)
<1>1. toW \in Seq(ToWriter) /\ toR \in Seq(ToReader)
  BY Types
<1> QED
  BY <1>1, AppendPushed DEF SendW, SendR

\* Requests go into empty queues.
LEMMA RequestSent ==
  ASSUME IInv, toW = << >>, toR = << >>
  PROVE  \A n \in Nat : Request(n) =>
           /\ upload => toW' = << Msg("receive", n) >> /\ toR' = << >>
           /\ ~upload => toW' = << >> /\ toR' = << Msg("send", n) >>
<1> SUFFICES ASSUME NEW n \in Nat, Request(n)
             PROVE  /\ upload => toW' = << Msg("receive", n) >> /\ toR' = << >>
                    /\ ~upload => toW' = << >> /\ toR' = << Msg("send", n) >>
  OBVIOUS
<1>1. \A m : Append(<< >>, m) = << m >>
  OBVIOUS
<1> QED
  BY <1>1 DEF Request, SendW, SendR

\* SendFiles and AddJob
LEMMA Starts ==
  ASSUME IInv, SendFiles \/ AddJob
  PROVE  /\ toW = << >> /\ toR = << >> /\ ~r.on /\ ~w.on
         /\ UNCHANGED <<upload, disk, spoiled>> /\ asked' = {} /\ events' = {}
         /\ consent' = {} /\ kept' = {} /\ untold' = {}
         /\ stale' = {f \in Files : disk[f].part # NoFile} /\ first' \in Nat
         /\ upload => /\ r'.on /\ r'.num = first' /\ ~r'.open /\ ~r'.waiting /\ ~r'.confirmed
                      /\ ~w'.on /\ w'.stream = NoStream
         /\ ~upload => /\ ~r'.on
                       /\ w'.on /\ w'.num = first' /\ w'.stream = NoStream /\ ~w'.files
         /\ \/ toW' = << >> /\ toR' = << >> /\ (upload => r'.last)
            \/ /\ upload /\ ~r'.last
               /\ toW' = << Msg("receive", first') >> /\ toR' = << >>
            \/ ~upload /\ ~w'.last /\ toW' = << >> /\ toR' = << Msg("send", first') >>
<1>1. ASSUME NEW n \in Nat, NEW b \in BOOLEAN, BeginJob(n, b)
      PROVE  /\ toW = << >> /\ toR = << >> /\ ~r.on /\ ~w.on
             /\ UNCHANGED <<upload, disk, spoiled>> /\ asked' = {} /\ events' = {}
             /\ consent' = {} /\ kept' = {} /\ untold' = {}
             /\ stale' = {f \in Files : disk[f].part # NoFile} /\ first' = n
             /\ upload => /\ r'.on /\ r'.num = n /\ ~r'.open /\ ~r'.waiting /\ ~r'.confirmed
                          /\ ~w'.on /\ w'.stream = NoStream /\ (r'.last <=> b)
             /\ ~upload => /\ ~r'.on
                           /\ w'.on /\ w'.num = n /\ w'.stream = NoStream /\ ~w'.files /\ (w'.last <=> b)
  <2>1. /\ toW = << >> /\ toR = << >> /\ ~r.on /\ ~w.on
        /\ UNCHANGED <<upload, disk, spoiled>> /\ asked' = {} /\ events' = {}
        /\ consent' = {} /\ kept' = {} /\ untold' = {}
        /\ stale' = {f \in Files : disk[f].part # NoFile} /\ first' = n
    BY <1>1 DEF BeginJob, Idle
  <2>2. CASE upload
    <3>1. r' = [NewReader(n) EXCEPT !.last = b] /\ w' = NoWriter
      BY <1>1, <2>2 DEF BeginJob
    <3> QED
      BY <2>1, <2>2, <3>1 DEF NewReader, NoReader, NoWriter
  <2>3. CASE ~upload
    <3>1. w' = [NewWriter(n) EXCEPT !.last = b] /\ r' = NoReader
      BY <1>1, <2>3 DEF BeginJob
    <3> QED
      BY <2>1, <2>3, <3>1 DEF NewWriter, NoReader, NoWriter
  <2> QED
    BY <2>2, <2>3
<1>2. CASE SendFiles
  <2>1. BeginJob(FirstFile, FALSE) /\ Request(FirstFile)
    BY <1>2 DEF SendFiles
  <2>2. FirstFile \in Nat
    BY FirstFileAssumption
  <2> QED
    BY <1>1, <2>1, <2>2, RequestSent
<1>3. CASE AddJob
  <2>1. saved >= 0 /\ BeginJob(saved, TRUE) /\ toW' = toW /\ toR' = toR
    BY <1>3, Zenon DEF AddJob, net
  <2>2. saved \in Nat \union {-1}
    BY DEF IInv, TypeOK
  <2>3. saved \in Nat
    BY <2>1, <2>2
  <2> QED
    BY <1>1, <2>1, <2>3
<1> QED
  BY <1>2, <1>3

LEMMA Resumes ==
  ASSUME IInv, Beginning, ResumeJob
  PROVE  /\ toW = << >> /\ toR = << >>
         /\ UNCHANGED <<upload, asked, disk, history, events>>
         /\ upload => /\ r.on /\ r.last /\ r'.on /\ r'.num = first /\ ~r'.open
                      /\ ~r'.waiting /\ ~r'.confirmed /\ ~r'.last
                      /\ ~w.on /\ w' = w
                      /\ toW' = << Msg("receive", first) >> /\ toR' = << >>
         /\ ~upload => /\ ~r.on /\ r' = r
                       /\ w.on /\ w'.on /\ w'.num = first /\ w.num = first
                       /\ w.stream = NoStream /\ w'.stream = NoStream
                       /\ ~w'.last /\ (w'.files <=> w.files)
                       /\ toW' = << >> /\ toR' = << Msg("send", first) >>
<1>1. Ctl.on /\ Ctl.last /\ Request(Ctl.num)
  BY DEF ResumeJob
<1>2. /\ toW = << >> /\ toR = << >> /\ ~Peer.on /\ Ctl.num = first
      /\ ~upload => w.stream = NoStream
      /\ upload => ~r.open /\ ~r.waiting /\ ~r.confirmed
  BY <1>1 DEF Beginning, SendFirst, ReceiveFirst, BeforeResume, BeforeDir
<1>3. /\ upload => toW' = << Msg("receive", first) >> /\ toR' = << >>
      /\ ~upload => toW' = << >> /\ toR' = << Msg("send", first) >>
  BY <1>1, <1>2, RequestSent, Types
<1>4. UNCHANGED <<upload, asked, disk, history, events>>
  BY DEF ResumeJob
<1>5. CASE upload
  BY <1>1, <1>2, <1>3, <1>4, <1>5, Types DEF ResumeJob, Ctl, Peer, Reader
<1>6. CASE ~upload
  BY <1>1, <1>2, <1>3, <1>4, <1>6, Types DEF ResumeJob, Ctl, Peer, Writer
<1> QED
  BY <1>5, <1>6

-----------------------------------------------------------------------------
(* What the disk holds does not change with the rest.                      *)

LEMMA BetweenKept ==
  ASSUME w'.stream = w.stream, w'.num = w.num,
         w.stream # NoStream => disk'[w.num].part = disk[w.num].part,
         spoiled \subseteq spoiled', untold \subseteq untold', consent \subseteq consent'
  PROVE  /\ \A n : Between(n) => Between(n)'
         /\ \A f, k : At(f, k) => At(f, k)'
<1>1. \A n : Between(n) => Between(n)'
  BY DEF Between
<1>2. \A f, k : At(f, k) => At(f, k)'
  BY <1>1 DEF At
<1> QED
  BY <1>1, <1>2

LEMMA FitsKept ==
  ASSUME disk' = disk
  PROVE  \A f, n : Fits(f, n) => Fits(f, n)'
BY DEF Fits, Resumable

LEMMA PrefixesKept ==
  ASSUME Parts, disk' = disk, spoiled \subseteq spoiled'
  PROVE  PartsArePrefixes'
BY DEF Parts, PartsArePrefixes, Source

LEMMA SettledKept ==
  ASSUME disk' = disk, spoiled \subseteq spoiled', kept \subseteq kept'
  PROVE  \A f : Settled(f) => Settled(f)'
BY DEF Settled, Whole, Source

\* The queues when a job begins or goes on
LEMMA OneRequest ==
  ASSUME \/ toW' = << >> /\ toR' = << >>
         \/ upload /\ toW' = << Msg("receive", first') >> /\ toR' = << >>
         \/ ~upload /\ toW' = << >> /\ toR' = << Msg("send", first') >>
  PROVE  /\ toW' = << >> \/ (upload /\ toR' = << >>)
         /\ toR' = << >> \/ (~upload /\ toW' = << >>)
         /\ Len(toW') \in Nat /\ Len(toW') <= 1 /\ (toW' = << >> <=> Len(toW') = 0)
         /\ Len(toR') \in Nat /\ Len(toR') <= 1 /\ (toR' = << >> <=> Len(toR') = 0)
         /\ \A i \in 1 .. Len(toW') :
              i = 1 /\ toW' # << >> /\ toW'[i].type = "receive" /\ toW'[i].file = first'
         /\ \A i \in 1 .. Len(toR') :
              i = 1 /\ toR' # << >> /\ toR'[i].type = "send" /\ toR'[i].file = first'
<1>1. \A m : Len(<< m >>) = 1 /\ << m >> # << >>
  OBVIOUS
<1>2. /\ toW' = << >> \/ (upload /\ toR' = << >>)
      /\ toR' = << >> \/ (~upload /\ toW' = << >>)
      /\ Len(toW') \in Nat /\ Len(toW') <= 1 /\ (toW' = << >> <=> Len(toW') = 0)
      /\ Len(toR') \in Nat /\ Len(toR') <= 1 /\ (toR' = << >> <=> Len(toR') = 0)
  <2>1. CASE toW' = << >> /\ toR' = << >>
    BY <2>1, EmptyFacts
  <2>2. CASE upload /\ toW' = << Msg("receive", first') >> /\ toR' = << >>
    BY <1>1, <2>2, EmptyFacts
  <2>3. CASE ~upload /\ toW' = << >> /\ toR' = << Msg("send", first') >>
    BY <1>1, <2>3, EmptyFacts
  <2> QED
    BY <2>1, <2>2, <2>3
<1>3. /\ toW' # << >> => toW'[1] = Msg("receive", first')
      /\ toR' # << >> => toR'[1] = Msg("send", first')
  OBVIOUS
<1>4. /\ toW' # << >> => toW'[1].type = "receive" /\ toW'[1].file = first'
      /\ toR' # << >> => toR'[1].type = "send" /\ toR'[1].file = first'
  BY <1>3 DEF Msg
<1>5. \A i \in 1 .. Len(toW') : i = 1 /\ toW' # << >>
  BY <1>2
<1>6. \A i \in 1 .. Len(toR') : i = 1 /\ toR' # << >>
  BY <1>2
<1> QED
  BY <1>2, <1>4, <1>5, <1>6

-----------------------------------------------------------------------------
(* The steps of the user                                                   *)

LEMMA StartStep == IInv /\ IInv' /\ SafetyInv /\ (SendFiles \/ AddJob) => SafetyInv'
<1> SUFFICES ASSUME IInv, IInv', SafetyInv, SendFiles \/ AddJob
             PROVE  SafetyInv'
  OBVIOUS
<1>1. /\ UNCHANGED <<upload, disk, spoiled>> /\ asked' = {} /\ events' = {}
      /\ consent' = {} /\ kept' = {} /\ untold' = {}
      /\ stale' = {f \in Files : disk[f].part # NoFile} /\ first' \in Nat
      /\ upload => /\ r'.on /\ r'.num = first' /\ ~r'.open /\ ~r'.waiting /\ ~r'.confirmed
                   /\ ~w'.on /\ w'.stream = NoStream
      /\ ~upload => /\ ~r'.on
                    /\ w'.on /\ w'.num = first' /\ w'.stream = NoStream /\ ~w'.files
  BY Starts
<1>2. \/ toW' = << >> /\ toR' = << >>
      \/ upload /\ ~r'.last /\ toW' = << Msg("receive", first') >> /\ toR' = << >>
      \/ ~upload /\ ~w'.last /\ toW' = << >> /\ toR' = << Msg("send", first') >>
  BY Starts
<1>3. toW' # << >> => ~r'.last
  BY <1>2
<1>4. toR' # << >> => ~w'.last
  BY <1>2
<1>5. /\ toW' = << >> \/ (upload /\ toR' = << >>)
      /\ toR' = << >> \/ (~upload /\ toW' = << >>)
      /\ Len(toW') \in Nat /\ Len(toW') <= 1 /\ (toW' = << >> <=> Len(toW') = 0)
      /\ Len(toR') \in Nat /\ Len(toR') <= 1 /\ (toR' = << >> <=> Len(toR') = 0)
      /\ \A i \in 1 .. Len(toW') :
           i = 1 /\ toW' # << >> /\ toW'[i].type = "receive" /\ toW'[i].file = first'
      /\ \A i \in 1 .. Len(toR') :
           i = 1 /\ toR' # << >> /\ toR'[i].type = "send" /\ toR'[i].file = first'
  BY <1>2, OneRequest
<1>6. QueueW'
  BY <1>5 DEF QueueW, WellFormed
<1>8. ReaderAt'
  BY <1>1, <1>5, Numbers, TypesAfter DEF ReaderAt, Boundary
<1>9. Question'
  BY <1>1, <1>5 DEF Question, DigestOpen, AnswerOpen, DialogOpen, Directions
<1>10. Beginning'
  BY <1>1, <1>3, <1>4, <1>5 DEF Beginning, SendFirst, ReceiveFirst, BeforeResume, BeforeDir, InW, Ctl, Peer
<1>11. WriterAt'
  BY <1>1, <1>5 DEF WriterAt, Strays
<1>12. Parts'
  BY <1>1, PrefixesKept DEF Parts, SafetyInv
<1>13. Agreed'
  BY <1>1, <1>5 DEF Agreed
<1>14. Delivered'
  BY <1>1, <1>5 DEF Delivered, DoneDelivers, Passed, InW, InR
<1> QED
  BY <1>6, <1>8, <1>9, <1>10, <1>11, <1>12, <1>13, <1>14 DEF SafetyInv

LEMMA ResumeStep == IInv /\ SafetyInv /\ ResumeJob => SafetyInv'
<1> SUFFICES ASSUME IInv, SafetyInv, ResumeJob
             PROVE  SafetyInv'
  OBVIOUS
<1>1. /\ toW = << >> /\ toR = << >>
      /\ UNCHANGED <<upload, asked, disk, history, events>>
      /\ upload => /\ r.on /\ r.last /\ r'.on /\ r'.num = first /\ ~r'.open
                   /\ ~r'.waiting /\ ~r'.confirmed /\ ~r'.last
                   /\ ~w.on /\ w' = w
                   /\ toW' = << Msg("receive", first) >> /\ toR' = << >>
      /\ ~upload => /\ ~r.on /\ r' = r
                    /\ w.on /\ w'.on /\ w'.num = first /\ w.num = first
                    /\ w.stream = NoStream /\ w'.stream = NoStream
                    /\ ~w'.last /\ (w'.files <=> w.files)
                    /\ toW' = << >> /\ toR' = << Msg("send", first) >>
  BY Resumes DEF SafetyInv
<1>2. first' = first /\ upload' = upload /\ asked' = asked /\ events' = events /\ disk' = disk
      /\ consent' = consent /\ kept' = kept /\ untold' = untold /\ stale' = stale
      /\ spoiled' = spoiled
  BY <1>1 DEF history
<1>3. asked = {}
  <2>1. ResumeJob => Ctl.on /\ Ctl.last
    BY DEF ResumeJob
  <2>2. r.on => upload /\ ~r.waiting
    BY <1>1, <2>1 DEF SafetyInv, Beginning, SendFirst, ReceiveFirst, BeforeResume, BeforeDir, Ctl, Peer
  <2> QED
    BY <2>2 DEF SafetyInv, Question, DigestOpen, AnswerOpen, DialogOpen, Directions, Pending
<1>4. "done" \notin events
  BY <1>1 DEF SafetyInv, Delivered
<1>5. /\ toW' = << >> \/ (upload /\ toR' = << >>)
      /\ toR' = << >> \/ (~upload /\ toW' = << >>)
      /\ Len(toW') \in Nat /\ Len(toW') <= 1 /\ (toW' = << >> <=> Len(toW') = 0)
      /\ Len(toR') \in Nat /\ Len(toR') <= 1 /\ (toR' = << >> <=> Len(toR') = 0)
      /\ \A i \in 1 .. Len(toW') :
           i = 1 /\ toW' # << >> /\ toW'[i].type = "receive" /\ toW'[i].file = first'
      /\ \A i \in 1 .. Len(toR') :
           i = 1 /\ toR' # << >> /\ toR'[i].type = "send" /\ toR'[i].file = first'
  BY <1>1, <1>2, OneRequest
<1>6. QueueW'
  BY <1>5 DEF QueueW, WellFormed
<1>8. ReaderAt'
  BY <1>1, <1>2, <1>5, Types, Numbers DEF ReaderAt, Boundary
<1>9. Question'
  BY <1>2, <1>3, <1>5 DEF Question, DigestOpen, AnswerOpen, DialogOpen, Directions
<1>10. Beginning'
  BY <1>1, <1>2, <1>5 DEF Beginning, SendFirst, ReceiveFirst, BeforeResume, BeforeDir, InW, Ctl, Peer
<1>11. WriterAt'
  BY <1>1, <1>2, <1>5 DEF SafetyInv, WriterAt, Strays
<1>12. Parts'
  BY <1>1, <1>2, PrefixesKept DEF Parts, SafetyInv, InW
<1>13. Agreed'
  BY <1>1, <1>2, <1>5 DEF Agreed, SafetyInv
<1>14. Delivered'
  BY <1>1, <1>2, <1>4, <1>5 DEF Delivered, DoneDelivers, Passed, InW, InR
<1> QED
  BY <1>6, <1>8, <1>9, <1>10, <1>11, <1>12, <1>13, <1>14 DEF SafetyInv

\* A queue after a message was put in or taken out
LEMMA AfterPush ==
  /\ \A s, t, m : Pushed(s, t, m) =>
       /\ Len(t) \in Nat \ {0} /\ Len(t) = Len(s) + 1 /\ t[Len(t)] = m
       /\ \A i \in 1 .. Len(t) :
            (i \in 1 .. Len(s) /\ t[i] = s[i]) \/ (i = Len(s) + 1 /\ i = Len(t) /\ t[i] = m)
  /\ \A m : Pushed(toW, toW', m) =>
       \A types : InW(types)' <=> InW(types) \/ m.type \in types
  /\ \A m : Pushed(toR, toR', m) =>
       \A types : InR(types)' <=> InR(types) \/ m.type \in types
<1>1. \A s, t, m : Pushed(s, t, m) =>
       /\ Len(t) \in Nat \ {0} /\ Len(t) = Len(s) + 1 /\ t[Len(t)] = m
       /\ \A i \in 1 .. Len(t) :
            (i \in 1 .. Len(s) /\ t[i] = s[i]) \/ (i = Len(s) + 1 /\ i = Len(t) /\ t[i] = m)
  BY DEF Pushed
<1>2. \A m : Pushed(toW, toW', m) =>
        \A types : InW(types)' <=> InW(types) \/ m.type \in types
  BY DEF Pushed, InW
<1>3. \A m : Pushed(toR, toR', m) =>
        \A types : InR(types)' <=> InR(types) \/ m.type \in types
  BY DEF Pushed, InR
<1> QED
  BY <1>1, <1>2, <1>3

LEMMA PushedFirst ==
  \A m : toW = << >> /\ Pushed(toW, toW', m) =>
    toW' = << m >> /\ toW' # << >> /\ Len(toW') = 1 /\ toW'[1] = m
<1> SUFFICES ASSUME NEW m, toW = << >>, Pushed(toW, toW', m)
             PROVE  toW' = << m >> /\ toW' # << >> /\ Len(toW') = 1 /\ toW'[1] = m
  OBVIOUS
<1>1. toW' = << m >>
  BY DEF Pushed
<1> QED
  BY <1>1

LEMMA AfterPop ==
  /\ Popped(toW, toW') => \A types : InW(types)' => InW(types)
  /\ Popped(toR, toR') => \A types : InR(types)' => InR(types)
BY DEF Popped, InW, InR

\* Where the first message goes
LEMMA WriterAtPushed ==
  ASSUME IInv, WriterAt, w' = w, first' = first, spoiled \subseteq spoiled',
         \A n : Between(n) => Between(n)', \A f, k : At(f, k) => At(f, k)',
         \A f, n : Fits(f, n) => Fits(f, n)'
  PROVE  \A m : Pushed(toW, toW', m) /\ (toW = << >> /\ w.on => Before1(m)') => WriterAt'
<1> SUFFICES ASSUME NEW m, Pushed(toW, toW', m), toW = << >> /\ w.on => Before1(m)'
             PROVE  WriterAt'
  OBVIOUS
<1>1. \A x : Before(x)' = Before(x)
  BY DEF Before
<1>2. \A x : Before1(x) => Before1(x)'
  <2> SUFFICES ASSUME NEW x, Before1(x)
               PROVE  Before1(x)'
    OBVIOUS
  <2>1. \A n \in NumFiles .. NumFiles + first : Between(n) => Between(n)'
    OBVIOUS
  <2> QED
    BY <1>1, <2>1 DEF Before1
<1>3. toW' # << >>
  BY AfterPush, EmptyFacts
<1>4. CASE toW = << >>
  <2>1. toW'[1] = m
    BY <1>4 DEF Pushed
  <2> QED
    BY <1>3, <1>4, <2>1 DEF WriterAt, Strays
<1>5. CASE toW # << >>
  <2>1. toW'[1] = toW[1]
    BY <1>5, EmptyFacts, Types DEF Pushed
  <2> QED
    BY <1>2, <1>3, <1>5, <2>1 DEF WriterAt, Strays
<1> QED
  BY <1>4, <1>5

LEMMA ReaderAtKept ==
  ASSUME IInv, IInv', ReaderAt, r' = r, first' = first, spoiled \subseteq spoiled',
         toW' = toW \/ Popped(toW, toW') \/ toW' = << >>
  PROVE  ReaderAt'
<1>1. /\ \A x, n : Boundary(x, n)' <=> Boundary(x, n)
      /\ \A x, f, k : Midway(x, f, k) => Midway(x, f, k)'
  BY SameSaying
<1>2. toW' # << >> => toW # << >> /\ toW'[Len(toW')] = toW[Len(toW)]
  <2>1. CASE toW' = toW
    BY <2>1
  <2>2. CASE Popped(toW, toW')
    <3>1. Len(toW') = 0 => toW' = << >>
      BY TypesAfter, EmptyFacts
    <3> QED
      BY <2>2 DEF Popped
  <2> QED
    BY <2>1, <2>2
<1> QED
  BY <1>1, <1>2 DEF ReaderAt, Cap

LEMMA RemovedFields ==
  ASSUME IInv
  PROVE  \A f \in Files : \A ok :
           /\ Removed(w, ok)[f].data = disk[f].data /\ Removed(w, ok)[f].src = disk[f].src
           /\ Removed(w, ok)[f].part \in {NoFile, disk[f].part}
<1> SUFFICES ASSUME NEW f \in Files, NEW ok
             PROVE  /\ Removed(w, ok)[f].data = disk[f].data
                    /\ Removed(w, ok)[f].src = disk[f].src
                    /\ Removed(w, ok)[f].part \in {NoFile, disk[f].part}
  OBVIOUS
<1>1. disk \in Disk /\ disk[f] \in FileOnDisk
  BY Types DEF Disk
<1>2. CASE HasFile(w) /\ f = w.num
  <2> DEFINE d == disk[f].dig /\ "digest" \notin ok
             p == IF "part" \in ok THEN NoFile ELSE disk[f].part
  <2>1. Removed(w, ok)[f] = [disk[f] EXCEPT !.part = p, !.dig = d]
    BY <1>1, <1>2 DEF Removed, Disk, FileOnDisk
  <2>2. p \in {NoFile, disk[f].part}
    OBVIOUS
  <2> HIDE DEF d, p
  <2> QED
    BY <1>1, <2>1, <2>2 DEF FileOnDisk
<1>3. CASE ~(HasFile(w) /\ f = w.num)
  <2>1. Removed(w, ok)[f] = disk[f]
    BY <1>1, <1>3 DEF Removed, Disk
  <2> QED
    BY <1>3, <2>1
<1> QED
  BY <1>2, <1>3

LEMMA RenamedFields ==
  ASSUME IInv
  PROVE  \A f \in Files : \A ok :
           Renamed(w, ok)[f] =
             IF HasFile(w) /\ f = w.num THEN ModifyTime(disk[f], ok) ELSE disk[f]
BY Types DEF Renamed, Disk

\* Nothing but the names of `.download` files goes when one is removed.
LEMMA PartsRemoved ==
  ASSUME IInv, Parts, RemoveDownload, spoiled' = spoiled
  PROVE  /\ PartsArePrefixes'
         /\ \A f \in Files : /\ disk'[f].part # NoFile => disk'[f].part = disk[f].part
                             /\ disk'[f].data = disk[f].data /\ disk'[f].src = disk[f].src
<1>0. PICK ok : disk' = Removed(w, ok)
  BY DEF RemoveDownload
<1>1. \A f \in Files : /\ disk'[f].part # NoFile => disk'[f].part = disk[f].part
                       /\ disk'[f].data = disk[f].data /\ disk'[f].src = disk[f].src
  BY <1>0, RemovedFields
<1> QED
  BY <1>1 DEF Parts, PartsArePrefixes, Source

LEMMA NoReaderFields ==
  /\ ~NoReader.on /\ ~NoReader.waiting /\ ~NoReader.confirmed /\ ~NoReader.open
  /\ ~NoWriter.on /\ NoWriter.stream = NoStream /\ NoWriter.num = 0
BY DEF NoReader, NoWriter

LEMMA MsgFields ==
  \A t, f : Msg(t, f).type = t /\ Msg(t, f).file = f
BY DEF Msg

LEMMA CancelStep == IInv /\ IInv' /\ SafetyInv /\ CancelJob => SafetyInv'
<1> SUFFICES ASSUME IInv, IInv', SafetyInv, CancelJob
             PROVE  SafetyInv'
  OBVIOUS
<1> DEFINE m == Msg("cancel", 0)
<1>1. m \in ToWriter /\ m \in ToReader /\ m.type = "cancel"
  BY DEF Msg, ToWriter, ToReader
<1> HIDE DEF m
<1>2. /\ first' = first /\ upload' = upload /\ asked' = {} /\ events' = events \union {"cancel"}
      /\ consent' = consent /\ kept' = kept /\ untold' = untold /\ stale' = stale
      /\ spoiled' = spoiled
  BY DEF CancelJob, history
<1>3. CASE upload
  <2>1. r.on /\ r' = NoReader /\ w' = w /\ disk' = disk /\ toR' = toR /\ Pushed(toW, toW', m)
    BY <1>1, <1>3, Sent DEF CancelJob, Ctl, m
  <2>2. /\ \A n : Between(n) => Between(n)'
        /\ \A f, k : At(f, k) => At(f, k)'
        /\ \A f, n : Fits(f, n) => Fits(f, n)'
    BY <1>2, <2>1, BetweenKept, FitsKept
  <2>3. ~InW({"done"}) /\ ~InR({"done"}) /\ "done" \notin events
    BY <2>1 DEF SafetyInv, QueueW, Delivered, InW
  <2>4. QueueW'
    BY <1>1, <1>2, <2>1, <2>3, QueuePushed DEF SafetyInv, WellFormed, Linked
  <2>6. ReaderAt'
    BY <2>1, NoReaderFields DEF ReaderAt
  <2>7. Question'
    BY <1>2, <1>3, <2>1, NoReaderFields DEF SafetyInv, Question, DigestOpen, AnswerOpen, DialogOpen, Directions
  <2>8. Beginning'
    <3>1. SendFirst'
      BY <1>2, <1>3, <2>1 DEF SafetyInv, Beginning, SendFirst
    <3>2. ReceiveFirst'
      <4> SUFFICES ASSUME NEW i \in 1 .. Len(toW'), toW'[i].type = "receive"
                   PROVE  /\ upload' /\ i = 1 /\ toW'[i].file = first'
                          /\ ~w'.on /\ toR' = << >> /\ ~r'.on /\ ~InW({"done"})'
        BY DEF ReceiveFirst
      <4>1. i \in 1 .. Len(toW) /\ toW'[i] = toW[i]
        BY <1>1, <2>1, AfterPush
      <4> QED
        BY <1>1, <1>2, <1>3, <2>1, <2>3, <4>1, NoReaderFields, AfterPush
           DEF SafetyInv, Beginning, ReceiveFirst
    <3>3. BeforeResume' /\ BeforeDir'
      BY <1>2, <1>3, <2>1, NoReaderFields DEF SafetyInv, Beginning, BeforeResume, BeforeDir, Ctl
    <3> QED
      BY <3>1, <3>2, <3>3 DEF Beginning
  <2>9. WriterAt'
    BY <1>1, <1>2, <2>1, <2>2, WriterAtPushed DEF SafetyInv, Before1
  <2>10. Parts'
    BY <1>1, <1>2, <2>1, PrefixesKept, AfterPush, NoReaderFields DEF SafetyInv, Parts
  <2>11. Agreed'
    BY <1>1, <1>2, <2>1, AfterPush, NoReaderFields DEF SafetyInv, Agreed
  <2>12. Delivered'
    BY <1>1, <1>2, <1>3, <2>1, <2>3, AfterPush, NoReaderFields
       DEF SafetyInv, Delivered, DoneDelivers, Passed, InR
  <2> QED
    BY <2>4, <2>6, <2>7, <2>8, <2>9, <2>10, <2>11, <2>12 DEF SafetyInv
<1>4. CASE ~upload
  <2>1. w.on /\ r' = r /\ w' = NoWriter /\ RemoveDownload /\ toW' = toW /\ Pushed(toR, toR', m)
    BY <1>1, <1>4, Sent DEF CancelJob, Ctl, m
  <2>3. ~InR({"done"}) /\ "done" \notin events
    BY <2>1 DEF SafetyInv, Delivered
  <2>4. QueueW'
    BY <1>2, <2>1, QueueSame DEF SafetyInv
  <2>6. ReaderAt'
    BY <1>2, <2>1, ReaderAtKept DEF SafetyInv
  <2>7. Question'
    <3>1. DigestOpen' /\ DialogOpen'
      BY <1>2, <2>1, NoReaderFields DEF SafetyInv, Question, DigestOpen, DialogOpen, Pending
    <3>2. AnswerOpen'
      <4>1. \A i \in 1 .. Len(toR') : toR'[i].type \in {"ask", "confirm"} =>
              i \in 1 .. Len(toR) /\ toR'[i] = toR[i]
        BY <1>1, <2>1, AfterPush
      <4> QED
        BY <1>2, <2>1, <4>1 DEF SafetyInv, Question, AnswerOpen, Pending
    <3>3. Directions'
      BY <1>1, <1>2, <1>4, <2>1, NoReaderFields, AfterPush DEF SafetyInv, Question, Directions
    <3> QED
      BY <3>1, <3>2, <3>3 DEF Question
  <2>8. Beginning'
    BY <1>1, <1>2, <1>4, <2>1, NoReaderFields, AfterPush DEF SafetyInv, Beginning, SendFirst, ReceiveFirst, BeforeResume, BeforeDir, Ctl
  <2>9. WriterAt'
    BY <2>1, NoReaderFields DEF WriterAt, Strays
  <2>10. Parts'
    BY <1>2, <1>4, <2>1, PartsRemoved, NoReaderFields DEF SafetyInv, Parts, Beginning, SendFirst, ReceiveFirst, BeforeResume, BeforeDir, InW
  <2>11. Agreed'
    BY <1>1, <1>2, <2>1, AfterPush, NoReaderFields DEF SafetyInv, Agreed
  <2>12. Delivered'
    BY <1>1, <1>2, <1>4, <2>1, <2>3, AfterPush, NoReaderFields
       DEF SafetyInv, Delivered, DoneDelivers
  <2> QED
    BY <2>4, <2>6, <2>7, <2>8, <2>9, <2>10, <2>11, <2>12 DEF SafetyInv
<1> QED
  BY <1>3, <1>4

-----------------------------------------------------------------------------
(* Prefixes of the source                                                  *)

LEMMA PrefixFacts ==
  \A n \in Nat : /\ Prefix(n) \in Seq(Nat) /\ Len(Prefix(n)) = n
                 /\ \A k \in 1 .. n : Prefix(n)[k] = k
<1> SUFFICES ASSUME NEW n \in Nat
             PROVE  /\ Prefix(n) \in Seq(Nat) /\ Len(Prefix(n)) = n
                    /\ \A k \in 1 .. n : Prefix(n)[k] = k
  OBVIOUS
<1>1. Prefix(n) \in [1 .. n -> Nat]
  BY DEF Prefix
<1> QED
  BY <1>1 DEF Prefix

LEMMA PrefixSub ==
  \A n, k \in Nat : k <= n => SubSeq(Prefix(n), 1, k) = Prefix(k)
<1> SUFFICES ASSUME NEW n \in Nat, NEW k \in Nat, k <= n
             PROVE  SubSeq(Prefix(n), 1, k) = Prefix(k)
  OBVIOUS
<1>1. Prefix(n) \in Seq(Nat) /\ Len(Prefix(n)) = n
  BY PrefixFacts
<1>2. SubSeq(Prefix(n), 1, k) = [i \in 1 .. k |-> Prefix(n)[i]]
  BY <1>1
<1> QED
  BY <1>2, PrefixFacts DEF Prefix

LEMMA PrefixAppend ==
  \A n \in Nat : Prefix(n) \o << n + 1 >> = Prefix(n + 1)
<1> SUFFICES ASSUME NEW n \in Nat
             PROVE  Prefix(n) \o << n + 1 >> = Prefix(n + 1)
  OBVIOUS
<1>1. /\ Prefix(n) \in Seq(Nat) /\ Len(Prefix(n)) = n
      /\ Prefix(n + 1) \in Seq(Nat) /\ Len(Prefix(n + 1)) = n + 1
      /\ << n + 1 >> \in Seq(Nat) /\ Len(<< n + 1 >>) = 1
  BY PrefixFacts
<1>2. /\ Prefix(n) \o << n + 1 >> \in Seq(Nat)
      /\ Len(Prefix(n) \o << n + 1 >>) = n + 1
  BY <1>1
<1>3. \A i \in 1 .. n + 1 : (Prefix(n) \o << n + 1 >>)[i] = Prefix(n + 1)[i]
  <2> SUFFICES ASSUME NEW i \in 1 .. n + 1
               PROVE  (Prefix(n) \o << n + 1 >>)[i] = Prefix(n + 1)[i]
    OBVIOUS
  <2>1. (Prefix(n) \o << n + 1 >>)[i] = IF i <= n THEN Prefix(n)[i] ELSE << n + 1 >>[i - n]
    BY <1>1, ConcatProperties
  <2>2. n + 1 \in Nat
    OBVIOUS
  <2>3. Prefix(n + 1)[i] = i /\ (i <= n => Prefix(n)[i] = i)
    BY <2>2, PrefixFacts
  <2>4. CASE i <= n
    BY <2>1, <2>3, <2>4
  <2>5. CASE ~(i <= n)
    <3>1. i - n = 1 /\ i = n + 1
      BY <2>5
    <3>2. << n + 1 >>[1] = n + 1
      OBVIOUS
    <3>3. (Prefix(n) \o << n + 1 >>)[i] = << n + 1 >>[1]
      BY <2>1, <2>5, <3>1, Zenon
    <3> QED
      BY <2>3, <3>1, <3>2, <3>3, Zenon
  <2> QED
    BY <2>4, <2>5
<1> QED
  BY <1>1, <1>2, <1>3, SeqEqual

LEMMA EmptyPrefix == Prefix(0) = << >> /\ \A s \in Seq(Nat) : << >> \o s = s /\ s \o << >> = s
BY DEF Prefix

LEMMA SourcePrefix == \A f : Source(f) = Prefix(Size[f])
BY DEF Source, Prefix

LEMMA PartIsPrefix ==
  ASSUME IInv, PartsArePrefixes
  PROVE  \A f \in Files \ spoiled : disk[f].part # NoFile =>
           /\ Len(disk[f].part) \in Nat /\ Len(disk[f].part) <= Size[f]
           /\ disk[f].part = Prefix(Len(disk[f].part))
<1> SUFFICES ASSUME NEW f \in Files \ spoiled, disk[f].part # NoFile
             PROVE  /\ Len(disk[f].part) \in Nat /\ Len(disk[f].part) <= Size[f]
                    /\ disk[f].part = Prefix(Len(disk[f].part))
  OBVIOUS
<1>1. disk[f] \in FileOnDisk
  BY Types DEF Disk
<1>2. disk[f].part \in Seq(Nat)
  BY <1>1 DEF FileOnDisk, Contents
<1>3. Len(disk[f].part) \in Nat
  BY <1>2
<1>4. Len(disk[f].part) <= Size[f] /\ disk[f].part = SubSeq(Source(f), 1, Len(disk[f].part))
  BY DEF PartsArePrefixes
<1> QED
  BY <1>3, <1>4, PrefixSub, SourcePrefix, Numbers

-----------------------------------------------------------------------------
(* An answer at the writing end                                            *)

LEMMA WriterConfirms ==
  ASSUME IInv, PartsArePrefixes, Strays, disk' = disk, untold' = untold,
         consent \subseteq consent'
  PROVE  \A f \in Files, ans \in Answers : \A got :
           /\ Seeks(w, f, ans, got) /\ w' = Confirm(w, f, got)
           /\ Spoil(OffsetLost(f, ans, got))
           /\ Between(f) /\ Fits(f, ans.off)
           => /\ ans.skip => Between(f + 1)'
              /\ ~ans.skip => At(f, Cap(f, ans.off))'
              /\ Strays'
              /\ w.stream # NoStream => w' = w
              /\ w'.stream # NoStream => w' = w \/ (w'.num = f /\ w'.stream = f /\ ~ans.skip)
              /\ (w'.on <=> w.on) /\ (w'.last <=> w.last) /\ (w'.files <=> w.files)
              /\ spoiled \subseteq spoiled' /\ spoiled' \subseteq spoiled \union {f}
<1> SUFFICES ASSUME NEW f \in Files, NEW ans \in Answers, NEW got,
                    Seeks(w, f, ans, got), w' = Confirm(w, f, got),
                    Spoil(OffsetLost(f, ans, got)),
                    Between(f), Fits(f, ans.off)
             PROVE  /\ ans.skip => Between(f + 1)'
                    /\ ~ans.skip => At(f, Cap(f, ans.off))'
                    /\ Strays'
                    /\ w.stream # NoStream => w' = w
                    /\ w'.stream # NoStream =>
                         w' = w \/ (w'.num = f /\ w'.stream = f /\ ~ans.skip)
                    /\ (w'.on <=> w.on) /\ (w'.last <=> w.last) /\ (w'.files <=> w.files)
                    /\ spoiled \subseteq spoiled' /\ spoiled' \subseteq spoiled \union {f}
  OBVIOUS
<1>1. /\ w \in Writer /\ w.num \in Nat /\ f \in Nat /\ f + 1 \in Nat /\ ans.off \in Nat
      /\ disk[f] \in FileOnDisk /\ Size[f] \in Nat /\ f # NoStream
  BY Types, Numbers, AnswerOffsets DEF Disk, NoStream
<1>2. \/ got = ans
      \/ w.num = f /\ ans.off > 0 /\ ~ans.skip /\ got.off = 0 /\ ~got.skip /\ got # ans
  <2>1. ans.off > 0 => ~ans.skip
    BY AnswerOffsets
  <2>2. From(0).off = 0 /\ ~From(0).skip
    BY DEF From
  <2> QED
    BY <2>1, <2>2 DEF Seeks
<1>3. /\ w'.on = w.on /\ w'.last = w.last /\ w'.files = w.files
      /\ w.num # f => w' = w
      /\ w.num = f /\ got.skip => w'.num = w.num + 1 /\ w'.stream = NoStream
      /\ w.num = f /\ ~got.skip =>
           /\ w'.num = w.num
           /\ w'.stream = IF got.off > 0 /\ Resumable(f, TRUE) > 0 THEN f ELSE w.stream
  BY <1>1, WriterConfirmFields
<1>4. w.stream # NoStream => w.num < f /\ w.num # f
  BY <1>1 DEF Between
<1>5. /\ spoiled \subseteq spoiled' /\ spoiled' \subseteq spoiled \union {f}
      /\ got # ans \/ (ans.off > 0 /\ w.num # f) => f \in spoiled'
  BY DEF Spoil, OffsetLost
<1>6. w.num # f => Between(f)'
  BY <1>3, <1>5, BetweenKept
<1>7. Strays'
  BY <1>1, <1>3, <1>4, <1>5 DEF Strays
<1>8. CASE ans.skip
  <2>1. got = ans
    BY <1>2, <1>8
  <2>2. Between(f + 1)'
    <3>1. CASE w.num = f
      BY <1>1, <1>3, <1>8, <2>1, <3>1 DEF Between
    <3>2. CASE w.num # f
      BY <1>1, <1>3, <1>4, <1>5, <3>2 DEF Between
    <3> QED
      BY <3>1, <3>2
  <2> QED
    BY <1>3, <1>4, <1>5, <1>7, <1>8, <2>1, <2>2
<1>9. CASE ~ans.skip
  <2>1. w.stream # NoStream => w' = w
    BY <1>3, <1>4
  <2>2. w'.stream # NoStream => w' = w \/ (w'.num = f /\ w'.stream = f)
    BY <1>2, <1>3, <1>4, <1>9
  <2>3. At(f, Cap(f, ans.off))'
    <3>1. (Cap(f, ans.off))' = Cap(f, ans.off) /\ (ans.off = 0 => Cap(f, ans.off) = 0)
      BY <1>1 DEF Cap
    <3>2. CASE w.num # f
      BY <1>1, <1>3, <1>5, <1>6, <3>1, <3>2 DEF At
    <3>3. CASE w.num = f /\ (ans.off = 0 \/ got # ans)
      <4>1. w'.stream = NoStream /\ w'.num = f
        <5>1. w.stream = NoStream /\ ~(got.off > 0)
          BY <1>2, <1>4, <3>3
        <5>2. ~got.skip
          BY <1>2, <1>9
        <5> QED
          BY <1>3, <3>3, <5>1, <5>2
      <4>2. Between(f)'
        BY <4>1 DEF Between
      <4> QED
        BY <1>5, <3>1, <3>3, <4>1, <4>2 DEF At
    <3>4. CASE w.num = f /\ ans.off > 0 /\ got = ans
      <4>1. Resumable(f, TRUE) = ans.off
        BY <3>4 DEF Fits
      <4>2. w'.stream = f /\ w'.num = f
        BY <1>3, <1>9, <3>4, <4>1
      <4>3. disk[f].part # NoFile /\ Len(disk[f].part) = ans.off
        BY <3>4, <4>1 DEF Resumable
      <4>4. f \in spoiled \/ (disk[f].part = Prefix(ans.off) /\ Cap(f, ans.off) = ans.off)
        BY <1>1, <4>3, PartIsPrefix DEF Cap
      <4> QED
        BY <1>1, <1>5, <3>1, <4>2, <4>4 DEF At, Prefix
    <3> QED
      BY <1>1, <3>2, <3>3, <3>4
  <2> QED
    BY <1>3, <1>5, <1>7, <1>9, <2>1, <2>2, <2>3
<1> QED
  BY <1>8, <1>9

-----------------------------------------------------------------------------
(* The user answers the dialog.                                            *)

LEMMA AnsFields ==
  \A f \in Files, ans \in Answers :
    /\ Ans(f, ans) \in ToReader /\ Ans(f, ans) \in ToWriter
    /\ Ans(f, ans).type = "confirm" /\ Ans(f, ans).file = f /\ Ans(f, ans).ans = ans
BY DEF Ans, ToReader, ToWriter, Confirms

LEMMA AnswerFields ==
  /\ Skip \in Answers /\ Skip.skip = TRUE /\ Skip.off = 0
  /\ \A n \in Nat : From(n) \in Answers /\ From(n).skip = FALSE /\ From(n).off = n
BY DEF Skip, From, Answers

\* In an upload: the reading end, which is this one, is confirmed.
LEMMA DialogUpload ==
  ASSUME IInv, IInv', SafetyInv, upload, asked' = {}, toW = << >>, Pending
  PROVE  \A ans \in {Skip, From(0)} :
           /\ UNCHANGED <<upload, toW, disk, first, stale, events, w, toR, spoiled>>
           /\ asked # {}
           /\ r' = ReaderConfirm(r, r.num, ans) /\ Decide(r.num, ans)
           /\ untold' = IF ans.skip THEN untold \union {r.num} ELSE untold
           => SafetyInv'
<1> SUFFICES ASSUME NEW ans \in {Skip, From(0)},
                    UNCHANGED <<upload, toW, disk, first, stale, events, w, toR, spoiled>>,
                    asked # {},
                    r' = ReaderConfirm(r, r.num, ans), Decide(r.num, ans),
                    untold' = IF ans.skip THEN untold \union {r.num} ELSE untold
             PROVE  SafetyInv'
  OBVIOUS
<1>1. ans \in Answers /\ ans.off = 0
  BY AnswerFields
<1>2. /\ r.on /\ r.waiting /\ ~r.confirmed /\ r.open /\ r.pos = 0 /\ r.num \in Files
      /\ r \in Reader /\ r.num \in Nat
  BY Types DEF SafetyInv, ReaderAt, Pending
<1>3. /\ r'.on /\ r'.last = r.last
      /\ ans.skip => r'.num = r.num + 1 /\ ~r'.confirmed /\ ~r'.waiting
      /\ ~ans.skip => r'.num = r.num /\ r'.confirmed /\ r'.waiting /\ r'.open /\ r'.pos = 0
  BY <1>1, <1>2, ReaderConfirmFields
<1>4. /\ consent \subseteq consent' /\ kept \subseteq kept' /\ untold \subseteq untold'
      /\ ans.skip => r.num \in kept' /\ r.num \in untold' /\ untold' = untold \union {r.num}
      /\ ~ans.skip => r.num \in consent' /\ untold' = untold
  BY DEF Decide
<1>5. \A i \in 1 .. Len(toR) : toR[i].type \notin {"ask", "confirm"}
  BY <1>2 DEF SafetyInv, Question, AnswerOpen
<1>6. Size[r.num] \in Nat /\ toW' = << >>
  BY <1>2, Numbers
<1>7. QueueW'
  BY <1>6, QueueEmpty
<1>9. ReaderAt'
  BY <1>2, <1>3, <1>6, Types, Numbers DEF SafetyInv, ReaderAt
<1>10. Question'
  <2>1. DigestOpen' /\ DialogOpen'
    BY <1>6, EmptyFacts DEF DigestOpen, DialogOpen
  <2>2. AnswerOpen' /\ Directions'
    BY <1>5 DEF SafetyInv, Question, AnswerOpen, Directions
  <2> QED
    BY <2>1, <2>2 DEF Question
<1>11. Beginning'
  <2>1. SendFirst' /\ ReceiveFirst' /\ BeforeDir'
    BY <1>6, EmptyFacts DEF SafetyInv, Beginning, SendFirst, ReceiveFirst, BeforeDir
  <2>2. BeforeResume'
    BY <1>2, <1>3 DEF SafetyInv, Beginning, BeforeResume, Ctl
  <2> QED
    BY <2>1, <2>2 DEF Beginning
<1>12. WriterAt'
  <2> SUFFICES ASSUME w.on
               PROVE  Before0'
    BY <1>6 DEF SafetyInv, WriterAt, Strays
  <2>1. PICK n : n = r.num
    OBVIOUS
  <2>2. Between(n) /\ n \in Nat
    BY <1>2, <2>1 DEF SafetyInv, WriterAt, Before0
  <2>3. w.stream # NoStream => w.num # n
    BY <2>2, Types DEF Between
  <2>4. Between(n)'
    BY <1>4, <2>2, BetweenKept
  <2>5. ~ans.skip => At(n, 0)'
    BY <2>3, <2>4 DEF At
  <2>6. ans.skip => Between(n + 1)'
    BY <1>4, <2>1, <2>2, Types DEF Between
  <2>7. (Cap(n, 0))' = 0
    BY <1>6, <2>1 DEF Cap
  <2>8. ~ans.skip => At(r.num, Cap(r.num, r.pos))'
    BY <1>3, <2>1, <2>5, <2>7
  <2> QED
    BY <1>3, <1>5, <2>1, <2>6, <2>8 DEF Before0, InR
<1>13. Parts'
  BY <1>2, <1>3, <1>6, PrefixesKept DEF SafetyInv, Parts, InW
<1>14. Agreed'
  BY <1>3, <1>4, <1>5, <1>6, EmptyFacts DEF SafetyInv, Agreed
<1>15. Delivered'
  <2>1. "done" \notin events /\ ~InR({"done"})
    BY <1>2 DEF SafetyInv, Delivered
  <2>2. ~InW({"error"}) /\ ~InW({"error"})' /\ ~InW({"done"})' /\ ~InR({"done"})'
    BY <1>6, <2>1, EmptyFacts DEF InW, InR
  <2>3. \A f : Settled(f) => Settled(f)'
    BY <1>4, SettledKept
  <2>4. ASSUME w.on, NEW f \in first .. NumFiles - 1, f < r'.num
        PROVE  Settled(f)' \/ (w.stream = f)
    <3>1. CASE f < r.num
      BY <1>2, <1>6, <2>2, <2>3, <2>4, <3>1, EmptyFacts DEF SafetyInv, Delivered, Passed
    <3>2. CASE ~(f < r.num)
      <4>1. ans.skip /\ f = r.num
        BY <1>2, <1>3, <2>4, <3>2, Types, Numbers
      <4> QED
        BY <1>4, <4>1 DEF Settled
    <3> QED
      BY <3>1, <3>2
  <2> QED
    BY <1>3, <2>1, <2>2, <2>4 DEF Delivered, DoneDelivers, Passed, InR
<1> QED
  BY <1>7, <1>9, <1>10, <1>11, <1>12, <1>13, <1>14, <1>15 DEF SafetyInv

\* In a download: the writing end confirms its own job and tells the reading end.
LEMMA AnswerDownload ==
  ASSUME IInv, IInv', SafetyInv, ~upload, w.on, Pending, toW' = << >>, asked' = {},
         UNCHANGED <<upload, r, disk, first, untold, stale, events>>,
         \A i \in 1 .. Len(toW) : toW[i].type = "digest",
         \A i \in 1 .. Len(toR) : toR[i].type \notin {"ask", "confirm"}
  PROVE  \A ans \in Answers :
           Answer(r.num, ans) /\ Between(r.num) /\ Fits(r.num, ans.off) => SafetyInv'
<1> SUFFICES ASSUME NEW ans \in Answers, Answer(r.num, ans), Between(r.num),
                    Fits(r.num, ans.off)
             PROVE  SafetyInv'
  OBVIOUS
<1>1. /\ r.on /\ r.waiting /\ ~r.confirmed /\ r.num \in Files /\ r.num \in Nat
  BY Types DEF SafetyInv, ReaderAt, Pending
<1>2. PICK n : n = r.num
  OBVIOUS
<1> DEFINE m == Ans(n, ans)
<1>3. /\ m \in ToReader /\ m.type = "confirm" /\ m.file = n /\ m.ans = ans
  BY <1>1, <1>2, AnsFields
<1>4. PICK got : /\ Seeks(w, n, ans, got) /\ w' = Confirm(w, n, got)
                 /\ Spoil(OffsetLost(n, ans, got)) /\ SendR(m) /\ Decide(n, ans)
  BY <1>2 DEF Answer
<1> HIDE DEF m
<1>5. Pushed(toR, toR', m)
  BY <1>3, <1>4, Sent
<1>7. /\ consent \subseteq consent' /\ kept \subseteq kept'
      /\ ans.skip => n \in kept'
      /\ ~ans.skip => n \in consent'
  BY <1>4 DEF Decide
<1>6. /\ ans.skip => Between(n + 1)'
      /\ ~ans.skip => At(n, Cap(n, ans.off))'
      /\ Strays'
      /\ w.stream # NoStream => w' = w
      /\ w'.stream # NoStream => w' = w \/ (w'.num = n /\ w'.stream = n /\ ~ans.skip)
      /\ (w'.on <=> w.on) /\ (w'.last <=> w.last) /\ (w'.files <=> w.files)
      /\ spoiled \subseteq spoiled' /\ spoiled' \subseteq spoiled \union {n}
  BY <1>1, <1>2, <1>4, <1>7, WriterConfirms DEF SafetyInv, Parts, WriterAt
<1>8. \A i \in 1 .. Len(toR') :
        (i \in 1 .. Len(toR) /\ toR'[i] = toR[i] /\ toR[i].type \notin {"ask", "confirm"})
          \/ (i = Len(toR) + 1 /\ toR'[i] = m)
  BY <1>5, AfterPush
<1>9. QueueW'
  BY QueueEmpty
<1>11. ReaderAt'
  BY <1>6, ReaderAtKept DEF SafetyInv
<1>12. Question'
  <2>1. DigestOpen' /\ DialogOpen'
    BY EmptyFacts DEF DigestOpen, DialogOpen
  <2>2. AnswerOpen'
    <3> SUFFICES ASSUME NEW i \in 1 .. Len(toR'), toR'[i].type \in {"ask", "confirm"}
                 PROVE  /\ toR'[i].file = r.num
                        /\ \A j \in 1 .. Len(toR') : toR'[j].type \in {"ask", "confirm"} => j = i
      BY <1>1 DEF AnswerOpen, Pending
    <3>1. i = Len(toR) + 1 /\ toR'[i] = m
      BY <1>8
    <3>2. \A j \in 1 .. Len(toR') : toR'[j].type \in {"ask", "confirm"} => j = Len(toR) + 1
      BY <1>8
    <3> QED
      BY <1>2, <1>3, <3>1, <3>2
  <2>3. Directions'
    BY <1>3, <1>6, <1>8 DEF SafetyInv, Question, Directions
  <2> QED
    BY <2>1, <2>2, <2>3 DEF Question
<1>13. Beginning'
  <2>1. SendFirst'
    BY <1>1, <1>3, <1>8 DEF SafetyInv, Beginning, SendFirst
  <2>2. ReceiveFirst'
    BY EmptyFacts DEF ReceiveFirst
  <2>3. BeforeResume'
    BY <1>1, <1>6 DEF SafetyInv, Beginning, BeforeResume, Ctl, Peer
  <2>4. w.files
    BY <1>1, EmptyFacts, Types DEF SafetyInv, Beginning, BeforeDir
  <2> QED
    BY <1>6, <2>1, <2>2, <2>3, <2>4 DEF Beginning, BeforeDir
<1>14. WriterAt'
  <2>1. InR({"confirm"})'
    BY <1>3, <1>5, AfterPush
  <2>2. Before0'
    <3>1. ~r'.confirmed /\ r'.num = n
      BY <1>1, <1>2
    <3>2. ASSUME NEW i \in 1 .. Len(toR'), toR'[i].type = "confirm"
          PROVE  toR'[i].ans = ans
      BY <1>3, <1>8, <3>2
    <3>3. \A i \in 1 .. Len(toR') : toR'[i].type # "ask"
      BY <1>3, <1>8
    <3>4. (~ans.skip => At(r.num, Cap(r.num, ans.off))') /\ (ans.skip => Between(r.num + 1)')
      BY <1>2, <1>6, <3>1
    <3> QED
      BY <1>6, <2>1, <3>1, <3>2, <3>3 DEF Before0
  <2> QED
    BY <1>6, <2>2 DEF WriterAt
<1>15. Parts'
  <2>1. \A f \in Files : disk[f].part # NoFile => f \in stale \union spoiled \/ w'.stream = f
    BY <1>6, StreamFacts DEF SafetyInv, Parts
  <2> QED
    BY <1>6, <2>1, PrefixesKept DEF SafetyInv, Parts
<1>16. Agreed'
  BY <1>1, <1>3, <1>6, <1>7, <1>8, EmptyFacts DEF SafetyInv, Agreed
<1>17. Delivered'
  <2>1. "done" \notin events /\ ~InR({"done"})
    BY <1>1 DEF SafetyInv, Delivered
  <2>2. ~InW({"error"}) /\ ~InW({"error"})' /\ ~InW({"done"})' /\ ~InR({"done"})'
    BY <1>3, <1>5, <2>1, EmptyFacts, AfterPush DEF InW
  <2>3. \A f : Settled(f) => Settled(f)'
    BY <1>6, <1>7, SettledKept
  <2>4. \A f \in first .. NumFiles - 1 : f < r.num => Settled(f)' \/ (w'.stream = f)
    BY <1>1, <1>6, <2>2, <2>3, EmptyFacts, StreamFacts, Types DEF SafetyInv, Delivered, Passed
  <2> QED
    BY <1>1, <1>6, <2>1, <2>2, <2>4 DEF Delivered, DoneDelivers, Passed
<1> QED
  BY <1>9, <1>11, <1>12, <1>13, <1>14, <1>15, <1>16, <1>17 DEF SafetyInv

LEMMA DialogStep == IInv /\ IInv' /\ SafetyInv /\ SetConfirmOverrideFile => SafetyInv'
<1> SUFFICES ASSUME IInv, IInv', SafetyInv, SetConfirmOverrideFile
             PROVE  SafetyInv'
  OBVIOUS
<1>1. PICK f \in asked, overwrite \in BOOLEAN, remember \in BOOLEAN :
        LET ans == IF overwrite THEN From(0) ELSE Skip IN
        /\ Ctl.on /\ asked' = asked \ {f}
        /\ strategy' = IF remember THEN (IF overwrite THEN "yes" ELSE "no") ELSE strategy
        /\ IF upload
           THEN /\ r' = ReaderConfirm(r, f, ans)
                /\ Decide(f, ans)
                /\ untold' = IF ans.skip THEN untold \union {f} ELSE untold
                /\ UNCHANGED <<w, toR, spoiled, faults>>
           ELSE Answer(f, ans) /\ UNCHANGED <<r, untold>>
        /\ UNCHANGED <<upload, toW, disk, saved, jobs, first, stale, events>>
  BY DEF SetConfirmOverrideFile
<1>2. /\ asked # {} /\ f = r.num /\ asked' = {} /\ Pending /\ toW = << >>
      /\ ~upload => w.on
  BY <1>1 DEF SafetyInv, Question, DialogOpen
<1>3. PICK ans \in {Skip, From(0)} :
        /\ IF upload
           THEN /\ r' = ReaderConfirm(r, r.num, ans)
                /\ Decide(r.num, ans)
                /\ untold' = IF ans.skip THEN untold \union {r.num} ELSE untold
                /\ UNCHANGED <<w, toR, spoiled>>
           ELSE Answer(r.num, ans) /\ UNCHANGED <<r, untold>>
        /\ UNCHANGED <<upload, toW, disk, first, stale, events>>
  BY <1>1, <1>2
<1>4. CASE upload
  BY <1>2, <1>3, <1>4, DialogUpload
<1>5. CASE ~upload
  <2>1. ans \in Answers /\ ans.off = 0
    BY AnswerFields
  <2>2. \A i \in 1 .. Len(toW) : toW[i].type = "digest"
    BY <1>2, EmptyFacts
  <2>3. \A i \in 1 .. Len(toR) : toR[i].type \notin {"ask", "confirm"}
    BY <1>2 DEF SafetyInv, Question, AnswerOpen, Pending
  <2>4. Between(r.num)
    <3>1. ~InR({"confirm"})
      BY <2>3 DEF InR
    <3> QED
      BY <1>2, <1>5, <3>1 DEF SafetyInv, WriterAt, Before0, Pending
  <2>5. Fits(r.num, ans.off)
    BY <2>1 DEF Fits
  <2> QED
    BY <1>2, <1>3, <1>5, <2>1, <2>2, <2>3, <2>4, <2>5, AnswerDownload
<1> QED
  BY <1>4, <1>5

-----------------------------------------------------------------------------
(* The steps of the reading end                                            *)

\* No question is open, and nothing is done.
LEMMA ReaderFree ==
  ASSUME SafetyInv, r.on, ~Pending
  PROVE  /\ asked = {} /\ "done" \notin events /\ ~InR({"done"}) /\ ~InW({"done"})
         /\ \A i \in 1 .. Len(toR) : toR[i].type \notin {"ask", "confirm", "send"}
         /\ \A i \in 1 .. Len(toW) : toW[i].type # "digest"
<1>1. asked = {} /\ "done" \notin events /\ ~InR({"done"})
  BY DEF SafetyInv, Question, DialogOpen, Delivered
<1>2. ~InW({"done"})
  BY DEF SafetyInv, QueueW, InW
<1>3. \A i \in 1 .. Len(toR) : toR[i].type \notin {"ask", "confirm", "send"}
  BY DEF SafetyInv, Question, AnswerOpen, Beginning, SendFirst
<1>4. \A i \in 1 .. Len(toW) : toW[i].type # "digest"
  BY DEF SafetyInv, Question, DigestOpen
<1> QED
  BY <1>1, <1>2, <1>3, <1>4

LEMMA ReaderSends ==
  ASSUME IInv, IInv', SafetyInv, r.on, ~Pending, ~r'.last,
         UNCHANGED <<upload, w, asked, toR, disk, history, events>>
  PROVE  \A m \in ToWriter :
           /\ Pushed(toW, toW', m) /\ WellFormed(m)
           /\ toW # << >> => Linked(toW[Len(toW)], m)
           /\ toW = << >> /\ w.on => Before1(m)'
           /\ ReaderAt' /\ (r'.on /\ r'.confirmed => r'.num \in consent)
           /\ m.type \in {"digest", "block", "error", "done"}
           /\ m.type = "digest" => Pending' /\ m.file = r'.num
           /\ m.type = "block" => m.file \in consent
           /\ m.type = "done" => ~r'.on /\ r.num >= NumFiles
           /\ r'.on /\ ~r.confirmed => r'.num = r.num /\ ~r'.confirmed
           /\ \A f \in Files : Passed(f)' =>
                Passed(f) \/ (m.type = "block" /\ m.file = f) \/ m.type = "error"
           => SafetyInv'
<1> SUFFICES ASSUME NEW m \in ToWriter, Pushed(toW, toW', m), WellFormed(m),
                    toW # << >> => Linked(toW[Len(toW)], m),
                    toW = << >> /\ w.on => Before1(m)',
                    ReaderAt', r'.on /\ r'.confirmed => r'.num \in consent,
                    m.type \in {"digest", "block", "error", "done"},
                    m.type = "digest" => Pending' /\ m.file = r'.num,
                    m.type = "block" => m.file \in consent,
                    m.type = "done" => ~r'.on /\ r.num >= NumFiles,
                    r'.on /\ ~r.confirmed => r'.num = r.num /\ ~r'.confirmed,
                    \A f \in Files : Passed(f)' =>
                      Passed(f) \/ (m.type = "block" /\ m.file = f) \/ m.type = "error"
             PROVE  SafetyInv'
  OBVIOUS
<1>1. /\ first' = first /\ upload' = upload /\ asked' = asked /\ events' = events /\ disk' = disk
      /\ consent' = consent /\ kept' = kept /\ untold' = untold /\ stale' = stale
      /\ spoiled' = spoiled /\ w' = w /\ toR' = toR
  BY DEF history
<1>2. /\ asked = {} /\ "done" \notin events /\ ~InR({"done"}) /\ ~InW({"done"})
      /\ \A i \in 1 .. Len(toR) : toR[i].type \notin {"ask", "confirm", "send"}
      /\ \A i \in 1 .. Len(toW) : toW[i].type # "digest"
  BY ReaderFree
<1>3. \A i \in 1 .. Len(toW') :
        \/ i \in 1 .. Len(toW) /\ toW'[i] = toW[i]
        \/ i = Len(toW) + 1 /\ i = Len(toW') /\ toW'[i] = m
  BY AfterPush
<1>4. \A types : InW(types)' <=> InW(types) \/ m.type \in types
  BY AfterPush
<1>5. QueueW'
  BY <1>1, <1>2, QueuePushed DEF SafetyInv
<1>7. Question'
  <2>1. DigestOpen'
    BY <1>2, <1>3 DEF DigestOpen, Pending
  <2>2. AnswerOpen' /\ DialogOpen' /\ Directions'
    BY <1>1, <1>2 DEF SafetyInv, Question, AnswerOpen, DialogOpen, Directions
  <2> QED
    BY <2>1, <2>2 DEF Question
<1>8. Beginning'
  <2>1. SendFirst'
    BY <1>1, <1>2 DEF SendFirst
  <2>2. ReceiveFirst'
    <3> SUFFICES ASSUME NEW i \in 1 .. Len(toW'), toW'[i].type = "receive"
                 PROVE  /\ upload' /\ i = 1 /\ toW'[i].file = first'
                        /\ ~w'.on /\ toR' = << >>
                        /\ r'.on => r'.num = first' /\ ~r'.confirmed
                        /\ InW({"done"})' => InW({"error"})' \/ first' >= NumFiles
      BY DEF ReceiveFirst
    <3>1. i \in 1 .. Len(toW) /\ toW'[i] = toW[i] /\ toW[i].type = "receive"
      BY <1>3
    <3>2. upload /\ i = 1 /\ toW[i].file = first /\ ~w.on /\ toR = << >>
          /\ r.num = first /\ ~r.confirmed
      BY <3>1 DEF SafetyInv, Beginning, ReceiveFirst
    <3> QED
      BY <1>1, <1>2, <1>4, <3>1, <3>2
  <2>3. BeforeResume'
    <3>1. ~w.on \/ ~w.last \/ upload
      BY DEF SafetyInv, Beginning, BeforeResume, Ctl, Peer
    <3> QED
      BY <1>1, <3>1 DEF BeforeResume, Ctl
  <2>4. BeforeDir'
    <3>1. toW # << >> => toW'[1] = toW[1]
      BY EmptyFacts, Types DEF Pushed
    <3>2. w.on /\ ~w.files => ~upload /\ toW # << >> /\ toW[1].type \in {"dir", "error"}
      BY DEF SafetyInv, Beginning, BeforeDir
    <3>3. toW' # << >>
      BY <1>3, EmptyFacts DEF Pushed
    <3> QED
      BY <1>1, <3>1, <3>2, <3>3 DEF BeforeDir
  <2> QED
    BY <2>1, <2>2, <2>3, <2>4 DEF Beginning
<1>9. WriterAt'
  <2>1. /\ \A n : Between(n) => Between(n)'
        /\ \A f, k : At(f, k) => At(f, k)'
        /\ \A f, n : Fits(f, n) => Fits(f, n)'
    BY <1>1, BetweenKept, FitsKept
  <2> QED
    BY <1>1, <2>1, WriterAtPushed DEF SafetyInv
<1>10. Parts'
  BY <1>1, <1>4, PrefixesKept DEF SafetyInv, Parts
<1>11. Agreed'
  BY <1>1, <1>3 DEF SafetyInv, Agreed
<1>12. Delivered'
  <2>1. \A f : Settled(f) => Settled(f)'
    BY <1>1, SettledKept
  <2>2. ASSUME w.on, ~InW({"error"})', NEW f \in first .. NumFiles - 1, Passed(f)'
        PROVE  \/ Settled(f)'
               \/ \E i \in 1 .. Len(toW') : toW'[i].type = "block" /\ toW'[i].file = f
               \/ w.stream = f
    <3>1. ~InW({"error"}) /\ m.type # "error" /\ f \in Files
      BY <1>4, <2>2, Types DEF Files
    <3>2. CASE Passed(f)
      <4>1. \A i \in 1 .. Len(toW) : i \in 1 .. Len(toW') /\ toW'[i] = toW[i]
        BY DEF Pushed
      <4> QED
        BY <2>1, <2>2, <3>1, <3>2, <4>1 DEF SafetyInv, Delivered
    <3>3. CASE m.type = "block" /\ m.file = f
      <4>1. Len(toW') \in 1 .. Len(toW') /\ toW'[Len(toW')] = m
        BY AfterPush
      <4> QED
        BY <3>3, <4>1
    <3> QED
      BY <2>2, <3>1, <3>2, <3>3
  <2>3. InR({"done"})' <=> InR({"done"})
    BY <1>1 DEF InR
  <2>4. InR({"send"})' <=> InR({"send"})
    BY <1>1 DEF InR
  <2> QED
    BY <1>1, <1>2, <1>4, <2>2, <2>3, <2>4 DEF SafetyInv, Delivered, DoneDelivers
<1> QED
  BY <1>5, <1>7, <1>8, <1>9, <1>10, <1>11, <1>12 DEF SafetyInv

LEMMA RestFields ==
  Rest' = Rest => UNCHANGED <<upload, w, asked, toR, disk, history, events>>
BY DEF Rest

LEMMA SendDigestStep == IInv /\ IInv' /\ SafetyInv /\ SendDigest => SafetyInv'
<1> SUFFICES ASSUME IInv, IInv', SafetyInv, SendDigest
             PROVE  SafetyInv'
  OBVIOUS
<1>1. /\ r.on /\ ~r.last /\ r.num \in Files /\ ~r.confirmed /\ ~r.waiting
      /\ r' = [r EXCEPT !.open = TRUE, !.pos = 0, !.waiting = TRUE]
      /\ SendW([type |-> "digest", file |-> r.num, resume |-> r.resume])
      /\ UNCHANGED <<upload, w, asked, toR, disk, history, events>>
  BY Types, Numbers, RestFields DEF SendDigest, Reading
<1>2. /\ r'.on /\ ~r'.last /\ r'.num = r.num /\ ~r'.confirmed /\ r'.waiting /\ r'.open
      /\ r'.pos = 0
  BY <1>1, Types DEF Reader
<1>3. PICK m : m = [type |-> "digest", file |-> r.num, resume |-> r.resume]
  OBVIOUS
<1>4. m.type = "digest" /\ m.file = r.num /\ m \in ToWriter
  BY <1>1, <1>3, Types DEF ToWriter, Reader
<1>5. Pushed(toW, toW', m) /\ toW'[Len(toW')] = m
  BY <1>1, <1>3, <1>4, Sent, AfterPush
<1>6. toW # << >> => Linked(toW[Len(toW)], m)
  BY <1>1, <1>4 DEF SafetyInv, ReaderAt, Linked
<1>7. toW = << >> /\ w.on => Before1(m)'
  <2>1. toW = << >> /\ w.on => Between(m.file)
    <3>1. ~InR({"confirm"})
      BY <1>1, ReaderFree DEF Pending, InR
    <3> QED
      BY <1>1, <1>4, <3>1 DEF SafetyInv, WriterAt, Before0
  <2>2. Between(m.file) => Between(m.file)'
    BY <1>1, BetweenKept DEF history
  <2> QED
    BY <1>4, <2>1, <2>2 DEF Before1
<1>8. ReaderAt'
  BY <1>1, <1>2, <1>4, <1>5 DEF SafetyInv, ReaderAt, history
<1>9. \A f : Passed(f)' => Passed(f)
  BY <1>1, <1>2 DEF Passed
<1> QED
  BY <1>1, <1>2, <1>4, <1>5, <1>6, <1>7, <1>8, <1>9, ReaderSends DEF WellFormed, Pending

LEMMA NextFileAt ==
  ASSUME IInv, SafetyInv, r.on, r.num \in Files, r' = NextFile(r), first' = first,
         toW' # << >> /\ Boundary(toW'[Len(toW')], r.num + 1)
  PROVE  /\ ReaderAt' /\ ~r'.confirmed /\ r'.on /\ (r'.last <=> r.last)
         /\ \A f \in Files : Passed(f)' => Passed(f) \/ f = r.num
<1>1. /\ r'.num = r.num + 1 /\ r'.on /\ ~r'.confirmed /\ ~r'.waiting /\ r'.last = r.last
      /\ r.num \in Nat /\ first \in Nat
  BY Types, NextFileFields
<1>2. r.num + 1 <= NumFiles + first
  BY <1>1, Numbers
<1>3. \A x, n : Boundary(x, n)' <=> Boundary(x, n)
  BY DEF Boundary
<1>4. ReaderAt'
  BY <1>1, <1>2, <1>3 DEF ReaderAt
<1>5. \A f \in Files : Passed(f)' => Passed(f) \/ f = r.num
  BY <1>1, Numbers DEF Passed
<1> QED
  BY <1>1, <1>4, <1>5

LEMMA ReadBlockStep == IInv /\ IInv' /\ SafetyInv /\ ReadBlock => SafetyInv'
<1> SUFFICES ASSUME IInv, IInv', SafetyInv, ReadBlock
             PROVE  SafetyInv'
  OBVIOUS
<1>1. /\ r.on /\ ~r.last /\ r.num \in Files /\ r.confirmed
      /\ UNCHANGED <<upload, w, asked, toR, disk, history, events>>
  BY Types, Numbers, RestFields DEF ReadBlock, Reading
<1>2. /\ r \in Reader /\ r.num \in Nat /\ r.pos \in Nat /\ Size[r.num] \in Nat
      /\ r.waiting /\ r.open /\ r.num \in consent
      /\ r.pos + 1 \in Nat /\ first' = first /\ r.num <= NumFiles + first
  BY <1>1, Types, Numbers DEF SafetyInv, ReaderAt, Agreed, history
<1>3. PICK m : m = [type |-> "block", file |-> r.num,
                    data |-> IF r.pos < Size[r.num] THEN <<r.pos + 1>> ELSE << >>]
  OBVIOUS
<1>4. m.type = "block" /\ m.file = r.num /\ m \in ToWriter
  BY <1>1, <1>2, <1>3 DEF ToWriter
<1>5. /\ r.pos < Size[r.num] => /\ m.data # << >> /\ Len(m.data) = 1 /\ m.data[1] = r.pos + 1
                                /\ r' = [r EXCEPT !.pos = @ + 1] /\ SendW(m)
      /\ ~(r.pos < Size[r.num]) => m.data = << >> /\ r' = NextFile(r) /\ SendW(m)
  <2>1. CASE r.pos < Size[r.num]
    BY <1>3, <2>1 DEF ReadBlock
  <2>2. CASE ~(r.pos < Size[r.num])
    BY <1>3, <2>2 DEF ReadBlock
  <2> QED
    BY <2>1, <2>2
<1>6. WellFormed(m) /\ Before(m) = Cap(r.num, r.pos)
  BY <1>2, <1>4, <1>5 DEF WellFormed, Before, Cap
<1>7. Pushed(toW, toW', m) /\ toW' # << >> /\ toW'[Len(toW')] = m
  BY <1>4, <1>5, Sent, AfterPush, EmptyFacts
<1>8. toW # << >> => Linked(toW[Len(toW)], m)
  BY <1>1, <1>4, <1>6 DEF SafetyInv, ReaderAt, Linked
<1>9. toW = << >> /\ w.on => Before1(m)'
  <2>1. toW = << >> /\ w.on => At(m.file, Before(m))
    BY <1>1, <1>4, <1>6 DEF SafetyInv, WriterAt, Before0
  <2>2. \A k : At(m.file, k) => At(m.file, k)'
    BY <1>1, BetweenKept DEF history
  <2>3. Before(m)' = Before(m)
    BY DEF Before
  <2> QED
    BY <1>4, <2>1, <2>2, <2>3 DEF Before1
<1>10. /\ ReaderAt' /\ r'.on /\ ~r'.last /\ (r'.confirmed => r'.num \in consent)
       /\ \A f \in Files : Passed(f)' => Passed(f) \/ f = r.num
  <2>1. CASE r.pos < Size[r.num]
    <3>1. /\ r'.on /\ ~r'.last /\ r'.num = r.num /\ r'.confirmed /\ r'.waiting /\ r'.open
          /\ r'.pos = r.pos + 1
      BY <1>1, <1>2, <1>5, <2>1 DEF Reader
    <3>2. (Cap(r.num, r.pos))' = r.pos + 1
      BY <1>2, <2>1, <3>1 DEF Cap
    <3>4. Midway(toW[Len(toW)], r.num, Cap(r.num, r.pos))'
      BY <1>4, <1>5, <1>7, <2>1, <3>1, <3>2 DEF Midway
    <3>5. ReaderAt'
      BY <1>1, <1>2, <1>7, <3>1, <3>4 DEF ReaderAt
    <3> QED
      BY <1>1, <1>2, <3>1, <3>5 DEF Passed
  <2>2. CASE ~(r.pos < Size[r.num])
    <3>1. Boundary(m, r.num + 1)
      BY <1>4, <1>5, <2>2 DEF Boundary
    <3> QED
      BY <1>1, <1>2, <1>5, <1>7, <2>2, <3>1, NextFileAt
  <2> QED
    BY <2>1, <2>2
<1> QED
  BY <1>1, <1>2, <1>4, <1>6, <1>7, <1>8, <1>9, <1>10, ReaderSends DEF Pending

LEMMA ReadErrorStep == IInv /\ IInv' /\ SafetyInv /\ ReadError => SafetyInv'
<1> SUFFICES ASSUME IInv, IInv', SafetyInv, ReadError
             PROVE  SafetyInv'
  OBVIOUS
<1>1. /\ r.on /\ ~r.last /\ r.num \in Files /\ r.confirmed /\ r' = NextFile(r)
      /\ SendW(Msg("error", r.num + 1))
      /\ UNCHANGED <<upload, w, asked, toR, disk, history, events>>
  BY Types, Numbers, RestFields DEF ReadError, Reading
<1>2. PICK m : m = Msg("error", r.num + 1)
  OBVIOUS
<1>3. m.type = "error" /\ m \in ToWriter /\ SendW(m)
  BY <1>1, <1>2, Types DEF Msg, ToWriter
<1>4. Pushed(toW, toW', m) /\ toW' # << >> /\ toW'[Len(toW')] = m
  BY <1>3, Sent, AfterPush, EmptyFacts
<1>5. first' = first /\ Boundary(m, r.num + 1)
  BY <1>1, <1>3 DEF history, Boundary
<1>6. /\ ReaderAt' /\ ~r'.confirmed /\ r'.on /\ ~r'.last
  BY <1>1, <1>4, <1>5, NextFileAt
<1>7. WellFormed(m) /\ (toW # << >> => Linked(toW[Len(toW)], m)) /\ Before1(m)'
  BY <1>3 DEF WellFormed, Linked, Before1
<1> QED
  BY <1>1, <1>3, <1>4, <1>6, <1>7, ReaderSends DEF Pending

LEMMA EndJobStep == IInv /\ IInv' /\ SafetyInv /\ EndJob => SafetyInv'
<1> SUFFICES ASSUME IInv, IInv', SafetyInv, EndJob
             PROVE  SafetyInv'
  OBVIOUS
<1>1. /\ r.on /\ ~r.last /\ r.num >= NumFiles /\ r' = NoReader
      /\ SendW(Msg(IF r.skipped /\ NumFiles = 1 THEN "error" ELSE "done", r.num))
      /\ UNCHANGED <<upload, w, asked, toR, disk, history, events>>
  BY RestFields DEF EndJob, Reading
<1>2. ~r.waiting /\ ~r.confirmed /\ r.num \in NumFiles .. NumFiles + first
  BY <1>1, Types, Numbers DEF SafetyInv, ReaderAt
<1>3. PICK m : m = Msg(IF r.skipped /\ NumFiles = 1 THEN "error" ELSE "done", r.num)
  OBVIOUS
<1>4. m.type \in {"error", "done"} /\ m \in ToWriter /\ SendW(m)
  BY <1>1, <1>3, Types DEF Msg, ToWriter
<1>5. Pushed(toW, toW', m)
  BY <1>4, Sent
<1>6. WellFormed(m) /\ (toW # << >> => Linked(toW[Len(toW)], m))
  BY <1>1, <1>2, <1>4 DEF SafetyInv, ReaderAt, WellFormed, Linked
<1>7. toW = << >> /\ w.on => Before1(m)'
  <2>1. PICK n : n = r.num
    OBVIOUS
  <2>2. ~InR({"confirm"})
    BY <1>1, <1>2, ReaderFree DEF Pending, InR
  <2>3. toW = << >> /\ w.on => Between(n)
    BY <1>1, <1>2, <2>1, <2>2 DEF SafetyInv, WriterAt, Before0
  <2>4. toW = << >> /\ w.on => Between(n)'
    BY <1>1, <2>3, BetweenKept DEF history
  <2>5. n \in NumFiles .. NumFiles + first'
    BY <1>1, <1>2, <2>1 DEF history
  <2> QED
    BY <1>4, <2>4, <2>5 DEF Before1
<1>8. \A f \in Files : Passed(f)' => Passed(f)
  BY <1>1, Types, Numbers, NoReaderFields DEF Passed
<1> QED
  BY <1>1, <1>2, <1>4, <1>5, <1>6, <1>7, <1>8, ReaderSends, NoReaderFields
     DEF Pending, ReaderAt, NoReader

LEMMA OpenErrorStep == IInv /\ IInv' /\ SafetyInv /\ OpenError => SafetyInv'
<1> SUFFICES ASSUME IInv, IInv', SafetyInv, OpenError
             PROVE  SafetyInv'
  OBVIOUS
<1>0. toW' = toW \o << Msg("error", r.num + 1), Msg("done", r.num + 1) >>
  BY DEF OpenError
<1>1. /\ r.on /\ ~r.last /\ r.num \in Files /\ ~r.open /\ r' = NoReader
      /\ UNCHANGED <<upload, w, asked, toR, disk, history, events>>
  BY Types, Numbers, RestFields DEF OpenError, Reading
<1>2. ~r.waiting /\ ~r.confirmed
  BY <1>1 DEF SafetyInv, ReaderAt
<1>3. /\ asked = {} /\ "done" \notin events /\ ~InR({"done"}) /\ ~InW({"done"})
      /\ \A i \in 1 .. Len(toR) : toR[i].type \notin {"ask", "confirm", "send"}
      /\ \A i \in 1 .. Len(toW) : toW[i].type # "digest"
  BY <1>1, <1>2, ReaderFree DEF Pending
<1>4. /\ first' = first /\ upload' = upload /\ asked' = asked /\ events' = events /\ disk' = disk
      /\ consent' = consent /\ kept' = kept /\ untold' = untold /\ stale' = stale
      /\ spoiled' = spoiled /\ w' = w /\ toR' = toR
  BY <1>1 DEF history
<1>5. PICK e, d : e = Msg("error", r.num + 1) /\ d = Msg("done", r.num + 1)
  OBVIOUS
<1>6. e.type = "error" /\ d.type = "done" /\ e \in ToWriter /\ d \in ToWriter
  BY <1>5, Types DEF Msg, ToWriter
<1>7. /\ Len(toW') = Len(toW) + 2 /\ Len(toW) \in Nat
      /\ \A i \in 1 .. Len(toW) : toW'[i] = toW[i]
      /\ toW'[Len(toW) + 1] = e /\ toW'[Len(toW) + 2] = d
  <2>1. toW \in Seq(ToWriter) /\ << e, d >> \in Seq(ToWriter) /\ Len(<< e, d >>) = 2
        /\ << e, d >>[1] = e /\ << e, d >>[2] = d /\ Len(toW) \in Nat
    BY <1>6, Types
  <2>2. toW' = toW \o << e, d >>
    BY <1>0, <1>5
  <2>3. /\ Len(toW') = Len(toW) + 2
        /\ \A i \in 1 .. Len(toW) + 2 :
             toW'[i] = IF i <= Len(toW) THEN toW[i] ELSE << e, d >>[i - Len(toW)]
    BY <2>1, <2>2, ConcatProperties
  <2> QED
    BY <2>1, <2>3
<1>8. \A i \in 1 .. Len(toW') :
        \/ i \in 1 .. Len(toW) /\ toW'[i] = toW[i]
        \/ i = Len(toW) + 1 /\ toW'[i] = e
        \/ i = Len(toW) + 2 /\ toW'[i] = d
  BY <1>7
<1>9. toW' # << >> /\ InW({"error"})' /\ InW({"done"})'
  <2>1. Len(toW) + 1 \in 1 .. Len(toW') /\ Len(toW) + 2 \in 1 .. Len(toW')
    BY <1>7
  <2> QED
    BY <1>6, <1>7, <2>1, EmptyFacts DEF InW
<1>10. QueueW'
  <2>1. \A x, y : Linked(x, y) => Linked(x, y)'
    BY <1>4, SameSaying
  <2>2. \A x : WellFormed(x)' <=> WellFormed(x)
    BY <1>4, SameSaying
  <2>3. \A i \in 1 .. Len(toW') : WellFormed(toW'[i])
    BY <1>6, <1>8 DEF SafetyInv, QueueW, WellFormed
  <2>4. \A i \in 2 .. Len(toW') : Linked(toW'[i - 1], toW'[i])
    <3> SUFFICES ASSUME NEW i \in 2 .. Len(toW')
                 PROVE  Linked(toW'[i - 1], toW'[i])
      OBVIOUS
    <3>1. CASE i \in 1 .. Len(toW)
      <4>1. i \in 2 .. Len(toW) /\ toW'[i] = toW[i] /\ toW'[i - 1] = toW[i - 1]
        BY <1>7, <3>1
      <4> QED
        BY <4>1 DEF SafetyInv, QueueW
    <3>2. CASE i = Len(toW) + 1
      BY <1>6, <1>7, <3>2 DEF Linked
    <3>3. CASE i = Len(toW) + 2
      <4>1. toW'[i - 1] = e /\ toW'[i] = d
        BY <1>7, <3>3
      <4>2. NumFiles \in NumFiles .. NumFiles + first /\ Boundary(e, NumFiles)
        BY <1>6, Numbers, Types DEF Boundary
      <4> QED
        BY <1>6, <4>1, <4>2 DEF Linked
    <3> QED
      BY <1>8, <3>1, <3>2, <3>3
  <2>5. \A i \in 1 .. Len(toW') : toW'[i].type = "done" => i = Len(toW') /\ ~r'.on
    BY <1>1, <1>3, <1>6, <1>7, <1>8, NoReaderFields DEF InW
  <2> QED
    BY <2>1, <2>2, <2>3, <2>4, <2>5 DEF QueueW
<1>11. ReaderAt'
  BY <1>1, <1>4, NoReaderFields DEF SafetyInv, ReaderAt
<1>12. Question'
  <2>1. DigestOpen'
    BY <1>3, <1>6, <1>8 DEF DigestOpen
  <2>2. AnswerOpen' /\ DialogOpen' /\ Directions'
    BY <1>3, <1>4 DEF SafetyInv, Question, AnswerOpen, DialogOpen, Directions
  <2> QED
    BY <2>1, <2>2 DEF Question
<1>13. Beginning'
  <2>1. SendFirst'
    BY <1>3, <1>4 DEF SendFirst
  <2>2. ReceiveFirst'
    BY <1>1, <1>4, <1>6, <1>8, <1>9, NoReaderFields DEF SafetyInv, Beginning, ReceiveFirst
  <2>3. BeforeResume'
    BY <1>1, <1>4, NoReaderFields DEF SafetyInv, Beginning, BeforeResume, Ctl, Peer
  <2>4. BeforeDir'
    <3>1. toW # << >> => toW'[1] = toW[1]
      BY <1>7, EmptyFacts, Types
    <3>2. w.on /\ ~w.files => ~upload /\ toW # << >> /\ toW[1].type \in {"dir", "error"}
      BY <1>1 DEF SafetyInv, Beginning, BeforeDir
    <3> QED
      BY <1>4, <1>9, <3>1, <3>2 DEF BeforeDir
  <2> QED
    BY <2>1, <2>2, <2>3, <2>4 DEF Beginning
<1>14. WriterAt'
  <2>1. \A n : Between(n) => Between(n)'
    BY <1>4, BetweenKept
  <2>2. \A f, k : At(f, k) => At(f, k)'
    BY <1>4, BetweenKept
  <2>3. \A f, n : Fits(f, n) => Fits(f, n)'
    BY <1>4, FitsKept
  <2>4. \A x : Before(x)' = Before(x)
    BY DEF Before
  <2>5. CASE toW = << >>
    <3>1. toW'[1] = e
      BY <1>7, <2>5, EmptyFacts
    <3> QED
      BY <1>4, <1>6, <1>9, <3>1 DEF SafetyInv, WriterAt, Before1, Strays
  <2>6. CASE toW # << >>
    <3>1. toW'[1] = toW[1]
      BY <1>7, <2>6, EmptyFacts, Types
    <3>2. \A x : Before1(x) => Before1(x)'
      <4> SUFFICES ASSUME NEW x, Before1(x)
                   PROVE  Before1(x)'
        OBVIOUS
      <4> QED
        BY <1>4, <2>1, <2>2, <2>3, <2>4 DEF Before1
    <3> QED
      BY <1>4, <1>9, <2>6, <3>1, <3>2 DEF SafetyInv, WriterAt, Strays
  <2> QED
    BY <2>5, <2>6
<1>15. Parts'
  <2>1. InW({"receive"})' => InW({"receive"})
    BY <1>6, <1>8 DEF InW
  <2> QED
    BY <1>1, <1>4, <2>1, PrefixesKept, NoReaderFields DEF SafetyInv, Parts
<1>16. Agreed'
  BY <1>1, <1>4, <1>6, <1>8, NoReaderFields DEF SafetyInv, Agreed
<1>17. Delivered'
  BY <1>1, <1>3, <1>4, <1>9 DEF SafetyInv, Delivered, DoneDelivers, InR
<1> QED
  BY <1>10, <1>11, <1>12, <1>13, <1>14, <1>15, <1>16, <1>17 DEF SafetyInv

-----------------------------------------------------------------------------
(* The messages to the reading end                                         *)

\* The first message to the reading end is taken.
LEMMA ReaderPops ==
  ASSUME IInv, SafetyInv, toR # << >>, Popped(toR, toR'), UNCHANGED <<upload, first, w>>
  PROVE  /\ Directions' /\ SendFirst' /\ ~(Ctl.on /\ Ctl.last)
         /\ \A i \in 1 .. Len(toW) : toW[i].type # "receive"
         /\ \A types : InR(types)' => InR(types)
         /\ toR[1].type \in {"ask", "confirm"} /\ r.on =>
              /\ Pending /\ toR[1].file = r.num /\ toW = << >> /\ asked = {}
              /\ \A i \in 1 .. Len(toR') : toR'[i].type \notin {"ask", "confirm"}
<1>1. Len(toR) \in Nat \ {0} /\ 1 \in 1 .. Len(toR)
      /\ \A i \in 1 .. Len(toR') : i + 1 \in 1 .. Len(toR) /\ i + 1 # 1 /\ toR'[i] = toR[i + 1]
  BY Types DEF Popped
<1>3. Directions'
  BY <1>1 DEF SafetyInv, Question, Directions
<1>4. SendFirst'
  BY <1>1 DEF SafetyInv, Beginning, SendFirst
<1>5. ~(Ctl.on /\ Ctl.last)
  BY DEF SafetyInv, Beginning, BeforeResume
<1>6. \A i \in 1 .. Len(toW) : toW[i].type # "receive"
  BY DEF SafetyInv, Beginning, ReceiveFirst
<1>7. \A types : InR(types)' => InR(types)
  BY AfterPop
<1>8. ASSUME toR[1].type \in {"ask", "confirm"}, r.on
      PROVE  /\ Pending /\ toR[1].file = r.num /\ toW = << >> /\ asked = {}
             /\ \A i \in 1 .. Len(toR') : toR'[i].type \notin {"ask", "confirm"}
  <2>1. /\ Pending /\ toR[1].file = r.num /\ toW = << >> /\ asked = {}
        /\ \A j \in 1 .. Len(toR) : toR[j].type \in {"ask", "confirm"} => j = 1
    BY <1>1, <1>8 DEF SafetyInv, Question, AnswerOpen
  <2> QED
    BY <1>1, <2>1
<1> QED
  BY <1>3, <1>4, <1>5, <1>6, <1>7, <1>8

LEMMA LostSafe == IInv /\ IInv' /\ SafetyInv /\ (Disconnect \/ Crash) => SafetyInv'
<1> SUFFICES ASSUME IInv, IInv', SafetyInv, Disconnect \/ Crash
             PROVE  SafetyInv'
  OBVIOUS
<1>1. /\ r' = NoReader /\ w' = NoWriter /\ toW' = << >> /\ toR' = << >> /\ asked' = {}
      /\ UNCHANGED <<upload, disk, history, events>>
  BY DEF Disconnect, Crash, Lost
<1>2. /\ first' = first /\ upload' = upload /\ events' = events /\ disk' = disk
      /\ consent' = consent /\ kept' = kept /\ untold' = untold /\ stale' = stale
      /\ spoiled' = spoiled
  BY <1>1 DEF history
<1>3. QueueW' /\ ReaderAt' /\ WriterAt'
  BY <1>1, QueueEmpty, NoReaderFields DEF SafetyInv, ReaderAt, WriterAt, Strays
<1>4. Question'
  BY <1>1, EmptyFacts DEF Question, DigestOpen, AnswerOpen, DialogOpen, Directions
<1>5. Beginning'
  BY <1>1, EmptyFacts, NoReaderFields
     DEF Beginning, SendFirst, ReceiveFirst, BeforeResume, BeforeDir, Ctl
<1>6. Parts'
  BY <1>1, <1>2, EmptyFacts, PrefixesKept, NoReaderFields DEF SafetyInv, Parts, InW
<1>7. Agreed'
  BY <1>1, <1>2, EmptyFacts, NoReaderFields DEF SafetyInv, Agreed
<1>8. Delivered'
  <2>1. ~InW({"done"})' /\ ~InR({"done"})' /\ ~InR({"send"})'
    BY <1>1, EmptyFacts DEF InW, InR
  <2>2. DoneDelivers'
    BY <1>2 DEF SafetyInv, Delivered, DoneDelivers, Whole, Source
  <2> QED
    BY <1>1, <2>1, <2>2, NoReaderFields DEF Delivered
<1> QED
  BY <1>3, <1>4, <1>5, <1>6, <1>7, <1>8 DEF SafetyInv

LEMMA RecvSendStep == IInv /\ IInv' /\ SafetyInv /\ RecvSend => SafetyInv'
<1> SUFFICES ASSUME IInv, IInv', SafetyInv, RecvSend
             PROVE  SafetyInv'
  OBVIOUS
<1>1. /\ toR # << >> /\ Popped(toR, toR') /\ Head(toR) = toR[1] /\ toR[1].type = "send"
      /\ UNCHANGED <<upload, w, asked, disk, history, events>>
  BY Received DEF RecvSend
<1>2. /\ first' = first /\ upload' = upload /\ asked' = asked /\ events' = events /\ disk' = disk
      /\ consent' = consent /\ kept' = kept /\ untold' = untold /\ stale' = stale
      /\ spoiled' = spoiled /\ w' = w
  BY <1>1 DEF history
<1>3. /\ 1 \in 1 .. Len(toR)
      /\ ~upload /\ toR[1].file = first /\ ~r.on /\ toW = << >>
      /\ w.on => w.num = first /\ w.stream = NoStream
      /\ \A j \in 2 .. Len(toR) : toR[j].type = "cancel"
  BY <1>1 DEF SafetyInv, Beginning, SendFirst, Popped
<1>4. /\ asked = {} /\ InR({"send"}) /\ "done" \notin events /\ ~InR({"done"}) /\ ~InW({"done"})
  BY <1>1, <1>3, EmptyFacts
     DEF SafetyInv, Question, DialogOpen, Pending, Delivered, InR, InW
<1>5. \A i \in 1 .. Len(toR') : toR'[i].type = "cancel"
  BY <1>1, <1>3 DEF Popped
<1>6. /\ Directions' /\ SendFirst' /\ ~(Ctl.on /\ Ctl.last)
      /\ \A types : InR(types)' => InR(types)
  BY <1>1, <1>2, ReaderPops
<1>7. PICK m \in ToWriter : /\ SendW(m)
                            /\ \/ m.type = "dir" /\ r' = NewReader(first)
                               \/ m.type = "error" /\ r' = r
  <2>1. /\ Msg("dir", 0) \in ToWriter /\ Msg("dir", 0).type = "dir"
        /\ Msg("error", 0) \in ToWriter /\ Msg("error", 0).type = "error"
    BY DEF Msg, ToWriter
  <2>2. \/ r' = NewReader(first) /\ SendW(Msg("dir", 0))
        \/ r' = r /\ SendW(Msg("error", 0))
    BY <1>1, <1>3 DEF RecvSend
  <2> QED
    BY <2>1, <2>2
<1>8. Pushed(toW, toW', m)
  BY <1>7, Sent
<1>9. toW' = << m >> /\ toW' # << >> /\ Len(toW') = 1 /\ toW'[1] = m
  BY <1>3, <1>8, PushedFirst
<1>10. \A i \in 1 .. Len(toW') : toW'[i] = m
  BY <1>9
<1>11. /\ r'.on => r'.num = first /\ ~r'.waiting /\ ~r'.confirmed /\ ~r'.open /\ m.type = "dir"
       /\ ~r'.on => m.type = "error"
  BY <1>3, <1>7 DEF NewReader, NoReader
<1>12. QueueW'
  BY <1>7, <1>9, QueueOne DEF WellFormed
<1>13. ReaderAt'
  BY <1>2, <1>9, <1>11, Types, Numbers DEF ReaderAt, Boundary
<1>14. Question'
  BY <1>2, <1>4, <1>5, <1>6, <1>7, <1>10
     DEF Question, DigestOpen, AnswerOpen, DialogOpen
<1>15. Beginning'
  <2>1. ReceiveFirst'
    BY <1>7, <1>10 DEF ReceiveFirst
  <2>2. BeforeResume' /\ BeforeDir'
    BY <1>2, <1>3, <1>6, <1>7, <1>9 DEF BeforeResume, BeforeDir, Ctl
  <2> QED
    BY <1>6, <2>1, <2>2 DEF Beginning
<1>16. WriterAt'
  <2>1. w.on => Between(first)'
    BY <1>2, <1>3 DEF Between
  <2> QED
    BY <1>2, <1>7, <1>9, <2>1 DEF SafetyInv, WriterAt, Before1, Strays
<1>17. Parts'
  <2>1. ~InW({"receive"})'
    BY <1>7, <1>10 DEF InW
  <2> QED
    BY <1>2, <1>3, <2>1, PrefixesKept DEF SafetyInv, Parts
<1>18. Agreed'
  BY <1>2, <1>5, <1>7, <1>10, <1>11 DEF SafetyInv, Agreed
<1>19. Delivered'
  <2>1. /\ ~r'.on => InW({"error"})'
        /\ ~InW({"done"})'
    BY <1>7, <1>9, <1>10, <1>11 DEF InW
  <2>2. \A f \in first .. NumFiles - 1 : r'.on => ~Passed(f)'
    BY <1>11, Types DEF Passed
  <2> QED
    BY <1>2, <1>3, <1>4, <1>6, <2>1, <2>2 DEF SafetyInv, Delivered, DoneDelivers
<1> QED
  BY <1>6, <1>12, <1>13, <1>14, <1>15, <1>16, <1>17, <1>18, <1>19 DEF SafetyInv

LEMMA RecvCancelReadStep == IInv /\ IInv' /\ SafetyInv /\ RecvCancelRead => SafetyInv'
<1> SUFFICES ASSUME IInv, IInv', SafetyInv, RecvCancelRead
             PROVE  SafetyInv'
  OBVIOUS
<1>1. /\ toR # << >> /\ Popped(toR, toR') /\ toR[1].type = "cancel" /\ ~upload /\ r' = NoReader
      /\ UNCHANGED <<upload, w, asked, toW, disk, history, events>>
  BY Received DEF RecvCancelRead
<1>2. /\ first' = first /\ upload' = upload /\ asked' = asked /\ events' = events /\ disk' = disk
      /\ consent' = consent /\ kept' = kept /\ untold' = untold /\ stale' = stale
      /\ spoiled' = spoiled /\ w' = w /\ toW' = toW /\ ~r'.on
  BY <1>1, NoReaderFields DEF history
<1>3. 1 \in 1 .. Len(toR)
  BY <1>1 DEF Popped
<1>4. ~w.on /\ asked = {}
  BY <1>1, <1>3 DEF SafetyInv, Question, Directions, DialogOpen
<1>5. /\ Directions' /\ SendFirst'
      /\ \A i \in 1 .. Len(toW) : toW[i].type # "receive"
      /\ \A types : InR(types)' => InR(types)
  BY <1>1, <1>2, ReaderPops
<1>6. QueueW' /\ ReaderAt' /\ WriterAt'
  BY <1>2, <1>4, QueueSame DEF SafetyInv, ReaderAt, WriterAt, Strays
<1>7. Question'
  BY <1>2, <1>4, <1>5 DEF Question, DigestOpen, AnswerOpen, DialogOpen
<1>8. Beginning'
  BY <1>1, <1>2, <1>4, <1>5 DEF Beginning, ReceiveFirst, BeforeResume, BeforeDir, Ctl
<1>9. Parts'
  BY <1>1, <1>2, <1>4, <1>5, PrefixesKept DEF SafetyInv, Parts, InW
<1>10. Agreed'
  BY <1>1, <1>2 DEF SafetyInv, Agreed, Popped
<1>11. Delivered'
  <2>1. InW({"done"})' <=> InW({"done"})
    BY <1>2 DEF InW
  <2>2. \A f : Settled(f) => Settled(f)'
    BY <1>2, SettledKept
  <2> QED
    BY <1>2, <1>4, <1>5, <2>1, <2>2 DEF SafetyInv, Delivered, DoneDelivers, Whole, Source
<1> QED
  BY <1>5, <1>6, <1>7, <1>8, <1>9, <1>10, <1>11 DEF SafetyInv

\* A message to a reading end that is not there, or goes
LEMMA ReaderGone ==
  ASSUME IInv, IInv', SafetyInv, toR # << >>, Popped(toR, toR'), ~r'.on, asked' = {},
         ~r.on \/ upload, UNCHANGED <<upload, w, toW, disk, history>>
  PROVE  /\ QueueW' /\ ReaderAt' /\ Question' /\ Beginning' /\ WriterAt'
         /\ Parts' /\ Agreed'
         /\ events' \in {events, events \union {"done"}, events \union {"error"}}
            /\ ("done" \in events' => "done" \in events \/ toR[1].type = "done")
            => Delivered'
<1>1. /\ first' = first /\ upload' = upload /\ disk' = disk
      /\ consent' = consent /\ kept' = kept /\ untold' = untold /\ stale' = stale
      /\ spoiled' = spoiled /\ w' = w /\ toW' = toW
  BY DEF history
<1>2. /\ Directions' /\ SendFirst' /\ ~(Ctl.on /\ Ctl.last)
      /\ \A i \in 1 .. Len(toW) : toW[i].type # "receive"
      /\ \A types : InR(types)' => InR(types)
  BY <1>1, ReaderPops
<1>3. QueueW' /\ ReaderAt'
  BY <1>1, QueueSame DEF SafetyInv, ReaderAt
<1>4. Question'
  BY <1>1, <1>2 DEF SafetyInv, Question, DigestOpen, AnswerOpen, DialogOpen
<1>5. Beginning'
  BY <1>1, <1>2 DEF SafetyInv, Beginning, ReceiveFirst, BeforeResume, BeforeDir, Ctl
<1>6. WriterAt'
  <2>1. \A n : Between(n) => Between(n)'
    BY <1>1, BetweenKept
  <2>2. \A f, k : At(f, k) => At(f, k)'
    BY <1>1, BetweenKept
  <2>3. \A f, n : Fits(f, n) => Fits(f, n)'
    BY <1>1, FitsKept
  <2>4. \A x : Before(x)' = Before(x)
    BY DEF Before
  <2>5. \A x : Before1(x) => Before1(x)'
    <3> SUFFICES ASSUME NEW x, Before1(x)
                 PROVE  Before1(x)'
      OBVIOUS
    <3> QED
      BY <1>1, <2>1, <2>2, <2>3, <2>4 DEF Before1
  <2> QED
    BY <1>1, <2>5 DEF SafetyInv, WriterAt, Strays
<1>7. Parts'
  BY <1>1, <1>2, PrefixesKept DEF SafetyInv, Parts, InW
<1>8. Agreed'
  BY <1>1 DEF SafetyInv, Agreed, Popped
<1>9. ASSUME events' \in {events, events \union {"done"}, events \union {"error"}},
             "done" \in events' => "done" \in events \/ toR[1].type = "done"
      PROVE  Delivered'
  <2>1. InW({"done"})' <=> InW({"done"})
    BY <1>1 DEF InW
  <2>2. InW({"error"})' <=> InW({"error"})
    BY <1>1 DEF InW
  <2>3. \A f : Settled(f) <=> Settled(f)'
    BY <1>1 DEF Settled, Whole, Source
  <2>4. "done" \in events' => "done" \in events \/ InR({"done"})
    BY <1>9, Types DEF InR, Popped
  <2>5. r.on => ~InW({"done"})
    BY DEF SafetyInv, QueueW, InW
  <2>6. DoneDelivers'
    <3>1. DoneDelivers' <=> (events' = {"done"} => \A f \in first .. NumFiles - 1 : Settled(f)')
      BY <1>1 DEF DoneDelivers, Settled
    <3>2. DoneDelivers <=> (events = {"done"} => \A f \in first .. NumFiles - 1 : Settled(f))
      BY DEF DoneDelivers, Settled
    <3>3. events' = {"done"} => events = {"done"} \/ InR({"done"})
      BY <1>9, <2>4
    <3> QED
      BY <2>3, <3>1, <3>2, <3>3 DEF SafetyInv, Delivered
  <2>7. /\ w'.on /\ ~InW({"error"})' =>
             \A f \in first' .. NumFiles - 1 : Passed(f)' =>
               \/ Settled(f)'
               \/ \E i \in 1 .. Len(toW') : toW'[i].type = "block" /\ toW'[i].file = f
               \/ w'.stream = f
    BY <1>1, <2>1, <2>2, <2>3, <2>5 DEF SafetyInv, Delivered, Passed
  <2> QED
    BY <1>1, <1>2, <1>9, <2>1, <2>3, <2>4, <2>6, <2>7 DEF SafetyInv, Delivered
<1> QED
  BY <1>2, <1>3, <1>4, <1>5, <1>6, <1>7, <1>8, <1>9

LEMMA RecvReportStep == IInv /\ IInv' /\ SafetyInv /\ RecvReport => SafetyInv'
<1> SUFFICES ASSUME IInv, IInv', SafetyInv, RecvReport
             PROVE  SafetyInv'
  OBVIOUS
<1>1. UNCHANGED <<upload, w, toW, disk, history>>
  BY DEF RecvReport
<1>2. CASE RecvR("done") /\ events' = events \union {"done"} /\ UNCHANGED <<r, asked>>
  <2>1. toR # << >> /\ Popped(toR, toR') /\ toR[1].type = "done" /\ 1 \in 1 .. Len(toR)
    BY <1>2, Received DEF Popped
  <2>2. ~r.on /\ asked = {}
    BY <2>1 DEF SafetyInv, Delivered, InR, Question, DialogOpen, Pending
  <2> QED
    BY <1>1, <1>2, <2>1, <2>2, ReaderGone DEF SafetyInv
<1>3. CASE RecvR("error") /\ events' = events \union {"error"} /\ r' = NoReader /\ asked' = {}
  <2>1. toR # << >> /\ Popped(toR, toR') /\ toR[1].type = "error" /\ 1 \in 1 .. Len(toR)
    BY <1>3, Received DEF Popped
  <2>2. upload /\ ~r'.on
    BY <1>3, <2>1, NoReaderFields DEF SafetyInv, Question, Directions
  <2> QED
    BY <1>1, <1>3, <2>1, <2>2, ReaderGone DEF SafetyInv
<1> QED
  BY <1>2, <1>3 DEF RecvReport

\* The reading end takes the answer to its question.  An offset that it could not seek to
\* is lost.
LEMMA ReaderConfirms ==
  ASSUME IInv, r.waiting, ~r.confirmed, r.open, r.pos = 0
  PROVE  \A ans \in Answers : \A got :
           /\ Seeks(r, r.num, ans, got) /\ r' = ReaderConfirm(r, r.num, got)
           /\ Spoil(IF got # ans THEN {r.num} ELSE {})
           => /\ spoiled \subseteq spoiled' /\ r'.on = r.on /\ r'.last = r.last
              /\ ans.skip => r'.num = r.num + 1 /\ ~r'.confirmed /\ ~r'.waiting
              /\ ~ans.skip => /\ r'.num = r.num /\ r'.confirmed /\ r'.waiting /\ r'.open
                              /\ r'.pos = ans.off \/ (r.num \in spoiled' /\ r'.pos = 0)
<1> SUFFICES ASSUME NEW ans \in Answers, NEW got,
                    Seeks(r, r.num, ans, got), r' = ReaderConfirm(r, r.num, got),
                    Spoil(IF got # ans THEN {r.num} ELSE {})
             PROVE  /\ spoiled \subseteq spoiled' /\ r'.on = r.on /\ r'.last = r.last
                    /\ ans.skip => r'.num = r.num + 1 /\ ~r'.confirmed /\ ~r'.waiting
                    /\ ~ans.skip =>
                         /\ r'.num = r.num /\ r'.confirmed /\ r'.waiting /\ r'.open
                         /\ r'.pos = ans.off \/ (r.num \in spoiled' /\ r'.pos = 0)
  OBVIOUS
<1>1. r \in Reader /\ ans.off \in Nat /\ (ans.off > 0 => ~ans.skip)
  BY Types, AnswerOffsets
<1>2. spoiled \subseteq spoiled' /\ (got # ans => r.num \in spoiled')
  BY DEF Spoil
<1>3. CASE got = ans
  <2>1. /\ r'.on = r.on /\ r'.last = r.last
        /\ ans.skip => r'.num = r.num + 1 /\ ~r'.confirmed /\ ~r'.waiting
        /\ ~ans.skip => /\ r'.num = r.num /\ r'.confirmed
                        /\ r'.waiting /\ r'.open
                        /\ r'.pos = IF ans.off > 0 THEN ans.off ELSE r.pos
    BY <1>1, <1>3, ReaderConfirmFields
  <2>2. (IF ans.off > 0 THEN ans.off ELSE r.pos) = ans.off
    BY <1>1
  <2> QED
    BY <1>2, <2>1, <2>2
<1>4. CASE got # ans
  <2>1. got = From(0) /\ ~ans.skip
    BY <1>1, <1>4 DEF Seeks
  <2>2. got \in Answers /\ got.skip = FALSE /\ got.off = 0
    BY <2>1, AnswerFields
  <2>3. /\ r'.on = r.on /\ r'.last = r.last /\ r'.num = r.num /\ r'.confirmed
        /\ r'.waiting /\ r'.open /\ r'.pos = r.pos
    BY <1>1, <2>2, ReaderConfirmFields
  <2> QED
    BY <1>2, <1>4, <2>1, <2>3
<1> QED
  BY <1>3, <1>4

LEMMA RecvConfirmStep == IInv /\ IInv' /\ SafetyInv /\ RecvConfirm => SafetyInv'
<1> SUFFICES ASSUME IInv, IInv', SafetyInv, RecvConfirm
             PROVE  SafetyInv'
  OBVIOUS
<1>1. /\ toR # << >> /\ Popped(toR, toR') /\ toR[1].type = "confirm" /\ Head(toR) = toR[1]
      /\ toR[1] \in ToReader
      /\ UNCHANGED <<upload, w, asked, toW, disk, first, consent, kept, untold, stale, events>>
  BY Received DEF RecvConfirm
<1>2. /\ first' = first /\ upload' = upload /\ asked' = asked /\ events' = events /\ disk' = disk
      /\ consent' = consent /\ kept' = kept /\ untold' = untold /\ stale' = stale
      /\ w' = w /\ toW' = toW
  BY <1>1
<1>3. 1 \in 1 .. Len(toR)
  BY <1>1 DEF Popped
<1>4. /\ Directions' /\ SendFirst' /\ ~(Ctl.on /\ Ctl.last)
      /\ \A i \in 1 .. Len(toW) : toW[i].type # "receive"
      /\ \A types : InR(types)' => InR(types)
      /\ r.on => /\ Pending /\ toR[1].file = r.num /\ toW = << >> /\ asked = {}
                 /\ \A i \in 1 .. Len(toR') : toR'[i].type \notin {"ask", "confirm"}
  BY <1>1, <1>2, ReaderPops
<1>5. CASE ~r.on
  <2>1. ~r'.on /\ spoiled' = spoiled
    BY <1>5 DEF RecvConfirm
  <2>2. asked = {}
    BY <1>5 DEF SafetyInv, Question, DialogOpen, Pending
  <2> QED
    BY <1>1, <1>2, <1>5, <2>1, <2>2, ReaderGone DEF SafetyInv, history
<1>6. CASE r.on
  <2>1. PICK n, ans : n = r.num /\ ans = toR[1].ans
    OBVIOUS
  <2>2. /\ ans \in Answers /\ ans.off \in Nat
        /\ n \in (IF ans.skip THEN kept ELSE consent)
        /\ upload => ans = From(0)
    BY <1>1, <1>3, <1>4, <1>6, <2>1, ReaderFields
       DEF SafetyInv, Agreed, Question, Directions
  <2>3. /\ r.waiting /\ ~r.confirmed /\ r.open /\ r.pos = 0 /\ n \in Files
        /\ r \in Reader /\ n \in Nat /\ n <= NumFiles + first /\ n < NumFiles
    BY <1>4, <1>6, <2>1, Types, Numbers DEF SafetyInv, ReaderAt, Pending
  <2>4. PICK got : /\ Seeks(r, r.num, ans, got) /\ r' = ReaderConfirm(r, r.num, got)
                   /\ Spoil(IF got # ans THEN {r.num} ELSE {})
    BY <1>1, <1>4, <1>6, <2>1 DEF RecvConfirm
  <2>5. /\ r'.on /\ r'.last = r.last /\ spoiled \subseteq spoiled'
        /\ ans.skip => r'.num = n + 1 /\ ~r'.confirmed /\ ~r'.waiting
        /\ ~ans.skip => r'.num = n /\ r'.confirmed /\ r'.waiting /\ r'.open
                        /\ (r'.pos = ans.off \/ (n \in spoiled' /\ r'.pos = 0))
    BY <1>6, <2>1, <2>2, <2>3, <2>4, ReaderConfirms
  <2>6. toW = << >> /\ toW' = << >> /\ Len(toW') = 0
    BY <1>2, <1>4, <1>6, EmptyFacts
  <2>7. QueueW'
    BY <2>6, QueueEmpty
  <2>8. ReaderAt'
    BY <1>2, <2>2, <2>3, <2>5, <2>6, Types, Numbers DEF ReaderAt
  <2>9. Question'
    BY <1>2, <1>4, <1>6, <2>6 DEF Question, DigestOpen, AnswerOpen, DialogOpen
  <2>10. Beginning'
    <3>1. BeforeDir'
      BY <1>2, <1>6, <2>6 DEF SafetyInv, Beginning, BeforeDir
    <3> QED
      BY <1>2, <1>4, <1>6, <2>5, <2>6, <3>1 DEF Beginning, ReceiveFirst, BeforeResume, Ctl
  <2>11. WriterAt'
    <3> SUFFICES ASSUME w.on
                 PROVE  Before0'
      BY <1>2, <2>5, <2>6 DEF SafetyInv, WriterAt, Strays
    <3>0. ~ans.skip /\ At(n, Cap(n, ans.off))' => At(r.num, Cap(r.num, r.pos))'
      <4>1. CASE r'.pos = ans.off
        BY <2>5, <4>1
      <4>2. CASE n \in spoiled'
        BY <2>5, <4>2 DEF At
      <4> QED
        BY <2>5, <4>1, <4>2
    <3>1. Before0
      BY <1>6, <2>6 DEF SafetyInv, WriterAt
    <3>2. CASE upload
      <4>1. Between(n) /\ ans.off = 0 /\ ans.skip = FALSE
        BY <2>1, <2>2, <2>3, <3>1, <3>2, AnswerFields DEF Before0
      <4>2. w.stream # NoStream => w.num # n
        BY <2>3, <4>1, Types DEF Between
      <4>3. Between(n)'
        BY <1>2, <2>5, <4>1, BetweenKept
      <4>4. Cap(n, 0) = 0
        BY <2>3, Numbers DEF Cap
      <4>5. At(n, Cap(n, ans.off))'
        BY <1>2, <4>1, <4>2, <4>3, <4>4 DEF At, Cap
      <4> QED
        BY <1>4, <1>6, <2>5, <3>0, <4>1, <4>5 DEF Before0, InR
    <3>3. CASE ~upload
      <4>1. /\ ans.skip => Between(n + 1)
            /\ ~ans.skip => At(n, Cap(n, ans.off))
        BY <1>1, <1>3, <2>1, <3>1, <3>3 DEF Before0
      <4>2. /\ ans.skip => Between(n + 1)'
            /\ ~ans.skip => At(n, Cap(n, ans.off))'
        BY <1>2, <2>5, <4>1, BetweenKept DEF Cap
      <4> QED
        BY <1>4, <1>6, <2>5, <3>0, <4>2 DEF Before0, InR
    <3> QED
      BY <3>2, <3>3
  <2>12. Parts'
    BY <1>2, <1>4, <1>6, <2>5, PrefixesKept DEF SafetyInv, Parts, InW, Ctl
  <2>13. Agreed'
    BY <1>1, <1>2, <2>2, <2>5 DEF SafetyInv, Agreed, Popped
  <2>14. Delivered'
    <3>1. "done" \notin events /\ ~InR({"done"}) /\ ~InW({"error"})
      BY <1>6, <2>6, EmptyFacts DEF SafetyInv, Delivered, InW
    <3>2. \A f : Settled(f) => Settled(f)'
      BY <1>2, <2>5, SettledKept
    <3>3. ASSUME w.on, NEW f \in first .. NumFiles - 1, f < r'.num
          PROVE  Settled(f)' \/ (w.stream = f)
      <4>1. CASE f < n
        BY <1>6, <2>1, <2>6, <3>1, <3>2, <3>3, <4>1, EmptyFacts DEF SafetyInv, Delivered, Passed
      <4>2. CASE ~(f < n)
        <5>1. ans.skip /\ f = n
          BY <2>3, <2>5, <3>3, <4>2, Types, Numbers
        <5> QED
          BY <1>2, <2>2, <5>1 DEF Settled
      <4> QED
        BY <4>1, <4>2
    <3> QED
      BY <1>2, <1>4, <1>6, <2>5, <3>1, <3>3 DEF SafetyInv, Delivered, DoneDelivers, Passed
  <2> QED
    BY <1>4, <2>7, <2>8, <2>9, <2>10, <2>11, <2>12, <2>13, <2>14 DEF SafetyInv
<1> QED
  BY <1>5, <1>6

\* The file of the digest that came back is resumed, or the remembered answer is given.
LEMMA AskAnswered ==
  ASSUME IInv, IInv', SafetyInv, upload, r.on, toR # << >>, Popped(toR, toR'),
         toR[1].type = "ask", toR[1] \in ToReader,
         UNCHANGED <<upload, w, asked, disk, first, untold, stale, events>>
  PROVE  \A ans \in Answers : \A got :
           /\ Seeks(r, r.num, ans, got) /\ r' = ReaderConfirm(r, r.num, got)
           /\ Spoil(IF got # ans THEN {r.num} ELSE {})
           /\ SendW(Ans(r.num, ans)) /\ Decide(r.num, ans)
           /\ ans.off \in {0, toR[1].off}
           => SafetyInv'
<1> SUFFICES ASSUME NEW ans \in Answers, NEW got, Seeks(r, r.num, ans, got),
                    r' = ReaderConfirm(r, r.num, got),
                    Spoil(IF got # ans THEN {r.num} ELSE {}),
                    SendW(Ans(r.num, ans)), Decide(r.num, ans), ans.off \in {0, toR[1].off}
             PROVE  SafetyInv'
  OBVIOUS
<1>1. 1 \in 1 .. Len(toR)
  BY DEF Popped
<1>2. /\ Directions' /\ SendFirst' /\ ~(Ctl.on /\ Ctl.last)
      /\ \A types : InR(types)' => InR(types)
      /\ Pending /\ toR[1].file = r.num /\ toW = << >> /\ asked = {}
      /\ \A i \in 1 .. Len(toR') : toR'[i].type \notin {"ask", "confirm"}
  BY ReaderPops
<1>3. PICK n, m : n = r.num /\ m = Ans(r.num, ans)
  OBVIOUS
<1>4. /\ r.waiting /\ ~r.confirmed /\ r.open /\ r.pos = 0 /\ n \in Files
      /\ r \in Reader /\ n \in Nat /\ n <= NumFiles + first /\ n < NumFiles
  BY <1>2, <1>3, Types, Numbers DEF SafetyInv, ReaderAt, Pending
<1>5. /\ m \in ToWriter /\ m.type = "confirm" /\ m.file = n /\ m.ans = ans
  BY <1>3, <1>4, AnsFields
<1>6. ans.off \in Nat /\ Size[n] \in Nat
  BY <1>4, AnswerOffsets, Numbers
<1>7. toW' = << m >> /\ toW' # << >> /\ Len(toW') = 1 /\ toW'[1] = m
  <2>1. Pushed(toW, toW', m)
    BY <1>3, <1>5, Sent
  <2> QED
    BY <1>2, <2>1, PushedFirst
<1>8. \A i \in 1 .. Len(toW') : i = 1 /\ toW'[i] = m
  BY <1>7
<1>9. /\ r'.on /\ r'.last = r.last /\ spoiled \subseteq spoiled'
      /\ ans.skip => r'.num = n + 1 /\ ~r'.confirmed /\ ~r'.waiting
      /\ ~ans.skip => r'.num = n /\ r'.confirmed /\ r'.waiting /\ r'.open
                      /\ (r'.pos = ans.off \/ (n \in spoiled' /\ r'.pos = 0))
  BY <1>3, <1>4, ReaderConfirms
<1>10. /\ consent \subseteq consent' /\ kept \subseteq kept'
       /\ ans.skip => n \in kept'
       /\ ~ans.skip => n \in consent'
  BY <1>3 DEF Decide
<1>11. QueueW'
  BY <1>5, <1>6, <1>7, QueueOne DEF WellFormed
<1>12. ReaderAt'
  <2>1. (Cap(n, 0))' = 0 /\ \A k : (Cap(n, k))' = Cap(n, k)
    BY <1>6 DEF Cap
  <2>2. ~ans.skip => Midway(m, r.num, Cap(r.num, r.pos))'
    BY <1>5, <1>6, <1>9, <2>1 DEF Midway, Cap
  <2>3. ans.skip => Boundary(m, n + 1)'
    BY <1>5 DEF Boundary
  <2> QED
    BY <1>4, <1>7, <1>9, <2>2, <2>3, Types, Numbers DEF ReaderAt
<1>13. Question'
  BY <1>2, <1>5, <1>8 DEF Question, DigestOpen, AnswerOpen, DialogOpen
<1>14. Beginning'
  BY <1>2, <1>5, <1>8, <1>9
     DEF SafetyInv, Beginning, ReceiveFirst, BeforeResume, BeforeDir, Ctl
<1>15. WriterAt'
  <2> SUFFICES ASSUME w.on
               PROVE  Before1(m)'
    BY <1>7, <1>9 DEF SafetyInv, WriterAt, Strays
  <2>1. Between(n) /\ Fits(n, ans.off)
    <3>1. Before0
      BY <1>2 DEF SafetyInv, WriterAt
    <3>2. Between(n) /\ Fits(n, toR[1].off)
      BY <1>1, <1>3, <1>4, <3>1 DEF Before0
    <3> QED
      <4>1. CASE ans.off = 0
        BY <3>2, <4>1 DEF Fits
      <4>2. CASE ans.off = toR[1].off
        BY <3>2, <4>2
      <4> QED
        BY <4>1, <4>2
  <2>2. Between(n)' /\ Fits(n, ans.off)'
    BY <1>9, <1>10, <2>1, BetweenKept, FitsKept
  <2> QED
    BY <1>5, <2>2 DEF Before1
<1>16. Parts'
  <2>1. ~InW({"receive"})'
    BY <1>5, <1>8 DEF InW
  <2> QED
    BY <1>2, <1>9, <2>1, PrefixesKept DEF SafetyInv, Parts, Ctl
<1>17. Agreed'
  BY <1>2, <1>5, <1>8, <1>9, <1>10 DEF SafetyInv, Agreed
<1>18. Delivered'
  <2>1. "done" \notin events /\ ~InR({"done"}) /\ ~InW({"error"})
    BY <1>2, EmptyFacts DEF SafetyInv, Delivered, InW, Pending
  <2>2. \A f : Settled(f) => Settled(f)'
    BY <1>9, <1>10, SettledKept
  <2>3. ASSUME w.on, NEW f \in first .. NumFiles - 1, f < r'.num
        PROVE  Settled(f)' \/ (w.stream = f)
    <3>1. CASE f < n
      BY <1>2, <1>3, <2>1, <2>2, <2>3, <3>1, EmptyFacts DEF SafetyInv, Delivered, Passed
    <3>2. CASE ~(f < n)
      <4>1. ans.skip /\ f = n
        BY <1>4, <1>9, <2>3, <3>2, Types, Numbers
      <4> QED
        BY <1>10, <4>1 DEF Settled
    <3> QED
      BY <3>1, <3>2
  <2> QED
    BY <1>2, <1>9, <2>1, <2>3 DEF SafetyInv, Delivered, DoneDelivers, Passed
<1> QED
  BY <1>2, <1>11, <1>12, <1>13, <1>14, <1>15, <1>16, <1>17, <1>18 DEF SafetyInv

\* The question stays with the user, or with nobody.
LEMMA QuestionStays ==
  ASSUME IInv, IInv', SafetyInv, Pending, toW' = << >>, asked' \in {{}, {r.num}},
         ~upload => w.on, w.on => Between(r.num),
         events' \in {events, events \union {"unanswered"}},
         UNCHANGED <<upload, r, w, disk, history>>, toR' = toR \/ Popped(toR, toR'),
         \A i \in 1 .. Len(toW) : toW[i].type = "digest",
         \A i \in 1 .. Len(toR') : toR'[i].type \notin {"ask", "confirm"}
  PROVE  SafetyInv'
<1>1. /\ first' = first /\ upload' = upload /\ disk' = disk
      /\ consent' = consent /\ kept' = kept /\ untold' = untold /\ stale' = stale
      /\ spoiled' = spoiled /\ w' = w /\ r' = r
  BY DEF history
<1>2. r.on /\ ~r.confirmed
  BY DEF Pending
<1>3. \A i \in 1 .. Len(toR') :
        \E j \in 1 .. Len(toR) : toR'[i] = toR[j]
  BY DEF Popped
<1>4. \A types : InR(types)' => InR(types)
  BY <1>3 DEF InR
<1>5. QueueW' /\ ReaderAt'
  BY <1>1, QueueEmpty, ReaderAtKept DEF SafetyInv
<1>7. Question'
  <2>1. DigestOpen' /\ AnswerOpen'
    BY EmptyFacts DEF DigestOpen, AnswerOpen
  <2>2. DialogOpen'
    BY <1>1 DEF DialogOpen, Pending
  <2>3. Directions'
    BY <1>1, <1>3 DEF SafetyInv, Question, Directions
  <2> QED
    BY <2>1, <2>2, <2>3 DEF Question
<1>8. Beginning'
  <2>1. \A i \in 1 .. Len(toR) : toR[i].type # "send"
    BY <1>2 DEF SafetyInv, Beginning, SendFirst
  <2>2. SendFirst' /\ ReceiveFirst'
    BY <1>3, <2>1, EmptyFacts DEF SendFirst, ReceiveFirst
  <2>3. ~(Ctl.on /\ Ctl.last)
    BY <1>2 DEF SafetyInv, Beginning, BeforeResume, Ctl, Peer, Pending
  <2>4. w.on => w.files
    BY <1>2, EmptyFacts, Types DEF SafetyInv, Beginning, BeforeDir
  <2> QED
    BY <1>1, <2>2, <2>3, <2>4 DEF Beginning, BeforeResume, BeforeDir, Ctl
<1>9. WriterAt'
  <2>1. PICK n : n = r.num
    OBVIOUS
  <2>2. w.on => Between(n)'
    BY <1>1, <2>1, BetweenKept
  <2> QED
    BY <1>1, <1>2, <2>1, <2>2 DEF SafetyInv, WriterAt, Before0, Strays
<1>10. Parts'
  <2>1. ~InW({"receive"})'
    BY EmptyFacts DEF InW
  <2> QED
    BY <1>1, <2>1, PrefixesKept DEF SafetyInv, Parts
<1>11. Agreed'
  BY <1>1, <1>3, EmptyFacts DEF SafetyInv, Agreed
<1>12. Delivered'
  <2>1. "done" \notin events /\ ~InR({"done"}) /\ ~InW({"error"})
    BY <1>2 DEF SafetyInv, Delivered, InW
  <2>2. \A f : Settled(f) => Settled(f)'
    BY <1>1, SettledKept
  <2>3. \A f \in first .. NumFiles - 1 : w.on /\ f < r.num => Settled(f)' \/ (w.stream = f)
    BY <1>2, <2>1, <2>2 DEF SafetyInv, Delivered, Passed
  <2>4. "done" \notin events'
    BY <2>1
  <2>5. ~InW({"done"})'
    BY EmptyFacts DEF InW
  <2>6. ~upload => w'.on
    BY <1>1
  <2> QED
    BY <1>1, <1>2, <1>4, <2>1, <2>3, <2>4, <2>5, <2>6
       DEF SafetyInv, Delivered, DoneDelivers, Passed
<1> QED
  BY <1>5, <1>7, <1>8, <1>9, <1>10, <1>11, <1>12 DEF SafetyInv

LEMMA RecvAskStep == IInv /\ IInv' /\ SafetyInv /\ RecvAsk => SafetyInv'
<1> SUFFICES ASSUME IInv, IInv', SafetyInv, RecvAsk
             PROVE  SafetyInv'
  OBVIOUS
<1>1. /\ toR # << >> /\ Popped(toR, toR') /\ toR[1].type = "ask" /\ Head(toR) = toR[1]
      /\ toR[1] \in ToReader /\ 1 \in 1 .. Len(toR)
      /\ UNCHANGED <<upload, w, disk, first, untold, stale, events>>
  BY Received DEF RecvAsk, Popped
<1>2. upload
  BY <1>1 DEF SafetyInv, Question, Directions
<1>3. CASE ~r.on
  <2>1. UNCHANGED <<r, toW, asked, consent, kept, spoiled>>
    BY <1>3 DEF RecvAsk
  <2>2. asked = {}
    BY <1>3 DEF SafetyInv, Question, DialogOpen, Pending
  <2> QED
    BY <1>1, <1>2, <1>3, <2>1, <2>2, ReaderGone DEF SafetyInv, history
<1>4. CASE r.on
  <2>1. /\ Pending /\ toR[1].file = r.num /\ toW = << >> /\ asked = {}
        /\ \A i \in 1 .. Len(toR') : toR'[i].type \notin {"ask", "confirm"}
    BY <1>1, <1>4, ReaderPops
  <2> DEFINE off == IF r.resume THEN toR[1].off ELSE 0
             ans == IF off > 0 THEN From(off) ELSE IF strategy = "yes" THEN From(0) ELSE Skip
  <2>2. CASE off > 0 \/ strategy # "ask"
    <3>1. PICK got : /\ Seeks(r, r.num, ans, got) /\ r' = ReaderConfirm(r, r.num, got)
                     /\ Spoil(IF got # ans THEN {r.num} ELSE {})
                     /\ SendW(Ans(r.num, ans)) /\ Decide(r.num, ans) /\ UNCHANGED asked
      BY <1>1, <1>4, <2>1, <2>2 DEF RecvAsk
    <3>2. ans \in Answers /\ ans.off \in {0, toR[1].off}
      BY <1>1, AnswerFields, ReaderFields
    <3> QED
      BY <1>1, <1>2, <1>4, <3>1, <3>2, AskAnswered
  <2>3. CASE ~(off > 0 \/ strategy # "ask")
    <3>1. asked' = {r.num} /\ UNCHANGED <<r, toW, consent, kept, spoiled>>
      BY <1>1, <1>4, <2>1, <2>3 DEF RecvAsk
    <3>2. \A i \in 1 .. Len(toW) : toW[i].type = "digest"
      BY <2>1, EmptyFacts
    <3>3. w.on => Between(r.num)
      BY <1>2, <2>1 DEF SafetyInv, WriterAt, Before0, Pending
    <3> QED
      BY <1>1, <1>2, <2>1, <3>1, <3>2, <3>3, QuestionStays DEF history
  <2> QED
    BY <2>2, <2>3
<1> QED
  BY <1>3, <1>4

-----------------------------------------------------------------------------
(* The messages to the writing end                                         *)

\* The first message to the writing end is taken.
LEMMA WriterPops ==
  ASSUME IInv, IInv', SafetyInv, toW # << >>, Popped(toW, toW'), UNCHANGED <<upload, r, first>>,
         spoiled \subseteq spoiled'
  PROVE  /\ QueueW' /\ ReaderAt' /\ 1 \in 1 .. Len(toW)
         /\ ~(Ctl.on /\ Ctl.last) /\ asked = {} /\ "done" \notin events /\ ~InR({"done"})
         /\ \A i \in 1 .. Len(toW') :
              i + 1 \in 1 .. Len(toW) /\ i + 1 # 1 /\ toW'[i] = toW[i + 1]
         /\ \A i \in 1 .. Len(toW') : toW'[i].type # "receive"
         /\ \A types : InW(types)' => InW(types)
         /\ \A types : InW(types) => InW(types)' \/ toW[1].type \in types
         /\ \A i \in 1 .. Len(toR) :
              toR[i].type # "send" /\ (r.on => toR[i].type \notin {"ask", "confirm"})
         /\ toW[1].type = "done" => toW' = << >> /\ ~r.on
<1>1. /\ Len(toW) \in Nat \ {0} /\ 1 \in 1 .. Len(toW)
      /\ \A i \in 1 .. Len(toW') :
           i + 1 \in 1 .. Len(toW) /\ i + 1 # 1 /\ toW'[i] = toW[i + 1]
  BY Types DEF Popped
<1>2. QueueW' /\ ReaderAt'
  BY QueuePopped, ReaderAtKept DEF SafetyInv
<1>3. ~(Ctl.on /\ Ctl.last) /\ asked = {} /\ "done" \notin events /\ ~InR({"done"})
  BY DEF SafetyInv, Question, DialogOpen, Beginning, BeforeResume, Delivered
<1>4. \A i \in 1 .. Len(toW') : toW'[i].type # "receive"
  BY <1>1 DEF SafetyInv, Beginning, ReceiveFirst
<1>5. \A types : InW(types)' => InW(types)
  BY AfterPop
<1>6. \A types : InW(types) => InW(types)' \/ toW[1].type \in types
  <2> SUFFICES ASSUME NEW types, NEW i \in 1 .. Len(toW), toW[i].type \in types, i # 1
               PROVE  InW(types)'
    BY DEF InW
  <2>1. i - 1 \in 1 .. Len(toW') /\ toW'[i - 1] = toW[i]
    BY <1>1 DEF Popped
  <2> QED
    BY <2>1 DEF InW
<1>7. \A i \in 1 .. Len(toR) :
        toR[i].type # "send" /\ (r.on => toR[i].type \notin {"ask", "confirm"})
  BY DEF SafetyInv, Question, AnswerOpen, Beginning, SendFirst
<1>8. ASSUME toW[1].type = "done"
      PROVE  toW' = << >> /\ ~r.on
  <2>1. Len(toW) = 1 /\ ~r.on
    BY <1>1, <1>8 DEF SafetyInv, QueueW
  <2>2. Len(toW') = 0
    BY <2>1 DEF Popped
  <2> QED
    BY <2>1, <2>2, EmptyFacts, TypesAfter
<1> QED
  BY <1>1, <1>2, <1>3, <1>4, <1>5, <1>6, <1>7, <1>8

\* What the message that was taken leaves to the next one, or to the reader
LEMMA WriterNext ==
  ASSUME IInv, IInv', SafetyInv, toW # << >>, Popped(toW, toW'), UNCHANGED <<upload, r, first>>,
         \A n \in Nat : Boundary(toW[1], n) => Between(n)',
         \A f \in Files, k \in Nat : Midway(toW[1], f, k) => At(f, k)'
  PROVE  /\ \A x : toW' # << >> /\ x = toW'[1] => Before1(x)'
         /\ \A n, k : toW' = << >> /\ r.on /\ n = r.num /\ k = Cap(r.num, r.pos) =>
              (r.confirmed => At(n, k)') /\ (~r.waiting => Between(n)')
<1>1. ASSUME NEW x, toW' # << >>, x = toW'[1]
      PROVE  Before1(x)'
  <2>1. 2 \in 1 .. Len(toW) /\ x = toW[2] /\ x \in ToWriter /\ toW[2 - 1] = toW[1]
        /\ 2 \in 2 .. Len(toW)
    <3>1. Len(toW') \in Nat /\ Len(toW') # 0
      BY <1>1, TypesAfter, EmptyFacts
    <3>2. 1 \in 1 .. Len(toW')
      BY <3>1
    <3>3. 1 + 1 \in 1 .. Len(toW) /\ toW'[1] = toW[1 + 1]
      BY <3>2 DEF Popped
    <3> QED
      BY <1>1, <3>3, Types
  <2>2. Linked(toW[1], x) /\ WellFormed(x)
    <3>1. Linked(toW[2 - 1], toW[2]) /\ WellFormed(toW[2])
      BY <2>1 DEF SafetyInv, QueueW
    <3> QED
      BY <2>1, <3>1
  <2>3. x.type \in {"block", "digest", "done"} => x.file \in Nat
        /\ (x.type # "done" => x.file \in Files)
    BY <2>1, WriterFields
  <2>4. x.type = "block" => At(x.file, Before(x))'
    <3>1. x.type = "block" => Before(x) \in Nat
      BY <2>2, <2>3, Numbers DEF WellFormed, Before
    <3>2. Before(x)' = Before(x)
      BY DEF Before
    <3> QED
      BY <2>2, <2>3, <3>1, <3>2 DEF Linked
  <2>5. x.type = "digest" => Between(x.file)'
    BY <2>2, <2>3 DEF Linked
  <2>6. x.type = "done" => \E n \in NumFiles .. NumFiles + first' : Between(n)'
    <3> SUFFICES ASSUME x.type = "done"
                 PROVE  \E n \in NumFiles .. NumFiles + first' : Between(n)'
      OBVIOUS
    <3>1. PICK n \in NumFiles .. NumFiles + first : Boundary(toW[1], n)
      BY <2>2 DEF Linked
    <3>2. n \in Nat
      BY Numbers, Types
    <3> QED
      BY <3>1, <3>2
  <2> QED
    BY <2>2, <2>4, <2>5, <2>6 DEF Before1, Linked
<1>2. ASSUME NEW n, NEW k, toW' = << >>, r.on, n = r.num, k = Cap(r.num, r.pos)
      PROVE  (r.confirmed => At(n, k)') /\ (~r.waiting => Between(n)')
  <2>1. toW[Len(toW)] = toW[1]
    <3>1. Len(toW) = 1
      BY <1>2, EmptyFacts DEF Popped
    <3> QED
      BY <3>1
  <2>2. /\ r.confirmed => Midway(toW[1], n, k)
        /\ ~r.waiting => Boundary(toW[1], n)
        /\ r.confirmed => r.waiting
        /\ r.waiting => r.num \in Files
    BY <1>2, <2>1 DEF SafetyInv, ReaderAt
  <2>3. r.confirmed => k \in Nat
    BY <1>2, <2>2, Types, Numbers DEF Cap
  <2> QED
    BY <1>2, <2>2, <2>3, Types
<1> QED
  BY <1>1, <1>2

\* A message that the writing end takes, and that opens no question
LEMMA WriterStays ==
  ASSUME IInv, IInv', SafetyInv, toW # << >>, Popped(toW, toW'), w.on, w'.on, w'.files,
         w'.last = w.last,
         toW[1].type \in {"dir", "confirm", "block"},
         UNCHANGED <<upload, r, asked, first, consent, kept, untold, stale, events>>,
         spoiled \subseteq spoiled',
         toR' = toR \/ (upload /\ \E e \in ToReader : e.type = "error" /\ Pushed(toR, toR', e)),
         \A n \in Nat : Boundary(toW[1], n) => Between(n)',
         \A f \in Files, k \in Nat : Midway(toW[1], f, k) => At(f, k)',
         PartsArePrefixes', Strays',
         \A f \in Files : disk'[f].part # NoFile => f \in stale \union spoiled' \/ w'.stream = f,
         w'.stream # NoStream => {w'.num, w'.stream} \subseteq consent,
         \A f \in Files : Settled(f) \/ w.stream = f => Settled(f)' \/ w'.stream = f,
         toW[1].type = "block" => w'.stream = toW[1].file \/ toW[1].file \in spoiled'
  PROVE  SafetyInv'
<1>1. /\ QueueW' /\ ReaderAt' /\ 1 \in 1 .. Len(toW)
      /\ ~(Ctl.on /\ Ctl.last) /\ asked = {} /\ "done" \notin events /\ ~InR({"done"})
      /\ \A i \in 1 .. Len(toW') :
           i + 1 \in 1 .. Len(toW) /\ i + 1 # 1 /\ toW'[i] = toW[i + 1]
      /\ \A i \in 1 .. Len(toW') : toW'[i].type # "receive"
      /\ \A types : InW(types)' => InW(types)
      /\ \A types : InW(types) => InW(types)' \/ toW[1].type \in types
      /\ \A i \in 1 .. Len(toR) :
           toR[i].type # "send" /\ (r.on => toR[i].type \notin {"ask", "confirm"})
  BY WriterPops
<1>2. \A i \in 1 .. Len(toR') :
        \/ i \in 1 .. Len(toR) /\ toR'[i] = toR[i]
        \/ toR'[i] \in ToReader /\ toR'[i].type = "error" /\ upload
  BY AfterPush
<1>4. Question'
  <2>1. DigestOpen'
    <3> SUFFICES ASSUME NEW i \in 1 .. Len(toW'), toW'[i].type = "digest"
                 PROVE  /\ r.on => Pending /\ toW'[i].file = r.num /\ i = Len(toW')
                        /\ ~upload => r.on
      BY DEF DigestOpen, Pending
    <3>1. i + 1 \in 1 .. Len(toW) /\ toW[i + 1].type = "digest" /\ toW'[i] = toW[i + 1]
      BY <1>1
    <3>2. /\ r.on => Pending /\ toW[i + 1].file = r.num /\ i + 1 = Len(toW)
          /\ ~upload => r.on
      BY <3>1 DEF SafetyInv, Question, DigestOpen
    <3> QED
      BY <3>1, <3>2 DEF Popped
  <2>2. AnswerOpen' /\ DialogOpen'
    BY <1>1, <1>2 DEF AnswerOpen, DialogOpen
  <2>3. Directions'
    BY <1>2 DEF SafetyInv, Question, Directions
  <2> QED
    BY <2>1, <2>2, <2>3 DEF Question
<1>5. Beginning'
  <2>1. SendFirst' /\ ReceiveFirst'
    BY <1>1, <1>2 DEF SendFirst, ReceiveFirst
  <2>2. upload => ~(r.on /\ r.last)
    BY <1>1 DEF Ctl
  <2>3. ~upload => ~w.last
    BY <1>1 DEF Ctl
  <2> QED
    BY <2>1, <2>2, <2>3 DEF Beginning, BeforeResume, BeforeDir, Ctl
<1>6. WriterAt'
  <2>1. /\ \A x : toW' # << >> /\ x = toW'[1] => Before1(x)'
        /\ \A n, k : toW' = << >> /\ r.on /\ n = r.num /\ k = Cap(r.num, r.pos) =>
             (r.confirmed => At(n, k)') /\ (~r.waiting => Between(n)')
    BY WriterNext
  <2>2. PICK x, n, k : x = toW'[1] /\ n = r.num /\ k = Cap(r.num, r.pos)
    OBVIOUS
  <2>3. toW' # << >> => Before1(x)'
    BY <2>1, <2>2
  <2>4. toW' = << >> /\ r.on => Before0'
    <3> SUFFICES ASSUME toW' = << >>, r.on
                 PROVE  Before0'
      OBVIOUS
    <3>1. ~Pending
      <4>1. Len(toW) = 1
        BY EmptyFacts DEF Popped
      <4> QED
        BY <4>1 DEF SafetyInv, ReaderAt, Pending
    <3>2. r.waiting => r.confirmed
      BY <3>1 DEF Pending
    <3>3. \A i \in 1 .. Len(toR') : toR'[i].type \notin {"ask", "confirm"}
      BY <1>1, <1>2
    <3>4. Cap(r.num, r.pos)' = Cap(r.num, r.pos)
      BY DEF Cap
    <3> QED
      BY <2>1, <2>2, <3>2, <3>3, <3>4 DEF Before0
  <2> QED
    BY <2>2, <2>3, <2>4 DEF WriterAt
<1>7. Parts'
  BY DEF Parts
<1>8. Agreed'
  <2>1. Agreed
    BY DEF SafetyInv
  <2>2. \A i \in 1 .. Len(toW') :
          /\ toW'[i].type = "block" => toW'[i].file \in consent
          /\ toW'[i].type = "confirm" =>
               toW'[i].file \in IF toW'[i].ans.skip THEN kept ELSE consent
    BY <1>1, <2>1 DEF Agreed
  <2>3. \A i \in 1 .. Len(toR') : toR'[i].type = "confirm" =>
          toR'[i].file \in IF toR'[i].ans.skip THEN kept ELSE consent
    BY <1>2, <2>1 DEF Agreed
  <2>4. /\ r.on /\ r.confirmed => r.num \in consent
        /\ untold \subseteq kept
    BY <2>1 DEF Agreed
  <2> QED
    BY <2>2, <2>3, <2>4 DEF Agreed
<1>9. Delivered'
  <2>1. ASSUME ~InW({"error"})', NEW f \in first .. NumFiles - 1, Passed(f)'
        PROVE  \/ Settled(f)'
               \/ \E i \in 1 .. Len(toW') : toW'[i].type = "block" /\ toW'[i].file = f
               \/ w'.stream = f
    <3>1. ~InW({"error"}) /\ Passed(f) /\ f \in Files
      <4>1. toW[1].type \notin {"error"}
        OBVIOUS
      <4>2. ~InW({"error"})
        BY <1>1, <2>1, <4>1
      <4>3. Passed(f)
        BY <1>1, <2>1 DEF Passed
      <4> QED
        BY <2>1, <4>2, <4>3, Types DEF Files
    <3>2. \/ Settled(f)
          \/ \E i \in 1 .. Len(toW) : toW[i].type = "block" /\ toW[i].file = f
          \/ w.stream = f
      BY <3>1 DEF SafetyInv, Delivered
    <3>3. CASE Settled(f)
      BY <3>1, <3>3
    <3>4. ASSUME NEW i \in 1 .. Len(toW), toW[i].type = "block", toW[i].file = f
          PROVE  \/ \E j \in 1 .. Len(toW') : toW'[j].type = "block" /\ toW'[j].file = f
                 \/ w'.stream = f
                 \/ Settled(f)'
      <4>1. CASE i = 1
        BY <3>4, <4>1 DEF Settled
      <4>2. CASE i # 1
        <5>1. i - 1 \in 1 .. Len(toW') /\ toW'[i - 1] = toW[i]
          BY <1>1, <4>2 DEF Popped
        <5> QED
          BY <3>4, <5>1
      <4> QED
        BY <4>1, <4>2
    <3>5. CASE w.stream = f
      BY <3>1, <3>5
    <3> QED
      BY <3>2, <3>3, <3>4, <3>5
  <2>2. ~InR({"done"})'
    BY <1>1, <1>2 DEF InR
  <2> QED
    BY <1>1, <2>1, <2>2 DEF Delivered, DoneDelivers
<1> QED
  BY <1>1, <1>4, <1>5, <1>6, <1>7, <1>8, <1>9 DEF SafetyInv

LEMMA DirTaken ==
  ASSUME IInv, IInv', SafetyInv, RecvDir, w'.on
  PROVE  SafetyInv'
<1>1. /\ toW # << >> /\ Popped(toW, toW') /\ toW[1].type = "dir" /\ w.on
      /\ UNCHANGED <<upload, r, asked, toR, disk, first, consent, kept, untold, stale, spoiled,
                     events>>
  BY Received, NoReaderFields DEF RecvDir, history
<1>2. /\ w'.on /\ w'.files /\ w'.last = w.last /\ w'.stream = w.stream /\ w'.num = w.num
  <2>1. w' = [w EXCEPT !.files = TRUE]
    BY <1>1, NoReaderFields DEF RecvDir
  <2> QED
    BY <2>1, Types DEF Writer
<1>3. Between(first)
  BY <1>1 DEF SafetyInv, WriterAt, Before1
<1>4. \A n : Between(n) => Between(n)'
  BY <1>1, <1>2, BetweenKept
<1>5. /\ \A n \in Nat : Boundary(toW[1], n) => Between(n)'
      /\ \A f \in Files, k \in Nat : ~Midway(toW[1], f, k)
  BY <1>1, <1>3, <1>4 DEF Boundary, Midway
<1>6. /\ PartsArePrefixes' /\ Strays'
      /\ \A f \in Files : disk'[f].part # NoFile =>
           f \in stale \union spoiled' \/ w'.stream = f
      /\ w'.stream # NoStream => {w'.num, w'.stream} \subseteq consent
  BY <1>1, <1>2, PrefixesKept DEF SafetyInv, Parts, Agreed, WriterAt, Strays
<1>7. \A f \in Files : Settled(f) \/ w.stream = f => Settled(f)' \/ w'.stream = f
  BY <1>1, <1>2, SettledKept
<1> QED
  BY <1>1, <1>2, <1>5, <1>6, <1>7, WriterStays

\* The list of files is refused: a download that has just begun is cancelled.
LEMMA DirRefused ==
  ASSUME IInv, IInv', SafetyInv, RecvDir, w.on, ~w'.on
  PROVE  SafetyInv'
<1>1. /\ toW # << >> /\ Popped(toW, toW') /\ w' = NoWriter /\ asked' = {} /\ SendR(Msg("cancel", 0))
      /\ toW[1].type = "dir"
      /\ UNCHANGED <<upload, r, disk, first, consent, kept, untold, stale, spoiled>>
      /\ events' = events \union {"error"}
  <2>1. w' # [w EXCEPT !.files = TRUE]
    BY Types DEF Writer
  <2>2. w' = NoWriter /\ asked' = {} /\ SendR(Msg("cancel", 0)) /\ events' = events \union {"error"}
    BY <2>1 DEF RecvDir
  <2>3. toW # << >> /\ Popped(toW, toW') /\ toW[1].type = "dir"
    BY Received DEF RecvDir
  <2>4. UNCHANGED <<upload, r, disk, first, consent, kept, untold, stale, spoiled>>
    BY DEF RecvDir, history
  <2> QED
    BY <2>2, <2>3, <2>4
<1> DEFINE m == Msg("cancel", 0)
<1>2. m \in ToReader /\ m.type = "cancel" /\ Pushed(toR, toR', m)
  BY <1>1, Sent DEF Msg, ToReader
<1> HIDE DEF m
<1>3. /\ QueueW' /\ ReaderAt'
      /\ ~(Ctl.on /\ Ctl.last) /\ asked = {} /\ "done" \notin events /\ ~InR({"done"})
      /\ \A i \in 1 .. Len(toW') :
           i + 1 \in 1 .. Len(toW) /\ i + 1 # 1 /\ toW'[i] = toW[i + 1]
      /\ \A i \in 1 .. Len(toW') : toW'[i].type # "receive"
      /\ \A i \in 1 .. Len(toR) :
           toR[i].type # "send" /\ (r.on => toR[i].type \notin {"ask", "confirm"})
  BY <1>1, WriterPops
<1>4. \A i \in 1 .. Len(toR') :
        (i \in 1 .. Len(toR) /\ toR'[i] = toR[i]) \/ toR'[i].type = "cancel"
  BY <1>2, AfterPush
<1>5. Question'
  <2>1. DigestOpen'
    <3> SUFFICES ASSUME NEW i \in 1 .. Len(toW'), toW'[i].type = "digest", r.on
                 PROVE  Pending /\ toW'[i].file = r.num /\ i = Len(toW')
      BY <1>1, NoReaderFields DEF DigestOpen, Pending
    <3>1. i + 1 \in 1 .. Len(toW) /\ toW[i + 1].type = "digest" /\ toW'[i] = toW[i + 1]
      BY <1>3
    <3>2. Pending /\ toW[i + 1].file = r.num /\ i + 1 = Len(toW)
      BY <3>1 DEF SafetyInv, Question, DigestOpen
    <3> QED
      BY <1>1, <3>1, <3>2 DEF Popped
  <2>2. AnswerOpen' /\ DialogOpen'
    BY <1>1, <1>3, <1>4 DEF AnswerOpen, DialogOpen
  <2>3. Directions'
    BY <1>1, <1>4, NoReaderFields DEF SafetyInv, Question, Directions
  <2> QED
    BY <2>1, <2>2, <2>3 DEF Question
<1>6. Beginning'
  <2>1. SendFirst' /\ ReceiveFirst'
    BY <1>3, <1>4 DEF SendFirst, ReceiveFirst
  <2> QED
    BY <1>1, <1>3, <2>1, NoReaderFields DEF Beginning, BeforeResume, BeforeDir, Ctl
<1>7. WriterAt'
  BY <1>1, NoReaderFields DEF WriterAt, Strays
<1>8. Parts'
  <2>1. ~(upload /\ r.on /\ r.last)
    BY <1>3 DEF Ctl
  <2> QED
    BY <1>1, <1>3, <2>1, PrefixesKept, NoReaderFields DEF SafetyInv, Parts, InW
<1>9. Agreed'
  <2>1. Agreed
    BY DEF SafetyInv
  <2>2. \A i \in 1 .. Len(toW') :
          /\ toW'[i].type = "block" => toW'[i].file \in consent
          /\ toW'[i].type = "confirm" =>
               toW'[i].file \in IF toW'[i].ans.skip THEN kept ELSE consent
    BY <1>3, <2>1 DEF Agreed
  <2>3. \A i \in 1 .. Len(toR') : toR'[i].type = "confirm" =>
          toR'[i].file \in IF toR'[i].ans.skip THEN kept ELSE consent
    BY <1>4, <2>1 DEF Agreed
  <2>4. w'.stream = NoStream /\ r' = r /\ consent' = consent /\ kept' = kept /\ untold' = untold
    BY <1>1, NoReaderFields
  <2> QED
    BY <2>1, <2>2, <2>3, <2>4 DEF Agreed
<1>10. Delivered'
  <2>1. ~InR({"done"})' /\ "done" \notin events' /\ "error" \in events'
    BY <1>1, <1>3, <1>4 DEF InR
  <2> QED
    BY <1>1, <2>1, NoReaderFields DEF Delivered, DoneDelivers
<1> QED
  BY <1>3, <1>5, <1>6, <1>7, <1>8, <1>9, <1>10 DEF SafetyInv

LEMMA ConfirmTaken ==
  ASSUME IInv, IInv', SafetyInv, RecvConfirmWrite, w.on
  PROVE  SafetyInv'
<1> DEFINE f == toW[1].file
           ans == toW[1].ans
<1>1. /\ toW # << >> /\ Popped(toW, toW') /\ toW[1].type = "confirm" /\ toW[1] \in ToWriter
      /\ Head(toW) = toW[1]
      /\ UNCHANGED <<upload, r, asked, toR, disk, first, consent, kept, untold, stale, events>>
  BY Received DEF RecvConfirmWrite
<1>2. /\ f \in Files /\ f \in Nat /\ ans \in Answers /\ ans.off \in Nat
  BY <1>1, WriterFields
<1>3. \E got : /\ Seeks(w, f, ans, got) /\ w' = Confirm(w, f, got)
               /\ Spoil(OffsetLost(f, ans, got))
  BY <1>1 DEF RecvConfirmWrite
<1>4. Between(f) /\ Fits(f, ans.off)
  BY <1>1 DEF SafetyInv, WriterAt, Before1
<1>5. \A i \in 1 .. Len(toW) : toW[i].type = "confirm" =>
        toW[i].file \in IF toW[i].ans.skip THEN kept ELSE consent
  BY DEF SafetyInv, Agreed
<1>6. ~ans.skip => f \in consent
  <2>1. 1 \in 1 .. Len(toW)
    BY WriterPops, <1>1
  <2> QED
    BY <1>1, <1>5, <2>1
<1>7. w.files
  BY <1>1 DEF SafetyInv, Beginning, BeforeDir
<1> HIDE DEF f, ans
<1>8. PICK g, a, got : /\ g = f /\ a = ans
                       /\ Seeks(w, g, a, got) /\ w' = Confirm(w, g, got)
                       /\ Spoil(OffsetLost(g, a, got))
  BY <1>3
<1>9. /\ a.skip => Between(g + 1)'
      /\ ~a.skip => At(g, Cap(g, a.off))'
      /\ Strays'
      /\ w.stream # NoStream => w' = w
      /\ w'.stream # NoStream => w' = w \/ (w'.num = g /\ w'.stream = g /\ ~a.skip)
      /\ (w'.on <=> w.on) /\ (w'.last <=> w.last) /\ (w'.files <=> w.files)
      /\ spoiled \subseteq spoiled'
  <2>1. PartsArePrefixes /\ Strays
    BY DEF SafetyInv, Parts, WriterAt
  <2>2. g \in Files /\ a \in Answers /\ Between(g) /\ Fits(g, a.off)
    BY <1>2, <1>4, <1>8
  <2> QED
    BY <1>1, <1>8, <2>1, <2>2, WriterConfirms
<1>10. w'.last = w.last /\ w'.on /\ w'.files
  <2>1. w'.last \in BOOLEAN /\ w.last \in BOOLEAN
    BY Types, TypesAfter DEF Writer
  <2> QED
    BY <1>7, <1>9, <2>1, Zenon
<1>11. /\ \A n \in Nat : Boundary(toW[1], n) => Between(n)'
       /\ \A x \in Files, k \in Nat : Midway(toW[1], x, k) => At(x, k)'
  <2>1. \A n : Boundary(toW[1], n) => a.skip /\ n = g + 1
    BY <1>1, <1>8 DEF Boundary, f, ans
  <2>2. \A x, k : Midway(toW[1], x, k) =>
          ~a.skip /\ x = g /\ (k = Cap(g, a.off) \/ g \in spoiled)
    BY <1>1, <1>8 DEF Midway, f, ans
  <2>3. g \in spoiled => \A k, n : At(g, n)' => At(g, k)'
    BY <1>9 DEF At
  <2> QED
    BY <1>9, <2>1, <2>2, <2>3
<1>12. /\ PartsArePrefixes'
       /\ \A x \in Files : disk'[x].part # NoFile =>
            x \in stale \union spoiled' \/ w'.stream = x
  BY <1>1, <1>9, PrefixesKept, StreamFacts DEF SafetyInv, Parts
<1>13. w'.stream # NoStream => {w'.num, w'.stream} \subseteq consent
  BY <1>6, <1>8, <1>9 DEF SafetyInv, Agreed
<1>14. \A x \in Files : Settled(x) \/ w.stream = x => Settled(x)' \/ w'.stream = x
  BY <1>1, <1>9, SettledKept, StreamFacts
<1> QED
  BY <1>1, <1>9, <1>10, <1>11, <1>12, <1>13, <1>14, WriterStays

\* What finishing the writer's file does to the files
LEMMA FinishedFields ==
  ASSUME IInv
  PROVE  \A f \in Files : \A ok :
           /\ f # w.num => Renamed(w, ok)[f] = disk[f]
           /\ Renamed(w, ok)[f].part # NoFile => Renamed(w, ok)[f].part = disk[f].part
           /\ HasFile(w) /\ f = w.num /\ f \notin Marred(w, ok) =>
                /\ Renamed(w, ok)[f].part = NoFile
                /\ disk[f].part # NoFile =>
                     Renamed(w, ok)[f].data = disk[f].part /\ Renamed(w, ok)[f].src
                /\ disk[f].part = NoFile => Renamed(w, ok)[f].data = disk[f].data
<1> SUFFICES ASSUME NEW f \in Files, NEW ok
             PROVE  /\ f # w.num => Renamed(w, ok)[f] = disk[f]
                    /\ Renamed(w, ok)[f].part # NoFile =>
                         Renamed(w, ok)[f].part = disk[f].part
                    /\ HasFile(w) /\ f = w.num /\ f \notin Marred(w, ok) =>
                         /\ Renamed(w, ok)[f].part = NoFile
                         /\ disk[f].part # NoFile =>
                              Renamed(w, ok)[f].data = disk[f].part /\ Renamed(w, ok)[f].src
                         /\ disk[f].part = NoFile => Renamed(w, ok)[f].data = disk[f].data
  OBVIOUS
<1>1. disk[f] \in FileOnDisk
  BY Types DEF Disk
<1>2. CASE HasFile(w) /\ f = w.num
  <2> DEFINE d == disk[f]
  <2>1. Renamed(w, ok)[f] = ModifyTime(d, ok)
    BY <1>2, RenamedFields
  <2>2. f \notin Marred(w, ok) => "rename" \in ok /\ "mtime" \in ok
    BY <1>2 DEF Marred
  <2>3. ModifyTime(d, ok).part # NoFile => ModifyTime(d, ok).part = d.part
    BY DEF ModifyTime
  <2>4. "rename" \in ok /\ "mtime" \in ok =>
          /\ ModifyTime(d, ok).part = NoFile
          /\ d.part # NoFile => ModifyTime(d, ok).data = d.part /\ ModifyTime(d, ok).src
          /\ d.part = NoFile => ModifyTime(d, ok).data = d.data
    BY DEF ModifyTime
  <2> HIDE DEF d
  <2>5. d = disk[f]
    BY DEF d
  <2> QED
    BY <1>2, <2>1, <2>2, <2>3, <2>4, <2>5
<1>3. CASE ~(HasFile(w) /\ f = w.num)
  <2>1. Renamed(w, ok)[f] = disk[f]
    BY <1>3, RenamedFields, Zenon
  <2> QED
    BY <1>3, <2>1
<1> QED
  BY <1>2, <1>3

\* Finishing the writer's file, when the file n is next, settles it: its `.download` is the
\* whole source, or the file was to be kept, or a call failed.
LEMMA FinishSettles ==
  ASSUME IInv, w.files, Strays, untold \subseteq kept, kept' = kept, spoiled \subseteq spoiled'
  PROVE  \A n, ok : \A x \in Files :
           /\ x # n /\ Between(n) /\ Marred(w, ok) \subseteq spoiled'
           /\ disk'[x].data = Renamed(w, ok)[x].data /\ disk'[x].src = Renamed(w, ok)[x].src
           /\ Settled(x) \/ w.stream = x
           => Settled(x)'
<1> SUFFICES ASSUME NEW n, NEW ok, NEW x \in Files, x # n, Between(n),
                    Marred(w, ok) \subseteq spoiled',
                    disk'[x].data = Renamed(w, ok)[x].data,
                    disk'[x].src = Renamed(w, ok)[x].src,
                    Settled(x) \/ w.stream = x, x \notin spoiled'
             PROVE  Settled(x)'
  BY DEF Settled
<1>1. CASE x # w.num
  <2>1. Renamed(w, ok)[x] = disk[x]
    BY <1>1, FinishedFields
  <2>2. Settled(x)
    BY <1>1, StreamFacts DEF Strays
  <2> QED
    BY <2>1, <2>2 DEF Settled, Whole, Source
<1>2. CASE x = w.num
  <2>1. HasFile(w) /\ x \notin Marred(w, ok) /\ x \notin spoiled
    BY <1>2, Numbers DEF HasFile
  <2>2. CASE w.stream # NoStream
    <3>1. disk[x].part = Source(x)
      BY <1>2, <2>1, <2>2 DEF Between
    <3>2. disk[x].part # NoFile
      BY <3>1, SourcePrefix, PrefixFacts, Numbers, NoFileAssumption
    <3>3. disk'[x].data = disk[x].part /\ disk'[x].src
      BY <1>2, <2>1, <3>2, FinishedFields
    <3> QED
      BY <3>1, <3>3 DEF Settled, Whole, Source
  <2>3. CASE w.stream = NoStream
    <3>1. x \in kept
      BY <1>2, <2>1, <2>3 DEF Between
    <3> QED
      BY <3>1 DEF Settled
  <2> QED
    BY <2>2, <2>3
<1> QED
  BY <1>1, <1>2

\* The contents are the same; the digest may be another.
Same(d, e) == d.data = e.data /\ d.src = e.src /\ d.part = e.part

\* Opening a file truncates it, and changes nothing else but digests.
LEMMA OpenedFields ==
  ASSUME IInv
  PROVE  \A f \in Files : \A ok : \A g \in Files :
           LET old == IF New(f) THEN Renamed(w, ok) ELSE disk
               d == Opened(f, ok)[g]
           IN IF New(f) /\ ~Unopened(f, ok) /\ g = f
              THEN d.data = old[g].data /\ d.src = old[g].src /\ d.part = << >>
              ELSE Same(d, old[g])
<1> SUFFICES ASSUME NEW f \in Files, NEW ok, NEW g \in Files
             PROVE  LET old == IF New(f) THEN Renamed(w, ok) ELSE disk
                        d == Opened(f, ok)[g]
                    IN IF New(f) /\ ~Unopened(f, ok) /\ g = f
                       THEN d.data = old[g].data /\ d.src = old[g].src /\ d.part = << >>
                       ELSE Same(d, old[g])
  OBVIOUS
<1> DEFINE n == Renamed(w, ok)
<1>1. n \in Disk
  BY Types, RenamedType
<1>2. n[f] \in FileOnDisk /\ DOMAIN n = Files
  BY <1>1 DEF Disk
<1> HIDE DEF n
<1>3. CASE ~New(f)
  BY <1>3 DEF Opened, Same
<1>4. CASE New(f) /\ ~Synced(ok)
  BY <1>4 DEF Opened, Unopened, Same, n
<1>5. CASE New(f) /\ Synced(ok) /\ ~Opens(ok)
  <2> DEFINE x == [n[f] EXCEPT !.dig = @ /\ "path" \notin ok]
  <2>1. Opened(f, ok) = [n EXCEPT ![f] = x]
    BY <1>2, <1>5 DEF Opened, n
  <2>2. Same(x, n[f])
    BY <1>2 DEF Same, FileOnDisk
  <2> HIDE DEF x
  <2> QED
    BY <1>2, <1>5, <2>1, <2>2 DEF Unopened, Same, n
<1>6. CASE New(f) /\ Synced(ok) /\ Opens(ok)
  <2> DEFINE x == [n[f] EXCEPT !.part = << >>, !.dig = "note" \in ok]
  <2>1. Opened(f, ok) = [n EXCEPT ![f] = x]
    BY <1>2, <1>6 DEF Opened, n, FileOnDisk
  <2>2. x.data = n[f].data /\ x.src = n[f].src /\ x.part = << >>
    BY <1>2 DEF FileOnDisk
  <2> HIDE DEF x
  <2> QED
    BY <1>2, <1>6, <2>1, <2>2 DEF Unopened, Same, n
<1> QED
  BY <1>3, <1>4, <1>5, <1>6

\* a is the disk `files` with data written through a handle of g.
AppendedTo(a, files, g, data) ==
  /\ \A h \in Files \ {g} : a[h] = files[h]
  /\ files[g].part # NoFile =>
       /\ a[g].data = files[g].data /\ a[g].src = files[g].src
       /\ a[g].part = files[g].part \o data
  /\ files[g].part = NoFile => a[g].part = NoFile

\* A block extends a `.download` that is there; its file's name is left alone.
LEMMA AppendedFields ==
  \A files \in Disk, g \in Files : \A data, a :
    a = Appended(files, g, data) => AppendedTo(a, files, g, data)
<1> SUFFICES ASSUME NEW files \in Disk, NEW g \in Files, NEW data, NEW a,
                    a = Appended(files, g, data)
             PROVE  AppendedTo(a, files, g, data)
  OBVIOUS
<1>1. files[g] \in FileOnDisk /\ DOMAIN files = Files
  BY DEF Disk
<1>2. CASE files[g].part # NoFile
  <2> DEFINE c == files[g].part \o data
             x == [files[g] EXCEPT !.part = c]
  <2>1. a = [files EXCEPT ![g] = x]
    BY <1>1, <1>2 DEF Appended
  <2> HIDE DEF c
  <2>2. x.data = files[g].data /\ x.src = files[g].src /\ x.part = c
    BY <1>1 DEF FileOnDisk
  <2> HIDE DEF x
  <2> QED
    BY <1>1, <1>2, <2>1, <2>2 DEF c, AppendedTo
<1>3. CASE files[g].part = NoFile
  <2> DEFINE c == files[g].data \o data
             s == files[g].src /\ data = << >>
             x == [files[g] EXCEPT !.data = c, !.src = s]
  <2>1. a = [files EXCEPT ![g] = x]
    BY <1>1, <1>3 DEF Appended, FileOnDisk
  <2> HIDE DEF c, s
  <2>2. x.part = NoFile
    BY <1>1, <1>3 DEF FileOnDisk
  <2> HIDE DEF x
  <2> QED
    BY <1>1, <1>3, <2>1, <2>2 DEF AppendedTo
<1> QED
  BY <1>2, <1>3

\* What a block of f does to the files
LEMMA WrittenFields ==
  ASSUME IInv
  PROVE  \A f \in Files, data \in Seq(Nat) : \A ok : \A x \in Files :
           LET d == Written(f, data, ok)[x]
               fails == Fails(f, data, ok)
           IN /\ New(f) /\ (x # f \/ Unopened(f, ok)) => Same(d, Renamed(w, ok)[x])
              /\ New(f) /\ ~Unopened(f, ok) /\ x = f =>
                   /\ d.data = Renamed(w, ok)[x].data /\ d.src = Renamed(w, ok)[x].src
                   /\ d.part = IF fails THEN << >> ELSE data
              /\ ~New(f) /\ x # w.stream => Same(d, disk[x])
              /\ ~New(f) /\ x = w.stream =>
                   IF disk[x].part = NoFile THEN d.part = NoFile
                   ELSE /\ d.data = disk[x].data /\ d.src = disk[x].src
                        /\ d.part = IF fails THEN disk[x].part ELSE disk[x].part \o data
<1> SUFFICES ASSUME NEW f \in Files, NEW data \in Seq(Nat), NEW ok, NEW x \in Files
             PROVE  LET d == Written(f, data, ok)[x]
                        fails == Fails(f, data, ok)
                    IN /\ New(f) /\ (x # f \/ Unopened(f, ok)) => Same(d, Renamed(w, ok)[x])
                       /\ New(f) /\ ~Unopened(f, ok) /\ x = f =>
                            /\ d.data = Renamed(w, ok)[x].data
                            /\ d.src = Renamed(w, ok)[x].src
                            /\ d.part = IF fails THEN << >> ELSE data
                       /\ ~New(f) /\ x # w.stream => Same(d, disk[x])
                       /\ ~New(f) /\ x = w.stream =>
                            IF disk[x].part = NoFile THEN d.part = NoFile
                            ELSE /\ d.data = disk[x].data /\ d.src = disk[x].src
                                 /\ d.part = IF fails THEN disk[x].part
                                             ELSE disk[x].part \o data
  OBVIOUS
<1> DEFINE old == IF New(f) THEN Renamed(w, ok) ELSE disk
           files == Opened(f, ok)
           h == IF New(f) THEN f ELSE w.stream
           d == Written(f, data, ok)[x]
<1>1. IF New(f) /\ ~Unopened(f, ok) /\ x = f
      THEN files[x].data = old[x].data /\ files[x].src = old[x].src /\ files[x].part = << >>
      ELSE Same(files[x], old[x])
  BY OpenedFields
<1>2. files \in Disk
  <2>1. PICK g : g = f
    OBVIOUS
  <2> QED
    BY OpenedType
<1>3. h \in Files
  BY Types DEF New, Writer
<1>4. ~New(f) => ~Unopened(f, ok)
  BY DEF Unopened
<1> HIDE DEF files
<1>5. CASE Fails(f, data, ok)
  <2>1. d = files[x]
    BY <1>5 DEF Written, files
  <2> HIDE DEF d
  <2>2. d = Written(f, data, ok)[x]
    BY DEF d
  <2> QED
    BY <1>1, <1>4, <1>5, <2>1, <2>2 DEF Same
<1>6. CASE ~Fails(f, data, ok)
  <2>1. ~Unopened(f, ok) /\ d = Appended(files, h, data)[x]
    BY <1>6 DEF Written, files, Fails
  <2> HIDE DEF h, d
  <2>2. /\ x # h => d = files[x]
        /\ x = h /\ files[x].part # NoFile =>
             d.data = files[x].data /\ d.src = files[x].src /\ d.part = files[x].part \o data
        /\ x = h /\ files[x].part = NoFile => d.part = NoFile
    <3>1. PICK F, g, a : F = files /\ g = h /\ a = Appended(F, g, data) /\ d = a[x]
      BY <2>1, Zenon
    <3>0. F \in Disk /\ g \in Files /\ a = Appended(F, g, data)
      BY <1>2, <1>3, <3>1, Zenon
    <3>2. AppendedTo(a, F, g, data)
      BY <3>0, AppendedFields, Zenon
    <3>3. d = a[x] /\ F[g] = files[h] /\ F[x] = files[x]
      BY <3>1, Zenon
    <3>4. x # g => d = F[x]
      BY <3>2, <3>3, Zenon DEF AppendedTo
    <3>5. x = g /\ F[g].part # NoFile =>
            d.data = F[x].data /\ d.src = F[x].src /\ d.part = F[x].part \o data
      BY <3>2, <3>3, Zenon DEF AppendedTo
    <3>6. x = g /\ F[g].part = NoFile => d.part = NoFile
      BY <3>2, <3>3, Zenon DEF AppendedTo
    <3>7. g = h
      BY <3>1
    <3> QED
      BY <3>3, <3>4, <3>5, <3>6, <3>7, Zenon
  <2>3. d = Written(f, data, ok)[x]
    BY DEF d
  <2>4. CASE New(f)
    <3>1. h = f
      BY <2>4 DEF h
    <3>2. << >> # NoFile /\ << >> \o data = data
      BY EmptyPrefix, PrefixFacts, NoFileAssumption
    <3> QED
      BY <1>1, <1>6, <2>1, <2>2, <2>3, <2>4, <3>1, <3>2 DEF Same
  <2>5. CASE ~New(f)
    <3>1. h = w.stream
      BY <2>5 DEF h
    <3> QED
      BY <1>1, <1>6, <2>1, <2>2, <2>3, <2>5, <3>1 DEF Same
  <2> QED
    BY <2>4, <2>5
<1> QED
  BY <1>5, <1>6

\* The first message is a block that the writing end makes something of.
Block(f, b, data, ok) ==
  /\ f \in Files /\ f \in consent /\ b \in Nat /\ w.on /\ w.files /\ At(f, b)
  /\ \/ data = << >> /\ b = Size[f]
     \/ data = << b + 1 >> /\ b + 1 <= Size[f]
  /\ w' = Moved(f, ok) /\ disk' = Written(f, data, ok) /\ Spoil(Spoils(f, data, ok))
  /\ UNCHANGED <<first, consent, kept, untold, stale>>

\* What it leaves to the next message
Leaves(f, data) ==
  /\ data = << >> => Between(f + 1)'
  /\ data # << >> => At(f, data[1])'
  /\ PartsArePrefixes' /\ Strays'
  /\ \A x \in Files : disk'[x].part # NoFile => x \in stale \union spoiled' \/ w'.stream = x
  /\ w'.stream # NoStream => {w'.num, w'.stream} \subseteq consent
  /\ \A x \in Files : Settled(x) \/ w.stream = x => Settled(x)' \/ w'.stream = x
  /\ w'.stream = f \/ f \in spoiled'

LEMMA BlockFields ==
  ASSUME IInv, SafetyInv
  PROVE  \A f, b, data, ok : Block(f, b, data, ok) =>
           /\ f \in Nat /\ f # NoStream /\ Size[f] \in Nat /\ data \in Seq(Nat)
           /\ PartsArePrefixes /\ Strays
           /\ \A x \in Files :
                disk[x].part # NoFile => x \in stale \union spoiled \/ w.stream = x
           /\ w.stream # NoStream => {w.num, w.stream} \subseteq consent
           /\ untold \subseteq kept
           /\ spoiled' = spoiled \union Spoils(f, data, ok)
           /\ New(f) => Between(f) /\ (f \in spoiled \/ b = 0) /\ Marred(w, ok) \subseteq spoiled'
           /\ Fails(f, data, ok) => f \in spoiled'
           /\ Unopened(f, ok) /\ w.stream # NoStream => w.stream \in spoiled'
<1> SUFFICES ASSUME NEW f, NEW b, NEW data, NEW ok, Block(f, b, data, ok)
             PROVE  /\ f \in Nat /\ f # NoStream /\ Size[f] \in Nat /\ data \in Seq(Nat)
                    /\ PartsArePrefixes /\ Strays
                    /\ \A x \in Files :
                         disk[x].part # NoFile => x \in stale \union spoiled \/ w.stream = x
                    /\ w.stream # NoStream => {w.num, w.stream} \subseteq consent
                    /\ untold \subseteq kept
                    /\ spoiled' = spoiled \union Spoils(f, data, ok)
                    /\ New(f) => /\ Between(f) /\ (f \in spoiled \/ b = 0)
                                 /\ Marred(w, ok) \subseteq spoiled'
                    /\ Fails(f, data, ok) => f \in spoiled'
                    /\ Unopened(f, ok) /\ w.stream # NoStream => w.stream \in spoiled'
  OBVIOUS
<1>1. f \in Files /\ b \in Nat /\ spoiled' = spoiled \union Spoils(f, data, ok)
  BY DEF Block, Spoil
<1>2. f \in Nat /\ f # NoStream /\ Size[f] \in Nat
  BY <1>1, Numbers, StreamFacts
<1>3. data \in Seq(Nat)
  <2>1. << >> \in Seq(Nat) /\ << b + 1 >> \in Seq(Nat)
    BY <1>1
  <2> QED
    BY <2>1 DEF Block
<1>4. /\ PartsArePrefixes /\ Strays /\ untold \subseteq kept
      /\ w.stream # NoStream => {w.num, w.stream} \subseteq consent
  BY DEF SafetyInv, Parts, WriterAt, Agreed
<1>5. \A x \in Files : disk[x].part # NoFile => x \in stale \union spoiled \/ w.stream = x
  BY DEF Block, SafetyInv, Parts
<1>6. New(f) => Between(f) /\ (f \in spoiled \/ b = 0)
  BY DEF Block, New, At
<1>7. /\ New(f) => Marred(w, ok) \subseteq spoiled'
      /\ Fails(f, data, ok) => f \in spoiled'
      /\ Unopened(f, ok) /\ w.stream # NoStream => w.stream \in spoiled'
  BY <1>1 DEF Spoils
<1> QED
  BY <1>1, <1>2, <1>3, <1>4, <1>5, <1>6, <1>7

\* A block of the file that is the writer's already.  It goes to that file, or to the one a
\* stray handle is of.
LEMMA BlockOfSame ==
  ASSUME IInv, IInv', SafetyInv
  PROVE  \A f, b, data, ok : Block(f, b, data, ok) /\ ~New(f) => Leaves(f, data)
<1> SUFFICES ASSUME NEW f, NEW b, NEW data, NEW ok, Block(f, b, data, ok), ~New(f)
             PROVE  Leaves(f, data)
  OBVIOUS
<1>1. /\ f \in Nat /\ f # NoStream /\ Size[f] \in Nat /\ data \in Seq(Nat)
      /\ PartsArePrefixes /\ Strays
      /\ \A x \in Files :
           disk[x].part # NoFile => x \in stale \union spoiled \/ w.stream = x
      /\ w.stream # NoStream => {w.num, w.stream} \subseteq consent
      /\ spoiled' = spoiled \union Spoils(f, data, ok)
      /\ Fails(f, data, ok) => f \in spoiled'
  BY BlockFields
<1>2. /\ f \in Files /\ b \in Nat /\ At(f, b) /\ w' = w /\ disk' = Written(f, data, ok)
      /\ (data = << >> /\ b = Size[f]) \/ (data = << b + 1 >> /\ b + 1 <= Size[f])
      /\ stale' = stale /\ consent' = consent /\ kept' = kept /\ untold' = untold
      /\ first' = first
  BY DEF Block, Moved
<1>3. w.num = f /\ w.stream # NoStream
  BY DEF New
<1>4. \A x \in Files :
        /\ x # w.stream => Same(disk'[x], disk[x])
        /\ x = w.stream =>
             IF disk[x].part = NoFile THEN disk'[x].part = NoFile
             ELSE /\ disk'[x].data = disk[x].data /\ disk'[x].src = disk[x].src
                  /\ disk'[x].part = IF Fails(f, data, ok) THEN disk[x].part
                                     ELSE disk[x].part \o data
  BY <1>1, <1>2, WrittenFields
<1>5. w.stream # f => {w.stream, f} \subseteq spoiled
  BY <1>1, <1>3 DEF Strays
<1>6. PICK k \in 0 .. Size[f] : k = IF data = << >> THEN Size[f] ELSE b + 1
  BY <1>1, <1>2
<1>7. f \in spoiled' \/ (w.stream = f /\ disk'[f].part = Prefix(k))
  <2> SUFFICES ASSUME f \notin spoiled'
               PROVE  w.stream = f /\ disk'[f].part = Prefix(k)
    OBVIOUS
  <2>1. w.stream = f /\ f \notin spoiled /\ ~Fails(f, data, ok)
    BY <1>1, <1>5
  <2>2. disk[f].part = Prefix(b)
    BY <1>2, <1>3, <2>1 DEF At
  <2>3. disk'[f].part = Prefix(b) \o data
    <3>1. disk[f].part # NoFile
      BY <1>2, <2>2, PrefixFacts, NoFileAssumption
    <3>2. disk'[f].part = IF Fails(f, data, ok) THEN disk[f].part ELSE disk[f].part \o data
      BY <1>2, <1>4, <2>1, <3>1
    <3>3. disk'[f].part = disk[f].part \o data
      BY <2>1, <3>2
    <3> QED
      BY <2>2, <3>3
  <2>4. Prefix(b) \o data = Prefix(k)
    <3>1. CASE data = << >>
      BY <1>2, <1>6, <3>1, EmptyPrefix, PrefixFacts
    <3>2. CASE data # << >>
      BY <1>2, <1>6, <3>2, PrefixAppend
    <3> QED
      BY <3>1, <3>2
  <2> QED
    BY <2>1, <2>3, <2>4
<1>8. data = << >> => Between(f + 1)'
  <2> SUFFICES ASSUME data = << >>
               PROVE  Between(f + 1)'
    OBVIOUS
  <2>1. f \in spoiled' \/ disk'[f].part = Source(f)
    BY <1>6, <1>7, SourcePrefix
  <2> QED
    BY <1>1, <1>2, <1>3, <2>1 DEF Between
<1>9. data # << >> => At(f, data[1])'
  <2>1. data # << >> => data[1] = k
    BY <1>2, <1>6
  <2> QED
    BY <1>2, <1>3, <1>7, <1>5, <1>1, <2>1 DEF At, Between
<1>10. Strays'
  BY <1>1, <1>2 DEF Strays
<1>11. PartsArePrefixes'
  <2> SUFFICES ASSUME NEW x \in Files \ spoiled', disk'[x].part # NoFile
               PROVE  /\ Len(disk'[x].part) <= Size[x]
                      /\ disk'[x].part = SubSeq(Source(x), 1, Len(disk'[x].part))
    BY DEF PartsArePrefixes, Source
  <2>1. CASE x = f
    <3>1. disk'[x].part = Prefix(k) /\ Len(Prefix(k)) = k
      BY <1>6, <1>7, <2>1, PrefixFacts
    <3>2. k \in Nat /\ k <= Size[f] /\ Source(x) = Prefix(Size[f])
      BY <1>1, <2>1, SourcePrefix
    <3>3. SubSeq(Source(x), 1, k) = Prefix(k)
      BY <1>1, <3>2, PrefixSub
    <3> QED
      BY <2>1, <3>1, <3>2, <3>3
  <2>2. CASE x # f
    <3>1. x # w.stream /\ x \notin spoiled
      BY <1>1, <1>5, <2>2
    <3>2. disk'[x].part = disk[x].part
      BY <1>4, <3>1 DEF Same
    <3> QED
      BY <1>1, <3>1, <3>2 DEF PartsArePrefixes
  <2> QED
    BY <2>1, <2>2
<1>12. \A x \in Files : disk'[x].part # NoFile =>
         x \in stale \union spoiled' \/ w'.stream = x
  BY <1>1, <1>2, <1>4 DEF Same
<1>13. \A x \in Files : Settled(x) \/ w.stream = x => Settled(x)' \/ w'.stream = x
  BY <1>1, <1>2, <1>4 DEF Settled, Whole, Source, Same
<1> QED
  BY <1>1, <1>2, <1>5, <1>7, <1>8, <1>9, <1>10, <1>11, <1>12, <1>13 DEF Leaves

\* A block whose file could not be opened
LEMMA BlockUnopened ==
  ASSUME IInv, IInv', SafetyInv
  PROVE  \A f, b, data, ok : Block(f, b, data, ok) /\ Unopened(f, ok) => Leaves(f, data)
<1> SUFFICES ASSUME NEW f, NEW b, NEW data, NEW ok, Block(f, b, data, ok), Unopened(f, ok)
             PROVE  Leaves(f, data)
  OBVIOUS
<1>1. /\ f \in Nat /\ f # NoStream /\ Size[f] \in Nat /\ data \in Seq(Nat)
      /\ PartsArePrefixes /\ Strays
      /\ \A x \in Files :
           disk[x].part # NoFile => x \in stale \union spoiled \/ w.stream = x
      /\ w.stream # NoStream => {w.num, w.stream} \subseteq consent
      /\ untold \subseteq kept
      /\ spoiled' = spoiled \union Spoils(f, data, ok)
      /\ New(f) => Between(f) /\ Marred(w, ok) \subseteq spoiled'
      /\ Fails(f, data, ok) => f \in spoiled'
      /\ w.stream # NoStream => w.stream \in spoiled'
  BY BlockFields
<1>2. /\ f \in Files /\ w' = Moved(f, ok) /\ disk' = Written(f, data, ok) /\ w.files
      /\ stale' = stale /\ consent' = consent /\ kept' = kept /\ untold' = untold
      /\ f \in consent /\ first' = first
  BY DEF Block
<1>3. New(f) /\ Between(f) /\ Marred(w, ok) \subseteq spoiled' /\ f \in spoiled'
  BY <1>1 DEF Unopened, Fails
<1>4. \A x \in Files : Same(disk'[x], Renamed(w, ok)[x])
  BY <1>1, <1>2, <1>3, WrittenFields
<1>5. w'.stream = w.stream /\ (w'.num = f \/ (w'.num = w.num /\ w.stream # NoStream))
  <2>1. CASE Synced(ok)
    <3>1. w' = [w EXCEPT !.num = f, !.stream = @]
      BY <1>2, <1>3, <2>1 DEF Unopened, Moved
    <3> QED
      BY <3>1, Types DEF Writer
  <2>2. CASE ~Synced(ok)
    BY <1>2, <2>2 DEF Moved, Synced
  <2> QED
    BY <2>1, <2>2
<1>6. w.stream # NoStream => w.num \in spoiled' /\ w.num < f
  BY <1>1, <1>3 DEF Strays, Between
<1>7. Strays'
  BY <1>1, <1>3, <1>5, <1>6 DEF Strays
<1>8. Between(f + 1)'
  BY <1>1, <1>2, <1>3, <1>5, <1>6, TypesAfter, Types DEF Between
<1>9. \A k : At(f, k)'
  BY <1>1, <1>2, <1>3, <1>5, <1>6 DEF At, Between
<1>10. \A x \in Files : disk'[x].part # NoFile => disk'[x].part = disk[x].part
  BY <1>4, FinishedFields DEF Same
<1>11. PartsArePrefixes'
  BY <1>1, <1>10 DEF PartsArePrefixes, Source
<1>12. \A x \in Files : disk'[x].part # NoFile =>
         x \in stale \union spoiled' \/ w'.stream = x
  BY <1>1, <1>5, <1>10
<1>13. w'.stream # NoStream => {w'.num, w'.stream} \subseteq consent
  BY <1>1, <1>2, <1>5
<1>14. \A x \in Files : Settled(x) \/ w.stream = x => Settled(x)' \/ w'.stream = x
  <2> SUFFICES ASSUME NEW x \in Files, Settled(x), x # f
               PROVE  Settled(x)'
    BY <1>3, <1>5 DEF Settled
  <2>1. disk'[x].data = Renamed(w, ok)[x].data /\ disk'[x].src = Renamed(w, ok)[x].src
    BY <1>4 DEF Same
  <2>2. spoiled \subseteq spoiled'
    BY <1>1
  <2> QED
    BY <1>1, <1>2, <1>3, <2>1, <2>2, FinishSettles
<1> QED
  BY <1>2, <1>3, <1>7, <1>8, <1>9, <1>11, <1>12, <1>13, <1>14 DEF Leaves

\* The first block of a file that is opened
LEMMA BlockOfNext ==
  ASSUME IInv, IInv', SafetyInv
  PROVE  \A f, b, data, ok :
           Block(f, b, data, ok) /\ New(f) /\ ~Unopened(f, ok) => Leaves(f, data)
<1> SUFFICES ASSUME NEW f, NEW b, NEW data, NEW ok,
                    Block(f, b, data, ok), New(f), ~Unopened(f, ok)
             PROVE  Leaves(f, data)
  OBVIOUS
<1>1. /\ f \in Nat /\ f # NoStream /\ Size[f] \in Nat /\ data \in Seq(Nat)
      /\ PartsArePrefixes /\ Strays
      /\ \A x \in Files :
           disk[x].part # NoFile => x \in stale \union spoiled \/ w.stream = x
      /\ untold \subseteq kept
      /\ spoiled' = spoiled \union Spoils(f, data, ok)
      /\ Between(f) /\ (f \in spoiled \/ b = 0) /\ Marred(w, ok) \subseteq spoiled'
      /\ Fails(f, data, ok) => f \in spoiled'
  BY BlockFields
<1>2. /\ f \in Files /\ b \in Nat /\ w' = Moved(f, ok) /\ disk' = Written(f, data, ok)
      /\ w.files
      /\ (data = << >> /\ b = Size[f]) \/ (data = << b + 1 >> /\ b + 1 <= Size[f])
      /\ stale' = stale /\ consent' = consent /\ kept' = kept /\ untold' = untold
      /\ f \in consent /\ first' = first
  BY DEF Block
<1>3. w'.num = f /\ w'.stream = f
  <2>1. w' = [w EXCEPT !.num = f, !.stream = f]
    BY <1>2 DEF Unopened, Moved
  <2> QED
    BY <2>1, Types DEF Writer
<1>4. /\ \A x \in Files \ {f} : Same(disk'[x], Renamed(w, ok)[x])
      /\ disk'[f].part = IF Fails(f, data, ok) THEN << >> ELSE data
  BY <1>1, <1>2, WrittenFields
<1>6. PICK k \in 0 .. Size[f] : k = IF data = << >> THEN Size[f] ELSE b + 1
  BY <1>1, <1>2
<1>7. f \in spoiled' \/ disk'[f].part = Prefix(k)
  <2> SUFFICES ASSUME f \notin spoiled'
               PROVE  disk'[f].part = Prefix(k)
    OBVIOUS
  <2>1. b = 0 /\ disk'[f].part = data
    BY <1>1, <1>4
  <2>2. CASE data = << >>
    BY <1>2, <1>6, <2>1, <2>2, EmptyPrefix
  <2>3. CASE data # << >>
    <3>1. data = << 0 + 1 >> /\ k = 0 + 1
      BY <1>2, <1>6, <2>1, <2>3
    <3>2. << 0 + 1 >> \in Seq(Nat)
      OBVIOUS
    <3>3. << >> \o << 0 + 1 >> = << 0 + 1 >>
      BY <3>2, EmptyPrefix
    <3> QED
      BY <2>1, <3>1, <3>3, EmptyPrefix, PrefixAppend
  <2> QED
    BY <2>2, <2>3
<1>8. data = << >> => Between(f + 1)'
  <2> SUFFICES ASSUME data = << >>
               PROVE  Between(f + 1)'
    OBVIOUS
  <2>1. f \in spoiled' \/ disk'[f].part = Source(f)
    BY <1>6, <1>7, SourcePrefix
  <2> QED
    BY <1>1, <1>3, <2>1 DEF Between
<1>9. data # << >> => At(f, data[1])'
  <2>1. data # << >> => data[1] = k
    BY <1>2, <1>6
  <2> QED
    BY <1>1, <1>3, <1>7, <2>1 DEF At
<1>10. Strays'
  BY <1>3 DEF Strays
<1>11. \A x \in Files \ {f} : disk'[x].part # NoFile => disk'[x].part = disk[x].part
  BY <1>4, FinishedFields DEF Same
<1>12. PartsArePrefixes'
  <2> SUFFICES ASSUME NEW x \in Files \ spoiled', disk'[x].part # NoFile
               PROVE  /\ Len(disk'[x].part) <= Size[x]
                      /\ disk'[x].part = SubSeq(Source(x), 1, Len(disk'[x].part))
    BY DEF PartsArePrefixes, Source
  <2>1. CASE x = f
    <3>1. disk'[x].part = Prefix(k) /\ Len(Prefix(k)) = k
      BY <1>6, <1>7, <2>1, PrefixFacts
    <3>2. k \in Nat /\ k <= Size[f] /\ Source(x) = Prefix(Size[f])
      BY <1>1, <2>1, SourcePrefix
    <3>3. SubSeq(Source(x), 1, k) = Prefix(k)
      BY <1>1, <3>2, PrefixSub
    <3> QED
      BY <2>1, <3>1, <3>2, <3>3
  <2>2. CASE x # f
    BY <1>1, <1>11, <2>2 DEF PartsArePrefixes
  <2> QED
    BY <2>1, <2>2
<1>13. \A x \in Files : disk'[x].part # NoFile =>
         x \in stale \union spoiled' \/ w'.stream = x
  <2> SUFFICES ASSUME NEW x \in Files \ {f}, disk'[x].part # NoFile, x \notin spoiled'
               PROVE  x \in stale
    BY <1>3
  <2>1. disk[x].part # NoFile /\ Renamed(w, ok)[x].part # NoFile
    BY <1>4, <1>11 DEF Same
  <2>2. CASE w.stream = x
    <3>1. w.num = x
      BY <1>1, <2>2, StreamFacts DEF Strays
    <3>2. HasFile(w)
      BY <1>2, <3>1, Numbers DEF HasFile
    <3>3. x \notin Marred(w, ok)
      BY <1>1
    <3> QED
      BY <2>1, <3>1, <3>2, <3>3, FinishedFields
  <2> QED
    BY <1>1, <2>1, <2>2
<1>14. \A x \in Files : Settled(x) \/ w.stream = x => Settled(x)' \/ w'.stream = x
  <2> SUFFICES ASSUME NEW x \in Files, Settled(x) \/ w.stream = x, x # f
               PROVE  Settled(x)'
    BY <1>3
  <2>1. disk'[x].data = Renamed(w, ok)[x].data /\ disk'[x].src = Renamed(w, ok)[x].src
    BY <1>4 DEF Same
  <2>2. spoiled \subseteq spoiled'
    BY <1>1
  <2> QED
    BY <1>1, <1>2, <2>1, <2>2, FinishSettles
<1> QED
  BY <1>2, <1>3, <1>8, <1>9, <1>10, <1>12, <1>13, <1>14 DEF Leaves

\* What the writing end makes of the first message when that is a block
LEMMA BlockIs ==
  ASSUME IInv, SafetyInv, RecvBlock, w.on
  PROVE  \E ok :
           /\ Calling(ok, Calls)
           /\ Block(toW[1].file, Before(toW[1]), toW[1].data, ok)
           /\ IF upload /\ Fails(toW[1].file, toW[1].data, ok)
              THEN SendR(Msg("error", toW[1].file)) ELSE UNCHANGED toR
<1> DEFINE f == toW[1].file
           data == toW[1].data
           b == Before(toW[1])
<1>1. /\ toW # << >> /\ Popped(toW, toW') /\ toW[1].type = "block" /\ toW[1] \in ToWriter
      /\ Head(toW) = toW[1]
      /\ UNCHANGED <<first, consent, kept, untold, stale>>
  BY Received DEF RecvBlock
<1>2. \E ok : /\ Calling(ok, Calls)
              /\ w' = Moved(f, ok) /\ disk' = Written(f, data, ok)
              /\ Spoil(Spoils(f, data, ok))
              /\ IF upload /\ Fails(f, data, ok) THEN SendR(Msg("error", f)) ELSE UNCHANGED toR
  BY <1>1 DEF RecvBlock
<1>3. f \in Files /\ f \in Nat /\ data \in Seq(Nat) /\ Size[f] \in Nat
  BY <1>1, WriterFields, Numbers
<1>4. 1 \in 1 .. Len(toW)
  BY <1>1, Types
<1>5. At(f, b) /\ f \in consent /\ w.files
  BY <1>1, <1>4 DEF SafetyInv, WriterAt, Before1, Agreed, Beginning, BeforeDir
<1>6. data = << >> \/ (Len(data) = 1 /\ data[1] \in 1 .. Size[f])
  <2>1. WellFormed(toW[1])
    BY <1>4 DEF SafetyInv, QueueW
  <2> QED
    BY <1>1, <2>1 DEF WellFormed
<1>7. b \in Nat /\ ((data = << >> /\ b = Size[f]) \/ (data = << b + 1 >> /\ b + 1 <= Size[f]))
  <2>3. b = IF data = << >> THEN Size[f] ELSE data[1] - 1
    BY Zenon DEF Before
  <2> HIDE DEF f, data, b
  <2>1. CASE data = << >>
    BY <1>3, <2>1, <2>3
  <2>2. CASE data # << >>
    <3>1. b = data[1] - 1 /\ data[1] \in 1 .. Size[f]
      BY <1>6, <2>2, <2>3
    <3>2. b \in Nat /\ b + 1 = data[1] /\ b + 1 <= Size[f]
      BY <1>3, <3>1
    <3>3. data = << data[1] >>
      BY <1>3, <1>6, <2>2
    <3> QED
      BY <3>2, <3>3
  <2> QED
    BY <2>1, <2>2
<1> HIDE DEF f, data, b
<1>9. PICK g, d, c, ok :
        /\ g = f /\ d = data /\ c = b
        /\ Calling(ok, Calls) /\ w' = Moved(g, ok) /\ disk' = Written(g, d, ok)
        /\ Spoil(Spoils(g, d, ok))
        /\ IF upload /\ Fails(g, d, ok) THEN SendR(Msg("error", g)) ELSE UNCHANGED toR
  BY <1>2
<1>10. Block(g, c, d, ok)
  BY <1>1, <1>3, <1>5, <1>7, <1>9 DEF Block
<1> USE DEF f, data, b
<1> QED
  BY <1>9, <1>10

LEMMA BlockTaken ==
  ASSUME IInv, IInv', SafetyInv, RecvBlock, w.on
  PROVE  SafetyInv'
<1> DEFINE f == toW[1].file
           data == toW[1].data
           b == Before(toW[1])
<1>1. /\ toW # << >> /\ Popped(toW, toW') /\ toW[1].type = "block" /\ toW[1] \in ToWriter
      /\ UNCHANGED <<upload, r, asked, first, consent, kept, untold, stale, events>>
  BY Received DEF RecvBlock
<1>3. f \in Files /\ f \in Nat
  BY <1>1, WriterFields, Numbers
<1>8. /\ \A n : Boundary(toW[1], n) => data = << >> /\ n = f + 1
      /\ \A x, k : Midway(toW[1], x, k) => data # << >> /\ x = f /\ k = data[1]
  BY <1>1 DEF Boundary, Midway
<1>9. PICK g, d, c, ok :
        /\ g = f /\ d = data /\ c = b /\ Block(g, c, d, ok)
        /\ IF upload /\ Fails(g, d, ok) THEN SendR(Msg("error", g)) ELSE UNCHANGED toR
  BY BlockIs
<1>10. /\ Block(g, c, d, ok) /\ w.files
       /\ w' = Moved(g, ok) /\ disk' = Written(g, d, ok) /\ Spoil(Spoils(g, d, ok))
  BY <1>9 DEF Block
<1> HIDE DEF f, data, b
<1>11. Leaves(g, d)
  BY <1>10, BlockOfSame, BlockUnopened, BlockOfNext
<1>12. w'.on /\ w'.last = w.last /\ w'.files
  <2>1. \/ w' = w \/ w' = [w EXCEPT !.num = g, !.stream = g]
        \/ w' = [w EXCEPT !.num = g, !.stream = @]
    BY <1>10 DEF Moved
  <2> QED
    BY <1>10, <2>1, Types DEF Writer
<1>13. toR' = toR \/ (upload /\ \E e \in ToReader : e.type = "error" /\ Pushed(toR, toR', e))
  <2>1. Msg("error", g) \in ToReader /\ Msg("error", g).type = "error"
    BY <1>3, <1>9 DEF Msg, ToReader
  <2>2. SendR(Msg("error", g)) => Pushed(toR, toR', Msg("error", g))
    BY <2>1, Sent
  <2> QED
    BY <1>9, <2>1, <2>2
<1>14. spoiled \subseteq spoiled'
  BY <1>10 DEF Spoil
<1>15. /\ \A n \in Nat : Boundary(toW[1], n) => Between(n)'
       /\ \A x \in Files, k \in Nat : Midway(toW[1], x, k) => At(x, k)'
  <2>1. \A n : Boundary(toW[1], n) => d = << >> /\ n = g + 1
    BY <1>8, <1>9
  <2>2. \A x, k : Midway(toW[1], x, k) => d # << >> /\ x = g /\ k = d[1]
    BY <1>8, <1>9
  <2>3. (d = << >> => Between(g + 1)') /\ (d # << >> => At(g, d[1])')
    BY <1>11 DEF Leaves
  <2> QED
    BY <2>1, <2>2, <2>3
<1>16. /\ PartsArePrefixes' /\ Strays'
       /\ \A x \in Files : disk'[x].part # NoFile =>
            x \in stale \union spoiled' \/ w'.stream = x
       /\ w'.stream # NoStream => {w'.num, w'.stream} \subseteq consent
       /\ \A x \in Files : Settled(x) \/ w.stream = x => Settled(x)' \/ w'.stream = x
       /\ w'.stream = g \/ g \in spoiled'
  BY <1>11 DEF Leaves
<1>17. g = toW[1].file
  BY <1>9 DEF f
<1> QED
  BY <1>1, <1>12, <1>13, <1>14, <1>15, <1>16, <1>17, WriterStays

\* A message that the writing end takes and has no job after
LEMMA WriterGone ==
  ASSUME IInv, IInv', SafetyInv, toW # << >>, Popped(toW, toW'), ~w'.on, w'.stream = NoStream,
         UNCHANGED <<upload, r, first, consent, kept, untold, stale>>,
         asked' = {},
         toR' = toR \/ \E e \in ToReader : /\ upload /\ e.type \in {"done", "error"}
                                          /\ Pushed(toR, toR', e),
         PartsArePrefixes', spoiled \subseteq spoiled',
         events \subseteq events',
         "done" \in events' \/ InR({"done"})' => toW[1].type = "done",
         ~upload => ~w.on \/ toW[1].type = "done" \/ "error" \in events',
         InR({"done"})' \/ events' = {"done"} => \A f \in first .. NumFiles - 1 : Settled(f)'
  PROVE  SafetyInv'
<1>1. /\ QueueW' /\ ReaderAt' /\ 1 \in 1 .. Len(toW)
      /\ ~(Ctl.on /\ Ctl.last) /\ asked = {} /\ "done" \notin events /\ ~InR({"done"})
      /\ \A i \in 1 .. Len(toW') :
           i + 1 \in 1 .. Len(toW) /\ i + 1 # 1 /\ toW'[i] = toW[i + 1]
      /\ \A i \in 1 .. Len(toW') : toW'[i].type # "receive"
      /\ \A types : InW(types)' => InW(types)
      /\ \A i \in 1 .. Len(toR) :
           toR[i].type # "send" /\ (r.on => toR[i].type \notin {"ask", "confirm"})
      /\ toW[1].type = "done" => toW' = << >> /\ ~r.on
  BY WriterPops
<1>2. \A i \in 1 .. Len(toR') :
        \/ i \in 1 .. Len(toR) /\ toR'[i] = toR[i]
        \/ toR'[i] \in ToReader /\ toR'[i].type \in {"done", "error"} /\ upload
  BY AfterPush
<1>4. Question'
  <2>1. DigestOpen'
    <3> SUFFICES ASSUME NEW i \in 1 .. Len(toW'), toW'[i].type = "digest", r.on
                 PROVE  Pending /\ toW'[i].file = r.num /\ i = Len(toW')
      BY DEF DigestOpen, Pending
    <3>1. i + 1 \in 1 .. Len(toW) /\ toW[i + 1].type = "digest" /\ toW'[i] = toW[i + 1]
      BY <1>1
    <3>2. Pending /\ toW[i + 1].file = r.num /\ i + 1 = Len(toW)
      BY <3>1 DEF SafetyInv, Question, DigestOpen
    <3> QED
      BY <3>1, <3>2 DEF Popped
  <2>2. AnswerOpen' /\ DialogOpen'
    BY <1>1, <1>2 DEF AnswerOpen, DialogOpen
  <2>3. Directions'
    BY <1>2 DEF SafetyInv, Question, Directions
  <2> QED
    BY <2>1, <2>2, <2>3 DEF Question
<1>5. ~(upload /\ r.on /\ r.last)
  BY <1>1 DEF Ctl
<1>6. Beginning'
  <2>1. SendFirst' /\ ReceiveFirst'
    BY <1>1, <1>2 DEF SendFirst, ReceiveFirst
  <2> QED
    BY <1>5, <2>1 DEF Beginning, BeforeResume, BeforeDir, Ctl
<1>7. WriterAt'
  BY DEF WriterAt, Strays
<1>8. Parts'
  <2>1. ~InW({"receive"})'
    BY <1>1 DEF InW
  <2> QED
    BY <1>5, <2>1 DEF Parts
<1>9. Agreed'
  <2>1. Agreed
    BY DEF SafetyInv
  <2>2. \A i \in 1 .. Len(toW') :
          /\ toW'[i].type = "block" => toW'[i].file \in consent
          /\ toW'[i].type = "confirm" =>
               toW'[i].file \in IF toW'[i].ans.skip THEN kept ELSE consent
    BY <1>1, <2>1 DEF Agreed
  <2>3. \A i \in 1 .. Len(toR') : toR'[i].type = "confirm" =>
          toR'[i].file \in IF toR'[i].ans.skip THEN kept ELSE consent
    BY <1>2, <2>1 DEF Agreed
  <2>4. /\ r.on /\ r.confirmed => r.num \in consent
        /\ untold \subseteq kept
    BY <2>1 DEF Agreed
  <2> QED
    BY <2>2, <2>3, <2>4 DEF Agreed
<1>10. Delivered'
  <2>1. ~InR({"send"})'
    BY <1>1, <1>2 DEF InR
  <2>2. "done" \in events' \/ InR({"done"})' => ~r.on /\ toW' = << >>
    BY <1>1
  <2>3. ASSUME ~upload, r.on \/ InW({"done"})'
        PROVE  events' \intersect {"error", "cancel"} # {}
    <3>1. toW[1].type # "done"
      BY <1>1, <2>3, EmptyFacts DEF InW
    <3>2. r.on \/ InW({"done"})
      BY <1>1, <2>3
    <3> QED
      BY <2>3, <3>1, <3>2 DEF SafetyInv, Delivered
  <2>4. DoneDelivers'
    BY DEF DoneDelivers, Settled
  <2> QED
    BY <2>1, <2>2, <2>3, <2>4 DEF Delivered
<1> QED
  BY <1>1, <1>4, <1>6, <1>7, <1>8, <1>9, <1>10 DEF SafetyInv

\* A message that comes too late for the writing end
LEMMA TakenLate ==
  ASSUME IInv, IInv', SafetyInv, toW # << >>, Popped(toW, toW'), ~w.on,
         UNCHANGED <<upload, r, w, asked, toR, disk, history, events>>
  PROVE  SafetyInv'
<1>1. /\ first' = first /\ consent' = consent /\ kept' = kept /\ untold' = untold
      /\ stale' = stale /\ spoiled' = spoiled /\ events' = events /\ disk' = disk /\ w' = w
  BY DEF history
<1>2. asked = {} /\ "done" \notin events /\ ~InR({"done"})
  BY WriterPops, <1>1
<1>3. PartsArePrefixes'
  BY <1>1, PrefixesKept DEF SafetyInv
<1>4. ~w'.on /\ w'.stream = NoStream
  BY <1>1 DEF SafetyInv, Agreed
<1>5. ~InR({"done"})'
  BY <1>2 DEF InR
<1> QED
  BY <1>1, <1>2, <1>3, <1>4, <1>5, WriterGone

\* Done: whatever the reading end has left behind is settled once the last file of the
\* writing end is finished.
LEMMA DoneSettles ==
  ASSUME IInv, SafetyInv, toW # << >>, toW[1].type = "done", w.on, kept' = kept,
         \E ok : disk' = Renamed(w, ok) /\ Spoil(Marred(w, ok))
  PROVE  \A f \in first .. NumFiles - 1 : Settled(f)'
<1> SUFFICES ASSUME NEW f \in first .. NumFiles - 1
             PROVE  Settled(f)'
  OBVIOUS
<1>1. Len(toW) = 1 /\ ~r.on /\ 1 \in 1 .. Len(toW)
  <2>1. Len(toW) \in Nat \ {0}
    BY Types, EmptyFacts
  <2>2. 1 \in 1 .. Len(toW)
    BY <2>1
  <2> QED
    BY <2>1, <2>2 DEF SafetyInv, QueueW
<1>2. /\ ~InW({"error"}) /\ InW({"done"})
      /\ \A i \in 1 .. Len(toW) : toW[i].type # "block"
  BY <1>1 DEF InW
<1>3. Settled(f) \/ (w.stream = f)
  BY <1>1, <1>2 DEF SafetyInv, Delivered, Passed
<1>4. w.files
  BY DEF SafetyInv, Beginning, BeforeDir
<1>5. PICK n \in NumFiles .. NumFiles + first : Between(n)
  BY DEF SafetyInv, WriterAt, Before1
<1>6. f \in Files /\ f # n
  <2>1. first \in Nat /\ NumFiles \in Nat
    BY Types, Numbers
  <2> QED
    BY <2>1 DEF Files
<1>7. untold \subseteq kept /\ Strays
  BY DEF SafetyInv, Agreed, WriterAt
<1>8. PICK ok : disk' = Renamed(w, ok) /\ Spoil(Marred(w, ok))
  OBVIOUS
<1>9. spoiled \subseteq spoiled' /\ Marred(w, ok) \subseteq spoiled'
  BY <1>8 DEF Spoil
<1> QED
  BY <1>3, <1>4, <1>5, <1>6, <1>7, <1>8, <1>9, FinishSettles

LEMMA PartsFinished ==
  ASSUME IInv, Parts, spoiled \subseteq spoiled', \E ok : disk' = Renamed(w, ok)
  PROVE  PartsArePrefixes'
<1>1. \A f \in Files : disk'[f].part # NoFile => disk'[f].part = disk[f].part
  BY FinishedFields
<1> QED
  BY <1>1 DEF Parts, PartsArePrefixes, Source

\* What the writing end of an upload reports
LEMMA ReportSent ==
  ASSUME IInv
  PROVE  \A t \in {"done", "error"}, n \in Nat :
           /\ Msg(t, n) \in ToReader
           /\ SendR(Msg(t, n)) => Pushed(toR, toR', Msg(t, n))
<1>1. \A t \in {"done", "error"}, n \in Nat : Msg(t, n) \in ToReader
  BY DEF Msg, ToReader
<1> QED
  BY <1>1, Sent

LEMMA RecvDoneStep == IInv /\ IInv' /\ SafetyInv /\ RecvDone => SafetyInv'
<1> SUFFICES ASSUME IInv, IInv', SafetyInv, RecvDone
             PROVE  SafetyInv'
  OBVIOUS
<1>1. /\ toW # << >> /\ Popped(toW, toW') /\ toW[1].type = "done"
      /\ UNCHANGED <<upload, r, first, consent, kept, untold, stale>>
      /\ ~w'.on /\ w'.stream = NoStream
      /\ IF w.on THEN \E ok : disk' = Renamed(w, ok) /\ Spoil(Marred(w, ok))
         ELSE disk' = disk /\ spoiled' = spoiled
      /\ events' = IF upload THEN events ELSE events \union {"done"}
  BY Received, NoReaderFields DEF RecvDone
<1>0. spoiled \subseteq spoiled'
  BY <1>1 DEF Spoil
<1>2. 1 \in 1 .. Len(toW) /\ asked = {} /\ "done" \notin events /\ ~InR({"done"})
  BY <1>0, <1>1, WriterPops
<1>3. asked' = {}
  BY <1>2 DEF RecvDone
<1>4. toR' = toR \/ \E e \in ToReader : /\ upload /\ w.on /\ e.type \in {"done", "error"}
                                       /\ Pushed(toR, toR', e)
  <2>1. PICK m : m = Msg("done", 0)
    OBVIOUS
  <2>2. m \in ToReader /\ m.type = "done" /\ (SendR(m) => Pushed(toR, toR', m))
    BY <2>1, ReportSent, MsgFields
  <2> QED
    BY <2>1, <2>2 DEF RecvDone
<1>5. spoiled \subseteq spoiled' /\ PartsArePrefixes'
  <2>1. Parts
    BY DEF SafetyInv
  <2>2. CASE w.on
    BY <1>0, <1>1, <2>1, <2>2, PartsFinished
  <2>3. CASE ~w.on
    BY <1>0, <1>1, <2>1, <2>3, PrefixesKept
  <2> QED
    BY <1>0, <2>2, <2>3
<1>6. ASSUME InR({"done"})' \/ events' = {"done"}
      PROVE  w.on
  <2> SUFFICES ASSUME ~w.on
               PROVE  FALSE
    OBVIOUS
  <2>1. toR' = toR
    BY <1>4
  <2>2. ~InR({"done"})'
    BY <1>2, <2>1 DEF InR
  <2>3. events' = {"done"}
    BY <1>6, <2>2
  <2>4. ~upload /\ events = {}
    BY <1>1, <1>2, <2>3
  <2>5. InW({"done"})
    BY <1>1, <1>2 DEF InW
  <2> QED
    BY <2>4, <2>5 DEF SafetyInv, Delivered
<1>7. InR({"done"})' \/ events' = {"done"} => \A f \in first .. NumFiles - 1 : Settled(f)'
  BY <1>1, <1>6, DoneSettles
<1> QED
  BY <1>1, <1>3, <1>4, <1>5, <1>7, WriterGone

LEMMA RecvErrorStep == IInv /\ IInv' /\ SafetyInv /\ RecvError => SafetyInv'
<1> SUFFICES ASSUME IInv, IInv', SafetyInv, RecvError
             PROVE  SafetyInv'
  OBVIOUS
<1>1. /\ toW # << >> /\ Popped(toW, toW')
      /\ UNCHANGED <<upload, r, disk, first, consent, kept, untold, stale, spoiled>>
      /\ ~w'.on /\ w'.stream = NoStream
      /\ events' = IF upload THEN events ELSE events \union {"error"}
  BY Received, NoReaderFields DEF RecvError, history
<1>2. asked = {} /\ "done" \notin events /\ ~InR({"done"})
  BY <1>1, WriterPops
<1>3. asked' = {}
  BY <1>2 DEF RecvError
<1>4. toR' = toR \/ \E e \in ToReader : upload /\ e.type = "error" /\ Pushed(toR, toR', e)
  <2>1. PICK m : m = Msg("error", 0)
    OBVIOUS
  <2>2. m \in ToReader /\ m.type = "error" /\ (SendR(m) => Pushed(toR, toR', m))
    BY <2>1, ReportSent, MsgFields
  <2> QED
    BY <2>1, <2>2 DEF RecvError
<1>5. PartsArePrefixes'
  BY <1>1, PrefixesKept DEF SafetyInv
<1>6. ~InR({"done"})' /\ "done" \notin events'
  <2>1. toR' = toR => ~InR({"done"})'
    BY <1>2 DEF InR
  <2>2. \A e : e.type = "error" /\ Pushed(toR, toR', e) => ~InR({"done"})'
    BY <1>2, AfterPush
  <2> QED
    BY <1>1, <1>2, <1>4, <2>1, <2>2
<1>7. ~upload => "error" \in events'
  BY <1>1
<1> QED
  BY <1>1, <1>3, <1>4, <1>5, <1>6, <1>7, WriterGone

LEMMA RecvCancelWriteStep == IInv /\ IInv' /\ SafetyInv /\ RecvCancelWrite => SafetyInv'
<1> SUFFICES ASSUME IInv, IInv', SafetyInv, RecvCancelWrite
             PROVE  SafetyInv'
  OBVIOUS
<1>1. /\ upload /\ toW # << >> /\ Popped(toW, toW')
      /\ UNCHANGED <<upload, r, asked, toR, first, consent, kept, untold, stale, spoiled, events>>
      /\ ~w'.on /\ w'.stream = NoStream
      /\ IF w.on THEN RemoveDownload ELSE disk' = disk
  BY Received, NoReaderFields DEF RecvCancelWrite, history
<1>2. asked = {} /\ "done" \notin events /\ ~InR({"done"})
  BY <1>1, WriterPops
<1>3. ~InR({"done"})' /\ "done" \notin events'
  BY <1>1, <1>2 DEF InR
<1>4. PartsArePrefixes'
  BY <1>1, PartsRemoved, PrefixesKept DEF SafetyInv
<1> QED
  BY <1>1, <1>2, <1>3, <1>4, WriterGone

LEMMA RecvDirStep == IInv /\ IInv' /\ SafetyInv /\ RecvDir => SafetyInv'
<1> SUFFICES ASSUME IInv, IInv', SafetyInv, RecvDir, ~w.on
             PROVE  SafetyInv'
  BY DirTaken, DirRefused
<1>1. toW # << >> /\ Popped(toW, toW')
  BY Received DEF RecvDir
<1>2. UNCHANGED <<upload, r, w, asked, toR, disk, history, events>>
  BY DEF RecvDir
<1> QED
  BY <1>1, <1>2, TakenLate

LEMMA RecvConfirmWriteStep == IInv /\ IInv' /\ SafetyInv /\ RecvConfirmWrite => SafetyInv'
<1> SUFFICES ASSUME IInv, IInv', SafetyInv, RecvConfirmWrite, ~w.on
             PROVE  SafetyInv'
  BY ConfirmTaken
<1>1. toW # << >> /\ Popped(toW, toW')
  BY Received DEF RecvConfirmWrite
<1>2. UNCHANGED <<upload, r, w, asked, toR, disk, history, events>>
  BY DEF RecvConfirmWrite, history
<1> QED
  BY <1>1, <1>2, TakenLate

LEMMA RecvBlockStep == IInv /\ IInv' /\ SafetyInv /\ RecvBlock => SafetyInv'
<1> SUFFICES ASSUME IInv, IInv', SafetyInv, RecvBlock, ~w.on
             PROVE  SafetyInv'
  BY BlockTaken
<1>1. toW # << >> /\ Popped(toW, toW')
  BY Received DEF RecvBlock
<1>2. UNCHANGED <<upload, r, w, asked, toR, disk, history, events>>
  BY DEF RecvBlock, history
<1> QED
  BY <1>1, <1>2, TakenLate

\* NewWrite: the writing end of an upload begins with the file that the request names.
LEMMA WriterMade ==
  ASSUME IInv, IInv', SafetyInv, toW # << >>, Popped(toW, toW'), toW[1].type = "receive",
         w' = [NewWriter(first) EXCEPT !.files = TRUE],
         UNCHANGED <<upload, r, asked, toR, disk, history, events>>
  PROVE  SafetyInv'
<1>1. /\ QueueW' /\ ReaderAt' /\ 1 \in 1 .. Len(toW)
      /\ ~(Ctl.on /\ Ctl.last) /\ asked = {} /\ "done" \notin events /\ ~InR({"done"})
      /\ \A i \in 1 .. Len(toW') :
           i + 1 \in 1 .. Len(toW) /\ i + 1 # 1 /\ toW'[i] = toW[i + 1]
      /\ \A i \in 1 .. Len(toW') : toW'[i].type # "receive"
      /\ \A types : InW(types)' => InW(types)
      /\ \A types : InW(types) => InW(types)' \/ toW[1].type \in types
  BY WriterPops DEF history
<1>2. /\ upload /\ ~w.on /\ toR = << >>
      /\ r.on => r.num = first /\ ~r.confirmed
      /\ InW({"done"}) => InW({"error"}) \/ first >= NumFiles
  BY <1>1 DEF SafetyInv, Beginning, ReceiveFirst
<1>3. /\ first' = first /\ consent' = consent /\ kept' = kept /\ untold' = untold
      /\ stale' = stale /\ spoiled' = spoiled /\ events' = events /\ disk' = disk
      /\ r' = r /\ upload' = upload /\ toR' = << >> /\ asked' = {}
  BY <1>1, <1>2 DEF history
<1>4. w'.on /\ w'.stream = NoStream /\ w'.files /\ w'.num = first
  BY Types DEF NewWriter, NoWriter
<1>6. Question'
  <2>1. DigestOpen'
    <3> SUFFICES ASSUME NEW i \in 1 .. Len(toW'), toW'[i].type = "digest", r.on
                 PROVE  Pending /\ toW'[i].file = r.num /\ i = Len(toW')
      BY <1>2, <1>3 DEF DigestOpen, Pending
    <3>1. i + 1 \in 1 .. Len(toW) /\ toW[i + 1].type = "digest" /\ toW'[i] = toW[i + 1]
      BY <1>1
    <3>2. Pending /\ toW[i + 1].file = r.num /\ i + 1 = Len(toW)
      BY <3>1 DEF SafetyInv, Question, DigestOpen
    <3> QED
      BY <3>1, <3>2 DEF Popped
  <2> QED
    BY <1>3, <2>1, EmptyFacts DEF Question, AnswerOpen, DialogOpen, Directions
<1>7. Beginning'
  <2>1. SendFirst' /\ ReceiveFirst'
    BY <1>1, <1>3, EmptyFacts DEF SendFirst, ReceiveFirst
  <2>2. ~(r.on /\ r.last)
    BY <1>1, <1>2 DEF Ctl
  <2> QED
    BY <1>2, <1>3, <1>4, <2>1, <2>2 DEF Beginning, BeforeResume, BeforeDir, Ctl
<1>8. WriterAt'
  <2>1. \A n \in Nat : Boundary(toW[1], n) => Between(n)'
    BY <1>4 DEF Boundary, Between
  <2>2. \A f \in Files, k \in Nat : Midway(toW[1], f, k) => At(f, k)'
    BY DEF Midway
  <2>3. /\ \A x : toW' # << >> /\ x = toW'[1] => Before1(x)'
        /\ \A n, k : toW' = << >> /\ r.on /\ n = r.num /\ k = Cap(r.num, r.pos) =>
             (r.confirmed => At(n, k)') /\ (~r.waiting => Between(n)')
    BY <1>3, <2>1, <2>2, WriterNext
  <2>4. PICK x, n, k : x = toW'[1] /\ n = r.num /\ k = Cap(r.num, r.pos)
    OBVIOUS
  <2>5. toW' # << >> => Before1(x)'
    BY <2>3, <2>4
  <2>6. toW' = << >> /\ r.on => Before0'
    <3> SUFFICES ASSUME toW' = << >>, r.on
                 PROVE  Before0'
      OBVIOUS
    <3>1. ~Pending
      <4>1. Len(toW) = 1
        BY EmptyFacts DEF Popped
      <4> QED
        BY <4>1 DEF SafetyInv, ReaderAt, Pending
    <3>2. r.waiting => r.confirmed
      BY <3>1 DEF Pending
    <3>3. Cap(r.num, r.pos)' = Cap(r.num, r.pos)
      BY <1>3 DEF Cap
    <3> QED
      BY <1>3, <2>3, <2>4, <3>2, <3>3, EmptyFacts DEF Before0
  <2> QED
    BY <1>3, <1>4, <2>4, <2>5, <2>6 DEF WriterAt, Strays
<1>9. Parts'
  <2>1. InW({"receive"}) /\ w.stream = NoStream
    BY <1>1, <1>2 DEF InW, SafetyInv, Agreed
  <2> QED
    BY <1>3, <2>1, PrefixesKept, StreamFacts DEF SafetyInv, Parts
<1>10. Agreed'
  <2>1. \A i \in 1 .. Len(toW') :
          /\ toW'[i].type = "block" => toW'[i].file \in consent
          /\ toW'[i].type = "confirm" =>
               toW'[i].file \in IF toW'[i].ans.skip THEN kept ELSE consent
    BY <1>1 DEF SafetyInv, Agreed
  <2>2. /\ r.on /\ r.confirmed => r.num \in consent
        /\ untold \subseteq kept
    BY DEF SafetyInv, Agreed
  <2> QED
    BY <1>3, <1>4, <2>1, <2>2, EmptyFacts DEF Agreed
<1>11. Delivered'
  <2>1. ASSUME ~InW({"error"})', NEW f \in first .. NumFiles - 1, Passed(f)'
        PROVE  FALSE
    <3>1. first \in Nat /\ NumFiles \in Nat
      BY Types, Numbers
    <3>2. ~InW({"error"})
      <4>1. toW[1].type \notin {"error"}
        OBVIOUS
      <4> QED
        BY <1>1, <2>1, <4>1
    <3>3. CASE r.on
      BY <1>2, <1>3, <2>1, <3>1, <3>3 DEF Passed
    <3>4. CASE ~r.on
      <4>1. InW({"done"})
        BY <1>1, <1>3, <2>1, <3>4 DEF Passed
      <4> QED
        BY <1>2, <2>1, <3>1, <3>2, <4>1
    <3> QED
      BY <3>3, <3>4
  <2>2. ~InR({"done"})'
    BY <1>3, EmptyFacts DEF InR
  <2> QED
    BY <1>1, <1>2, <1>3, <2>1, <2>2 DEF Delivered, DoneDelivers
<1> QED
  BY <1>1, <1>6, <1>7, <1>8, <1>9, <1>10, <1>11 DEF SafetyInv

LEMMA RecvReceiveStep == IInv /\ IInv' /\ SafetyInv /\ RecvReceive => SafetyInv'
<1> SUFFICES ASSUME IInv, IInv', SafetyInv, RecvReceive
             PROVE  SafetyInv'
  OBVIOUS
<1>1. /\ toW # << >> /\ Popped(toW, toW') /\ toW[1].type = "receive" /\ Head(toW) = toW[1]
      /\ UNCHANGED <<upload, r, asked, disk, history, events>>
  BY Received DEF RecvReceive
<1>2. 1 \in 1 .. Len(toW) /\ asked = {} /\ "done" \notin events /\ ~InR({"done"})
  BY <1>1, WriterPops DEF history
<1>3. upload /\ toW[1].file = first /\ ~w.on
  BY <1>1, <1>2 DEF SafetyInv, Beginning, ReceiveFirst
<1>4. CASE w' = [NewWriter(Head(toW).file) EXCEPT !.files = TRUE] /\ UNCHANGED toR
  BY <1>1, <1>3, <1>4, WriterMade
<1>5. CASE SendR(Msg("error", 0)) /\ UNCHANGED w
  <2>1. PICK m : m = Msg("error", 0)
    OBVIOUS
  <2>2. m \in ToReader /\ m.type = "error" /\ (SendR(m) => Pushed(toR, toR', m))
    BY <2>1, ReportSent, MsgFields
  <2>3. Pushed(toR, toR', m)
    BY <1>5, <2>1, <2>2
  <2>4. /\ first' = first /\ consent' = consent /\ kept' = kept /\ untold' = untold
        /\ stale' = stale /\ spoiled' = spoiled /\ events' = events /\ disk' = disk
        /\ r' = r /\ upload' = upload /\ w' = w /\ asked' = {}
    BY <1>1, <1>2, <1>5 DEF history
  <2>5. ~w'.on /\ w'.stream = NoStream
    BY <1>3, <2>4 DEF SafetyInv, Agreed
  <2>6. PartsArePrefixes'
    BY <2>4, PrefixesKept DEF SafetyInv
  <2>7. ~InR({"done"})' /\ "done" \notin events'
    BY <1>2, <2>2, <2>3, <2>4, AfterPush
  <2> QED
    BY <1>1, <1>3, <2>2, <2>3, <2>4, <2>5, <2>6, <2>7, WriterGone
<1> QED
  BY <1>4, <1>5 DEF RecvReceive

\* The digest of the reader's file, at a writing end that has the job
LEMMA DigestIs ==
  ASSUME IInv, IInv', SafetyInv, toW # << >>, Popped(toW, toW'), toW[1].type = "digest",
         UNCHANGED <<upload, r, first>>, spoiled \subseteq spoiled', r.on
  PROVE  /\ Pending /\ toW[1].file = r.num /\ r.num \in Files /\ toW' = << >>
         /\ \A i \in 1 .. Len(toW) : i = 1
         /\ \A i \in 1 .. Len(toR) : toR[i].type \notin {"ask", "confirm"}
         /\ asked = {} /\ "done" \notin events /\ ~InR({"done"})
         /\ w.on => Between(r.num)
         /\ \A i \in 1 .. Len(toR) : toR[i].type # "send"
<1>1. /\ 1 \in 1 .. Len(toW) /\ asked = {} /\ "done" \notin events /\ ~InR({"done"})
      /\ \A i \in 1 .. Len(toR) :
           toR[i].type # "send" /\ (r.on => toR[i].type \notin {"ask", "confirm"})
  BY WriterPops
<1>2. Pending /\ toW[1].file = r.num /\ Len(toW) = 1
  BY <1>1 DEF SafetyInv, Question, DigestOpen
<1>3. toW' = << >>
  <2>1. Len(toW') = 0
    BY <1>2 DEF Popped
  <2> QED
    BY <2>1, EmptyFacts, TypesAfter
<1>4. r.num \in Files
  BY <1>2 DEF SafetyInv, ReaderAt, Pending
<1>5. w.on => Between(r.num)
  BY <1>2 DEF SafetyInv, WriterAt, Before1
<1>6. \A i \in 1 .. Len(toW) : i = 1
  BY <1>2
<1> QED
  BY <1>1, <1>2, <1>3, <1>4, <1>5, <1>6

\* The offset that is_write_need_confirmation finds
LEMMA ResumableFits ==
  ASSUME IInv, SafetyInv
  PROVE  \A f \in Files, b \in BOOLEAN :
           Resumable(f, b) \in Nat /\ Fits(f, Resumable(f, b))
<1> SUFFICES ASSUME NEW f \in Files, NEW b \in BOOLEAN
             PROVE  Resumable(f, b) \in Nat /\ Fits(f, Resumable(f, b))
  OBVIOUS
<1>1. Resumable(f, b) \in Nat
  BY ResumableType, Types
<1>2. CASE b /\ disk[f].dig /\ disk[f].part # NoFile
  <2>1. Resumable(f, b) = Len(disk[f].part) /\ Resumable(f, TRUE) = Len(disk[f].part)
    BY <1>2 DEF Resumable
  <2> QED
    BY <1>1, <2>1 DEF Fits
<1>3. CASE ~(b /\ disk[f].dig /\ disk[f].part # NoFile)
  <2>1. Resumable(f, b) = 0
    BY <1>3 DEF Resumable
  <2> QED
    BY <2>1, Numbers DEF Fits
<1> QED
  BY <1>2, <1>3

LEMMA RecvDigestStep == IInv /\ IInv' /\ SafetyInv /\ RecvDigest => SafetyInv'
<1> SUFFICES ASSUME IInv, IInv', SafetyInv, RecvDigest
             PROVE  SafetyInv'
  OBVIOUS
<1>1. /\ ~upload /\ toW # << >> /\ Popped(toW, toW') /\ toW[1].type = "digest"
      /\ toW[1] \in ToWriter /\ Head(toW) = toW[1]
      /\ UNCHANGED <<upload, r, disk, first, untold, stale>>
  BY Received DEF RecvDigest
<1>2. CASE ~w.on
  <2>1. UNCHANGED <<w, toR, asked, consent, kept, spoiled, events>>
    BY <1>2 DEF RecvDigest
  <2> QED
    BY <1>1, <1>2, <2>1, TakenLate DEF history
<1>3. CASE w.on
  <2>0. spoiled \subseteq spoiled'
    BY <1>1 DEF RecvDigest, Answer, Spoil
  <2>1. r.on
    <3>1. 1 \in 1 .. Len(toW)
      BY <1>1, Types
    <3> QED
      BY <1>1, <1>3, <3>1 DEF SafetyInv, Question, DigestOpen
  <2>2. /\ Pending /\ toW[1].file = r.num /\ r.num \in Files /\ toW' = << >>
        /\ \A i \in 1 .. Len(toW) : i = 1
        /\ \A i \in 1 .. Len(toR) : toR[i].type \notin {"ask", "confirm"}
        /\ asked = {} /\ Between(r.num)
    BY <1>1, <1>3, <2>0, <2>1, DigestIs
  <2>3. \A i \in 1 .. Len(toW) : toW[i].type = "digest"
    BY <1>1, <2>2
  <2> DEFINE n == Resumable(r.num, w.resume)
  <2>4. n \in Nat /\ Fits(r.num, n)
    <3>1. w.resume \in BOOLEAN
      BY Types DEF Writer
    <3> QED
      BY <2>2, <3>1, ResumableFits
  <2>5. \/ \E ans \in {From(n), From(0), Skip} :
             Answer(r.num, ans) /\ UNCHANGED <<asked, events>>
        \/ asked' = asked \union {r.num} /\ UNCHANGED <<w, toR, consent, kept, spoiled, events>>
        \/ /\ UNCHANGED <<w, toR, asked, consent, kept, spoiled>>
           /\ events' = events \union {"unanswered"}
    BY <1>1, <1>3, <2>2 DEF RecvDigest
  <2> HIDE DEF n
  <2>6. ASSUME NEW ans \in {From(n), From(0), Skip},
               Answer(r.num, ans), UNCHANGED <<asked, events>>
        PROVE  SafetyInv'
    <3>1. ans \in Answers /\ Fits(r.num, ans.off)
      <4>1. ans \in Answers /\ ans.off \in {n, 0}
        <5>1. From(n) \in Answers /\ From(n).off = n
          BY <2>4, AnswerFields
        <5>2. From(0) \in Answers /\ From(0).off = 0
          BY AnswerFields
        <5>3. Skip \in Answers /\ Skip.off = 0
          BY AnswerFields
        <5> QED
          BY <2>6, <5>1, <5>2, <5>3
      <4>2. Fits(r.num, 0)
        BY DEF Fits
      <4> QED
        BY <2>4, <4>1, <4>2
    <3>2. asked' = {}
      BY <2>2, <2>6
    <3> QED
      BY <1>1, <1>3, <2>2, <2>3, <2>6, <3>1, <3>2, AnswerDownload
  <2>7. CASE /\ asked' = asked \union {r.num}
             /\ UNCHANGED <<w, toR, consent, kept, spoiled, events>>
    <3>1. asked' = {r.num}
      BY <2>2, <2>7
    <3> QED
      BY <1>1, <1>3, <2>2, <2>3, <2>7, <3>1, QuestionStays DEF history
  <2>8. CASE /\ UNCHANGED <<w, toR, asked, consent, kept, spoiled>>
             /\ events' = events \union {"unanswered"}
    BY <1>1, <1>3, <2>2, <2>3, <2>8, QuestionStays DEF history
  <2> QED
    BY <2>5, <2>6, <2>7, <2>8
<1> QED
  BY <1>2, <1>3

\* What the writing end of an upload says of a digest
LEMMA DigestAnswered ==
  ASSUME IInv, IInv', SafetyInv, upload, toW # << >>, Popped(toW, toW'), toW[1].type = "digest",
         w.on, consent \subseteq consent',
         UNCHANGED <<upload, r, w, asked, disk, first, kept, untold, stale, spoiled, events>>
  PROVE  \A e \in ToReader :
           /\ Pushed(toR, toR', e) /\ e.type \in {"ask", "confirm", "error"}
           /\ e.file = toW[1].file
           /\ e.type = "ask" => Fits(e.file, e.off)
           /\ e.type = "confirm" => e.ans = From(0) /\ e.file \in consent'
           => SafetyInv'
<1> SUFFICES ASSUME NEW e \in ToReader,
                    Pushed(toR, toR', e), e.type \in {"ask", "confirm", "error"},
                    e.file = toW[1].file,
                    e.type = "ask" => Fits(e.file, e.off),
                    e.type = "confirm" => e.ans = From(0) /\ e.file \in consent'
             PROVE  SafetyInv'
  OBVIOUS
<1>1. /\ QueueW' /\ ReaderAt' /\ 1 \in 1 .. Len(toW)
      /\ ~(Ctl.on /\ Ctl.last) /\ asked = {} /\ "done" \notin events /\ ~InR({"done"})
      /\ \A i \in 1 .. Len(toW') :
           i + 1 \in 1 .. Len(toW) /\ i + 1 # 1 /\ toW'[i] = toW[i + 1]
      /\ \A i \in 1 .. Len(toW') : toW'[i].type # "receive"
      /\ \A types : InW(types)' => InW(types)
      /\ \A types : InW(types) => InW(types)' \/ toW[1].type \in types
      /\ \A i \in 1 .. Len(toR) :
           toR[i].type # "send" /\ (r.on => toR[i].type \notin {"ask", "confirm"})
  BY WriterPops
<1>2. /\ Len(toR') = Len(toR) + 1 /\ Len(toR) \in Nat
      /\ \A i \in 1 .. Len(toR') :
           (i \in 1 .. Len(toR) /\ toR'[i] = toR[i]) \/ (i = Len(toR') /\ toR'[i] = e)
  BY AfterPush
<1>3. From(0).off = 0 /\ ~From(0).skip
  BY DEF From
<1>4. r.on => /\ Pending /\ toW[1].file = r.num /\ toW' = << >> /\ r.num \in Files
              /\ Between(r.num) /\ ~r.confirmed
  BY DigestIs DEF Pending
<1>6. Question'
  <2>1. DigestOpen'
    <3> SUFFICES ASSUME NEW i \in 1 .. Len(toW'), toW'[i].type = "digest", r.on
                 PROVE  Pending /\ toW'[i].file = r.num /\ i = Len(toW')
      BY DEF DigestOpen, Pending
    <3> QED
      BY <1>4, EmptyFacts
  <2>2. AnswerOpen'
    <3> SUFFICES ASSUME NEW i \in 1 .. Len(toR'), toR'[i].type \in {"ask", "confirm"}, r.on
                 PROVE  /\ Pending /\ toR'[i].file = r.num /\ toW' = << >> /\ asked = {}
                        /\ \A j \in 1 .. Len(toR') :
                             toR'[j].type \in {"ask", "confirm"} => j = i
      BY DEF AnswerOpen, Pending
    <3>1. \A j \in 1 .. Len(toR') :
            toR'[j].type \in {"ask", "confirm"} => j = Len(toR') /\ toR'[j] = e
      BY <1>1, <1>2
    <3> QED
      BY <1>1, <1>4, <3>1
  <2>3. DialogOpen'
    BY <1>1 DEF DialogOpen
  <2>4. Directions'
    BY <1>2 DEF SafetyInv, Question, Directions
  <2> QED
    BY <2>1, <2>2, <2>3, <2>4 DEF Question
<1>7. Beginning'
  <2>1. SendFirst' /\ ReceiveFirst'
    BY <1>1, <1>2 DEF SendFirst, ReceiveFirst
  <2>2. w.files
    BY DEF SafetyInv, Beginning, BeforeDir
  <2> QED
    BY <1>1, <2>1, <2>2 DEF Beginning, BeforeResume, BeforeDir, Ctl
<1>8. WriterAt'
  <2>1. \A n, k, f : ~Boundary(toW[1], n) /\ ~Midway(toW[1], f, k)
    BY DEF Boundary, Midway
  <2>2. \A x : toW' # << >> /\ x = toW'[1] => Before1(x)'
    BY <2>1, WriterNext
  <2>6. Strays'
    BY DEF SafetyInv, WriterAt, Strays
  <2>3. PICK x, n : x = toW'[1] /\ n = r.num
    OBVIOUS
  <2>4. toW' # << >> => Before1(x)'
    BY <2>2, <2>3
  <2>5. r.on => Before0'
    <3> SUFFICES ASSUME r.on
                 PROVE  Before0'
      OBVIOUS
    <3>1. Between(n)'
      BY <1>4, <2>3, BetweenKept
    <3>2. \A i \in 1 .. Len(toR') : toR'[i].type = "ask" => toR'[i] = e
      BY <1>1, <1>2
    <3>3. e.type = "ask" => Fits(n, e.off)'
      BY <1>4, <2>3, FitsKept
    <3> QED
      BY <1>4, <2>3, <3>1, <3>2, <3>3 DEF Before0
  <2> QED
    BY <2>3, <2>4, <2>5, <2>6 DEF WriterAt
<1>9. Parts'
  <2>1. ~InW({"receive"})'
    BY <1>1 DEF InW
  <2> QED
    BY <2>1, PrefixesKept DEF SafetyInv, Parts
<1>10. Agreed'
  <2>1. Agreed
    BY DEF SafetyInv
  <2>2. \A i \in 1 .. Len(toW') :
          /\ toW'[i].type = "block" => toW'[i].file \in consent'
          /\ toW'[i].type = "confirm" =>
               toW'[i].file \in IF toW'[i].ans.skip THEN kept ELSE consent'
    BY <1>1, <2>1 DEF Agreed
  <2>3. \A i \in 1 .. Len(toR') : toR'[i].type = "confirm" =>
          toR'[i].file \in IF toR'[i].ans.skip THEN kept ELSE consent'
    BY <1>2, <1>3, <2>1 DEF Agreed
  <2>4. /\ r.on /\ r.confirmed => r.num \in consent'
        /\ w.stream # NoStream => w.on /\ {w.num, w.stream} \subseteq consent'
        /\ untold \subseteq kept
    BY <2>1 DEF Agreed
  <2> QED
    BY <2>2, <2>3, <2>4 DEF Agreed
<1>11. Delivered'
  <2>1. ASSUME ~InW({"error"})', NEW f \in first .. NumFiles - 1, Passed(f)'
        PROVE  \/ Settled(f)'
               \/ \E i \in 1 .. Len(toW') : toW'[i].type = "block" /\ toW'[i].file = f
               \/ w.stream = f
    <3>1. ~InW({"error"}) /\ Passed(f)
      <4>1. toW[1].type \notin {"error"}
        OBVIOUS
      <4>2. ~InW({"error"})
        BY <1>1, <2>1, <4>1
      <4>3. Passed(f)
        BY <1>1, <2>1 DEF Passed
      <4> QED
        BY <4>2, <4>3
    <3>2. \/ Settled(f)
          \/ \E i \in 1 .. Len(toW) : toW[i].type = "block" /\ toW[i].file = f
          \/ w.stream = f
      BY <3>1 DEF SafetyInv, Delivered
    <3>3. CASE Settled(f)
      BY <3>3, SettledKept
    <3>4. ASSUME NEW i \in 1 .. Len(toW), toW[i].type = "block", toW[i].file = f
          PROVE  \E j \in 1 .. Len(toW') : toW'[j].type = "block" /\ toW'[j].file = f
      <4>1. i # 1
        BY <3>4
      <4>2. i - 1 \in 1 .. Len(toW') /\ toW'[i - 1] = toW[i]
        BY <1>1, <4>1 DEF Popped
      <4> QED
        BY <3>4, <4>2
    <3> QED
      BY <3>2, <3>3, <3>4
  <2>2. ~InR({"done"})'
    BY <1>1, <1>2 DEF InR
  <2> QED
    BY <1>1, <2>1, <2>2 DEF Delivered, DoneDelivers
<1> QED
  BY <1>1, <1>6, <1>7, <1>8, <1>9, <1>10, <1>11 DEF SafetyInv

LEMMA CheckDigestStep == IInv /\ IInv' /\ SafetyInv /\ CheckDigest => SafetyInv'
<1> SUFFICES ASSUME IInv, IInv', SafetyInv, CheckDigest
             PROVE  SafetyInv'
  OBVIOUS
<1>1. /\ upload /\ toW # << >> /\ Popped(toW, toW') /\ toW[1].type = "digest"
      /\ toW[1] \in ToWriter /\ Head(toW) = toW[1]
      /\ UNCHANGED <<upload, r, w, asked, disk, first, untold, stale, spoiled, events>>
  BY Received DEF CheckDigest, job
<1>2. CASE ~w.on
  <2>1. UNCHANGED <<toR, consent, kept>>
    BY <1>2 DEF CheckDigest
  <2> QED
    BY <1>1, <1>2, <2>1, TakenLate DEF history
<1>3. CASE w.on
  <2> DEFINE f == toW[1].file
             n == Resumable(f, toW[1].resume)
  <2>1. f \in Files /\ f \in Nat
    BY <1>1, WriterFields
  <2>2. n \in Nat /\ Fits(f, n)
    <3>1. toW[1].resume \in BOOLEAN
      BY <1>1, WriterHead DEF IInv
    <3> QED
      BY <2>1, <3>1, ResumableFits
  <2>3. \/ SendR([type |-> "ask", file |-> f, off |-> n]) /\ UNCHANGED <<consent, kept>>
        \/ SendR(Ans(f, From(0))) /\ Decide(f, From(0))
        \/ SendR(Msg("error", f)) /\ UNCHANGED <<consent, kept>>
    BY <1>1, <1>3 DEF CheckDigest
  <2>4. PICK g, k : g = f /\ k = n
    OBVIOUS
  <2> HIDE DEF f, n
  <2>5. CASE SendR([type |-> "ask", file |-> g, off |-> k]) /\ UNCHANGED <<consent, kept>>
    <3>1. PICK e : e = [type |-> "ask", file |-> g, off |-> k]
      OBVIOUS
    <3>2. e \in ToReader /\ e.type = "ask" /\ e.file = g /\ e.off = k
      BY <2>1, <2>2, <2>4, <3>1 DEF ToReader
    <3>3. Pushed(toR, toR', e)
      BY <2>5, <3>1, <3>2, Sent
    <3> QED
      BY <1>1, <1>3, <2>2, <2>4, <2>5, <3>2, <3>3, DigestAnswered DEF f
  <2>6. CASE SendR(Ans(g, From(0))) /\ Decide(g, From(0))
    <3>1. PICK e : e = Ans(g, From(0))
      OBVIOUS
    <3>2. e \in ToReader /\ e.type = "confirm" /\ e.file = g /\ e.ans = From(0)
      <4>1. From(0) \in Answers
        BY AnswerFields
      <4> QED
        BY <2>1, <2>4, <3>1, <4>1 DEF Ans, ToReader, Confirms
    <3>3. Pushed(toR, toR', e)
      BY <2>6, <3>1, <3>2, Sent
    <3>4. consent \subseteq consent' /\ g \in consent' /\ kept' = kept
      BY <2>6 DEF Decide, From
    <3> QED
      BY <1>1, <1>3, <2>4, <3>2, <3>3, <3>4, DigestAnswered DEF f
  <2>7. CASE SendR(Msg("error", g)) /\ UNCHANGED <<consent, kept>>
    <3>1. PICK e : e = Msg("error", g)
      OBVIOUS
    <3>2. e \in ToReader /\ e.type = "error" /\ e.file = g
      BY <2>1, <2>4, <3>1, ReportSent, MsgFields
    <3>3. Pushed(toR, toR', e)
      BY <2>7, <3>1, <3>2, Sent
    <3> QED
      BY <1>1, <1>3, <2>4, <2>7, <3>2, <3>3, DigestAnswered DEF f
  <2> QED
    BY <2>3, <2>4, <2>5, <2>6, <2>7
<1> QED
  BY <1>2, <1>3

-----------------------------------------------------------------------------
(* The invariant                                                           *)

LEMMA SafetyAtFirst == Init => SafetyInv
<1> SUFFICES ASSUME Init
             PROVE  SafetyInv
  OBVIOUS
<1>1. /\ ~r.on /\ ~w.on /\ w.stream = NoStream /\ toW = << >> /\ toR = << >> /\ asked = {}
      /\ untold = {} /\ kept = {} /\ events = {}
  BY DEF Init, NoReader, NoWriter
<1>2. \A f \in Files : disk[f].part = NoFile
  BY DEF Init
<1>3. \A types : ~InW(types) /\ ~InR(types)
  BY <1>1, EmptyFacts DEF InW, InR
<1>4. QueueW /\ ReaderAt
  BY <1>1, EmptyFacts DEF QueueW, ReaderAt
<1>5. Question
  BY <1>1, EmptyFacts DEF Question, DigestOpen, AnswerOpen, DialogOpen, Directions
<1>6. Beginning
  BY <1>1, EmptyFacts DEF Beginning, SendFirst, ReceiveFirst, BeforeResume, BeforeDir, Ctl
<1>7. WriterAt /\ Parts
  BY <1>1, <1>2 DEF WriterAt, Strays, Parts, PartsArePrefixes
<1>8. Agreed
  BY <1>1, EmptyFacts DEF Agreed
<1>9. Delivered
  BY <1>1, <1>3 DEF Delivered, DoneDelivers
<1> QED
  BY <1>4, <1>5, <1>6, <1>7, <1>8, <1>9 DEF SafetyInv

LEMMA SafetyStutters == SafetyInv /\ UNCHANGED vars => SafetyInv'
<1> SUFFICES ASSUME SafetyInv, UNCHANGED vars
             PROVE  SafetyInv'
  OBVIOUS
<1>1. /\ upload' = upload /\ r' = r /\ w' = w /\ asked' = asked /\ toW' = toW /\ toR' = toR
      /\ disk' = disk /\ first' = first /\ consent' = consent /\ kept' = kept
      /\ untold' = untold /\ stale' = stale /\ spoiled' = spoiled /\ events' = events
  BY DEF vars, job, net, history
<1>2. QueueW' /\ ReaderAt'
  BY <1>1 DEF SafetyInv, QueueW, ReaderAt, WellFormed, Linked, Boundary, Midway,
              Before, Cap
<1>3. Question'
  BY <1>1 DEF SafetyInv, Question, DigestOpen, AnswerOpen, DialogOpen, Directions, Pending
<1>4. Beginning'
  BY <1>1 DEF SafetyInv, Beginning, SendFirst, ReceiveFirst, BeforeResume, BeforeDir, Ctl, Peer,
              InW
<1>5. WriterAt'
  BY <1>1 DEF SafetyInv, WriterAt, Strays, Before0, Before1, At, Between, Fits, Resumable,
              Before, InR, Cap, Source
<1>6. Parts' /\ Agreed'
  BY <1>1 DEF SafetyInv, Parts, PartsArePrefixes, Agreed, InW
<1>7. Delivered'
  BY <1>1 DEF SafetyInv, Delivered, DoneDelivers, Settled, Passed, Whole, InW, InR
<1> QED
  BY <1>2, <1>3, <1>4, <1>5, <1>6, <1>7 DEF SafetyInv

LEMMA SafetyStep == IInv /\ IInv' /\ SafetyInv /\ [Next]_vars => SafetyInv'
<1> SUFFICES ASSUME IInv, IInv', SafetyInv, [Next]_vars
             PROVE  SafetyInv'
  OBVIOUS
<1>1. CASE User
  BY <1>1, StartStep, ResumeStep, CancelStep, DialogStep DEF User
<1>2. CASE Tick
  BY <1>2, SendDigestStep, ReadBlockStep, EndJobStep DEF Tick
<1>3. CASE Trouble
  BY <1>3, OpenErrorStep, ReadErrorStep DEF Trouble
<1>4. CASE ReaderMessage
  BY <1>4, RecvSendStep, RecvConfirmStep, RecvCancelReadStep, RecvAskStep, RecvReportStep
     DEF ReaderMessage
<1>5. CASE WriterMessage
  BY <1>5, RecvReceiveStep, RecvDirStep, RecvDigestStep, CheckDigestStep, RecvConfirmWriteStep,
     RecvBlockStep, RecvDoneStep, RecvErrorStep, RecvCancelWriteStep DEF WriterMessage
<1>6. CASE Disconnect \/ Crash
  BY <1>6, LostSafe
<1>7. CASE UNCHANGED vars
  BY <1>7, SafetyStutters
<1> QED
  BY <1>1, <1>2, <1>3, <1>4, <1>5, <1>6, <1>7 DEF Next

LEMMA SafetyAlways == Spec => [](IInv /\ SafetyInv)
<1>1. Init => SafetyInv
  BY SafetyAtFirst
<1>2. IInv /\ IInv' /\ SafetyInv /\ [Next]_vars => SafetyInv'
  BY SafetyStep
<1>3. Spec => []IInv
  BY IInvAlways
<1> QED
  BY <1>1, <1>2, <1>3, PTL DEF Spec

-----------------------------------------------------------------------------
(* What a step does to the files                                           *)

\* A name gets other contents, or another mtime, when the writing end finishes its file, and
\* only if the reading end has left the file behind, or its first block is there, ...
Finishes(f) ==
  /\ w.on /\ HasFile(w) /\ f = w.num
  /\ \E n : Between(n) /\ (f = n => f \in consent)
  /\ \E ok : disk'[f].data = Renamed(w, ok)[f].data /\ disk'[f].src = Renamed(w, ok)[f].src

\* ... or when a block is written through a handle whose file has its final name by then.
Trails(f) == w.stream = f /\ disk[f].part = NoFile /\ f \in spoiled

SameContents(f) == disk'[f].data = disk[f].data /\ disk'[f].src = disk[f].src

LEMMA BlockChanges ==
  ASSUME IInv, IInv', SafetyInv, RecvBlock
  PROVE  \A f \in Files : SameContents(f) \/ Finishes(f) \/ Trails(f)
<1>1. CASE ~w.on
  BY <1>1 DEF RecvBlock, SameContents
<1>2. CASE w.on
  <2>1. PICK g, b, data, ok : Block(g, b, data, ok)
    BY <1>2, BlockIs
  <2>2. /\ g \in Files /\ g \in consent /\ At(g, b) /\ Strays /\ data \in Seq(Nat)
        /\ New(g) => Between(g)
        /\ g # NoStream /\ disk' = Written(g, data, ok)
    BY <2>1, BlockFields DEF Block
  <2>3. CASE New(g)
    <3>1. ASSUME NEW f \in Files, ~SameContents(f)
          PROVE  Finishes(f)
      <4>1. disk'[f].data = Renamed(w, ok)[f].data /\ disk'[f].src = Renamed(w, ok)[f].src
        BY <2>2, <2>3, WrittenFields DEF Same
      <4>2. HasFile(w) /\ f = w.num
        BY <3>1, <4>1, RenamedFields DEF SameContents
      <4> QED
        BY <1>2, <2>2, <2>3, <4>1, <4>2 DEF Finishes
    <3> QED
      BY <3>1
  <2>4. CASE ~New(g)
    <3>1. ASSUME NEW f \in Files, ~SameContents(f)
          PROVE  Trails(f)
      <4>1. f = w.stream /\ disk[f].part = NoFile
        BY <2>2, <2>4, <3>1, WrittenFields DEF Same, SameContents
      <4>2. f \in spoiled
        <5>1. Prefix(b) # NoFile
          BY PrefixFacts, NoFileAssumption, <2>1 DEF Block
        <5> QED
          BY <2>2, <2>4, <4>1, <5>1, StreamFacts DEF New, At, Strays
      <4> QED
        BY <4>1, <4>2 DEF Trails
    <3> QED
      BY <3>1
  <2> QED
    BY <2>3, <2>4
<1> QED
  BY <1>1, <1>2

LEMMA DoneChanges ==
  ASSUME IInv, SafetyInv, RecvDone
  PROVE  \A f \in Files : SameContents(f) \/ Finishes(f)
<1>1. toW # << >> /\ toW[1].type = "done"
  BY Received DEF RecvDone
<1>2. CASE ~w.on
  BY <1>2 DEF RecvDone, SameContents
<1>3. CASE w.on
  <2>1. PICK ok : disk' = Renamed(w, ok)
    BY <1>3 DEF RecvDone
  <2>2. PICK n \in NumFiles .. NumFiles + first : Between(n)
    BY <1>1, <1>3 DEF SafetyInv, WriterAt, Before1
  <2>3. ASSUME NEW f \in Files, ~SameContents(f)
        PROVE  Finishes(f)
    <3>1. HasFile(w) /\ f = w.num
      BY <2>1, <2>3, RenamedFields DEF SameContents
    <3>2. f # n
      BY <2>2, <2>3, Numbers, Types
    <3> QED
      BY <1>3, <2>1, <2>2, <3>1, <3>2 DEF Finishes
  <2> QED
    BY <2>3
<1> QED
  BY <1>2, <1>3

LEMMA OthersKeepContents ==
  ASSUME IInv, [Next]_vars, ~RecvBlock, ~RecvDone
  PROVE  \A f \in Files : SameContents(f)
<1>1. disk' = disk \/ RemoveDownload => \A f \in Files : SameContents(f)
  BY RemovedFields DEF SameContents, RemoveDownload
<1>2. CASE User
  <2>1. CASE SendFiles \/ AddJob
    BY <1>1, <2>1 DEF SendFiles, AddJob, BeginJob
  <2>2. CASE ResumeJob
    BY <1>1, <2>2 DEF ResumeJob
  <2>3. CASE CancelJob
    BY <1>1, <2>3 DEF CancelJob
  <2>4. CASE SetConfirmOverrideFile
    BY <1>1, <2>4 DEF SetConfirmOverrideFile
  <2> QED
    BY <1>2, <2>1, <2>2, <2>3, <2>4 DEF User
<1>3. CASE Tick \/ Trouble
  BY <1>1, <1>3
     DEF Tick, Trouble, SendDigest, ReadBlock, EndJob, OpenError, ReadError, Rest
<1>4. CASE ReaderMessage
  BY <1>1, <1>4
     DEF ReaderMessage, RecvSend, RecvConfirm, RecvCancelRead, RecvAsk, RecvReport
<1>5. CASE WriterMessage
  <2>1. CASE RecvReceive \/ RecvDir \/ RecvConfirmWrite
    BY <1>1, <2>1 DEF RecvReceive, RecvDir, RecvConfirmWrite
  <2>2. CASE RecvDigest \/ CheckDigest
    BY <1>1, <2>2 DEF RecvDigest, CheckDigest
  <2>3. CASE RecvError \/ RecvCancelWrite
    BY <1>1, <2>3 DEF RecvError, RecvCancelWrite
  <2> QED
    BY <1>5, <2>1, <2>2, <2>3 DEF WriterMessage
<1>6. CASE Disconnect \/ Crash
  BY <1>1, <1>6 DEF Disconnect, Crash, Lost
<1>7. CASE UNCHANGED vars
  BY <1>1, <1>7 DEF vars
<1> QED
  BY <1>2, <1>3, <1>4, <1>5, <1>6, <1>7 DEF Next

LEMMA ContentsChange ==
  ASSUME IInv, IInv', SafetyInv, [Next]_vars
  PROVE  \A f \in Files : SameContents(f) \/ Finishes(f) \/ Trails(f)
BY BlockChanges, DoneChanges, OthersKeepContents

-----------------------------------------------------------------------------
\* A `.download` is a prefix of the source, for files of any size and any number of jobs,
\* cancellations, crashes, resumptions and failed calls of the file system: the length
\* is_write_need_confirmation takes is the place where the content breaks off, unless a failed
\* call has lost a block or an offset of the file or left the handle of write on it, or the
\* writing end has ignored an offset.
THEOREM PartsAlwaysPrefixes == Spec => []PartsArePrefixes
<1>1. SafetyInv => PartsArePrefixes
  BY DEF SafetyInv, Parts
<1> QED
  BY <1>1, SafetyAlways, PTL

\* After job_done, without a job_error and a cancel_transfer_job, every file of the job from
\* its first one on is whole under its final name, was to be kept, or is one that a failed
\* call of write, modify_time or set_stream_offset spoiled.  Which calls fail, in which job
\* and how many of them, is not restricted.
THEOREM DoneAlwaysDelivers == Spec => []DoneDelivers
<1>1. SafetyInv => DoneDelivers
  BY DEF SafetyInv, Delivered
<1> QED
  BY <1>1, SafetyAlways, PTL

\* modify_time gives the final name to the whole source and never to a part of it, and nothing
\* is appended to it afterwards: when the writing end goes on to another file or gets Done,
\* the reading end has left its file behind.  Excepted are a file with an older `.download`,
\* and one that a failed call spoiled before: of a file that cannot be opened, the blocks go
\* to the file before it, which is spoiled from the failure on.
THEOREM AlwaysRenamesWholeFiles == Spec => RenamesWholeFiles
<1> DEFINE A == \A f \in Files : disk'[f].data # disk[f].data
                              => disk'[f].data = Source(f) \/ f \in stale \union spoiled
<1>1. IInv /\ IInv' /\ SafetyInv /\ [Next]_vars => A
  <2> SUFFICES ASSUME IInv, IInv', SafetyInv, [Next]_vars,
                      NEW f \in Files, disk'[f].data # disk[f].data
               PROVE  disk'[f].data = Source(f) \/ f \in stale \union spoiled
    OBVIOUS
  <2>1. CASE Trails(f)
    BY <2>1 DEF Trails
  <2>2. CASE Finishes(f)
    <3>1. disk[f].part # NoFile /\ disk'[f].data = disk[f].part
      <4>1. PICK ok : disk'[f].data = ModifyTime(disk[f], ok).data
        BY <2>2, RenamedFields DEF Finishes
      <4> QED
        BY <4>1 DEF ModifyTime
    <3>2. f \in stale \union spoiled \/ w.stream = f
      BY <2>2, <3>1 DEF SafetyInv, Parts, Finishes
    <3>3. w.stream = f => f \in spoiled \/ disk[f].part = Source(f)
      BY <2>2, StreamFacts DEF Finishes, Between
    <3> QED
      BY <3>1, <3>2, <3>3
  <2> QED
    BY <2>1, <2>2, ContentsChange DEF SameContents
<1> HIDE DEF A
<1>2. IInv /\ IInv' /\ SafetyInv /\ [Next]_vars => [A]_vars
  BY <1>1
<1>3. [][A]_vars => RenamesWholeFiles
  BY PTL DEF RenamesWholeFiles, A
<1> QED
  BY <1>2, <1>3, SafetyAlways, PTL DEF Spec

\* A file that exists changes, in content or mtime, only with the agreement of
\* SetConfirmOverrideFile or the remembered strategy in this job, or because the writing end
\* of an upload was not told that it is to be kept -- also through a handle that a failed call
\* left on the file before the one the blocks are of.
THEOREM AlwaysOverwritesWithConsent == Spec => OverwriteNeedsConsent
<1> DEFINE A == \A f \in Files : disk[f].data # NoFile /\ <<disk'[f].data, disk'[f].src>> #
                                                         <<disk[f].data, disk[f].src>>
                              => f \in consent \union untold
<1>1. IInv /\ IInv' /\ SafetyInv /\ [Next]_vars => A
  <2> SUFFICES ASSUME IInv, IInv', SafetyInv, [Next]_vars, NEW f \in Files,
                      <<disk'[f].data, disk'[f].src>> # <<disk[f].data, disk[f].src>>
               PROVE  f \in consent \union untold
    OBVIOUS
  <2>1. Finishes(f) \/ Trails(f)
    BY ContentsChange DEF SameContents
  <2>2. CASE w.stream # NoStream
    BY <2>1, <2>2 DEF SafetyInv, Agreed, Finishes, Trails
  <2>3. CASE w.stream = NoStream
    BY <2>1, <2>3, StreamFacts DEF Finishes, Trails, Between
  <2> QED
    BY <2>2, <2>3
<1> HIDE DEF A
<1>2. IInv /\ IInv' /\ SafetyInv /\ [Next]_vars => [A]_vars
  BY <1>1
<1>3. [][A]_vars => OverwriteNeedsConsent
  BY PTL DEF OverwriteNeedsConsent, A
<1> QED
  BY <1>2, <1>3, SafetyAlways, PTL DEF Spec

-----------------------------------------------------------------------------
(* A job goes on: what the liveness properties rest on.  Whoever waits is  *)
(* owed something that is under way.                                       *)

Has(s, t) == \E i \in 1 .. Len(s) : s[i].type = t

\* The reading end waits for an answer.
Answered ==
  Ctl.on /\ Pending =>
    \/ Has(toW, "digest") \/ Has(toR, "ask") \/ Has(toR, "confirm") \/ Has(toR, "error")
    \/ asked # {} \/ "unanswered" \in events

\* The controlling end waits for the other one.
Attended ==
  Ctl.on /\ ~Ctl.last =>
    IF upload THEN w.on \/ Has(toW, "receive") \/ Has(toR, "error")
              ELSE r.on \/ Has(toR, "send") \/ Has(toW, "done") \/ Has(toW, "error")

\* The other end will hear that the controlling one has no job any more.
Told ==
  faults = 0 /\ ~Ctl.on =>
    IF upload THEN w.on \/ Has(toW, "receive") =>
                     Has(toW, "done") \/ Has(toW, "error") \/ Has(toW, "cancel")
              ELSE r.on \/ Has(toR, "send") => Has(toR, "cancel")

\* A reading end that goes on has not failed, and the writing end it sends to has not.
ErrorsAreFaults == faults = 0 /\ r.on => ~Has(toW, "error") /\ ~Has(toR, "error")

Ways ==
  /\ Has(toW, "cancel") => upload /\ ~r.on
  /\ Has(toR, "cancel") \/ Has(toW, "dir") => ~upload
  /\ ~upload => ~r.last

GoesOn == Answered /\ Attended /\ Told /\ ErrorsAreFaults /\ Ways

-----------------------------------------------------------------------------
LEMMA HasPushed ==
  \A s, t, m : Pushed(s, t, m) => \A x : Has(t, x) <=> Has(s, x) \/ m.type = x
<1> SUFFICES ASSUME NEW s, NEW t, NEW m, Pushed(s, t, m), NEW x
             PROVE  Has(t, x) <=> Has(s, x) \/ m.type = x
  OBVIOUS
<1>1. Len(t) = Len(s) + 1 /\ Len(s) \in Nat /\ t[Len(s) + 1] = m
      /\ \A i \in 1 .. Len(s) : t[i] = s[i]
  BY DEF Pushed
<1>2. ASSUME Has(t, x)
      PROVE  Has(s, x) \/ m.type = x
  <2>1. PICK i \in 1 .. Len(t) : t[i].type = x
    BY <1>2 DEF Has
  <2>2. CASE i = Len(s) + 1
    BY <1>1, <2>1, <2>2
  <2>3. CASE i # Len(s) + 1
    <3>1. i \in 1 .. Len(s) /\ s[i].type = x
      BY <1>1, <2>1, <2>3
    <3> QED
      BY <3>1 DEF Has
  <2> QED
    BY <2>2, <2>3
<1>3. ASSUME Has(s, x) \/ m.type = x
      PROVE  Has(t, x)
  <2>1. CASE Has(s, x)
    <3>1. PICK i \in 1 .. Len(s) : s[i].type = x
      BY <2>1 DEF Has
    <3>2. i \in 1 .. Len(t) /\ t[i].type = x
      BY <1>1, <3>1
    <3> QED
      BY <3>2 DEF Has
  <2>2. CASE m.type = x
    <3>1. Len(s) + 1 \in 1 .. Len(t) /\ t[Len(s) + 1].type = x
      BY <1>1, <2>2
    <3> QED
      BY <3>1 DEF Has
  <2> QED
    BY <1>3, <2>1, <2>2
<1> QED
  BY <1>2, <1>3

LEMMA HasPopped ==
  \A s, t : Popped(s, t) => \A x : /\ Has(t, x) => Has(s, x)
                                   /\ Has(s, x) => Has(t, x) \/ s[1].type = x
                                   /\ Has(s, s[1].type)
<1> SUFFICES ASSUME NEW s, NEW t, Popped(s, t), NEW x
             PROVE  /\ Has(t, x) => Has(s, x)
                    /\ Has(s, x) => Has(t, x) \/ s[1].type = x
                    /\ Has(s, s[1].type)
  OBVIOUS
<1>1. /\ Len(t) = Len(s) - 1 /\ Len(s) \in Nat \ {0} /\ 1 \in 1 .. Len(s)
      /\ \A i \in 1 .. Len(t) : i + 1 \in 1 .. Len(s) /\ t[i] = s[i + 1]
  BY DEF Popped
<1>2. Has(t, x) => Has(s, x)
  BY <1>1 DEF Has
<1>3. ASSUME Has(s, x)
      PROVE  Has(t, x) \/ s[1].type = x
  <2>1. PICK i \in 1 .. Len(s) : s[i].type = x
    BY <1>3 DEF Has
  <2>2. CASE i = 1
    BY <2>1, <2>2
  <2>3. CASE i # 1
    <3>1. i - 1 \in 1 .. Len(t) /\ t[i - 1] = s[(i - 1) + 1] /\ (i - 1) + 1 = i
      BY <1>1, <2>1, <2>3
    <3> QED
      BY <2>1, <3>1 DEF Has
  <2> QED
    BY <2>2, <2>3
<1>4. Has(s, s[1].type)
  BY <1>1 DEF Has
<1> QED
  BY <1>2, <1>3, <1>4

LEMMA HasFew ==
  /\ \A x : ~Has(<< >>, x)
  /\ \A m, x : Has(<< m >>, x) <=> m.type = x
<1>1. \A x : ~Has(<< >>, x)
  BY EmptyFacts DEF Has
<1>2. \A m : Len(<< m >>) = 1 /\ << m >>[1] = m
  OBVIOUS
<1>3. \A m, x : Has(<< m >>, x) <=> m.type = x
  BY <1>2 DEF Has
<1> QED
  BY <1>1, <1>3

\* What the messages under way tell of the two ends
LEMMA Standing ==
  ASSUME IInv, SafetyInv
  PROVE  /\ Has(toW, "done") => ~r.on
         /\ Has(toW, "receive") => upload /\ ~w.on /\ toW[1].type = "receive"
         /\ Has(toR, "send") => ~upload /\ ~r.on /\ toW = << >> /\ toR[1].type = "send"
         /\ Has(toR, "ask") \/ Has(toR, "done") \/ Has(toR, "error") => upload
         /\ Has(toR, "done") => ~r.on
         /\ Has(toR, "cancel") => ~w.on
         /\ Ctl.on /\ Ctl.last => toW = << >> /\ toR = << >>
         /\ asked # {} => Pending
<1>1. Has(toW, "done") => ~r.on
  BY DEF SafetyInv, QueueW, Has
<1>2. Has(toW, "receive") => upload /\ ~w.on /\ toW[1].type = "receive"
  BY DEF SafetyInv, Beginning, ReceiveFirst, Has
<1>3. Has(toR, "send") => ~upload /\ ~r.on /\ toW = << >> /\ toR[1].type = "send"
  BY DEF SafetyInv, Beginning, SendFirst, Has
<1>4. /\ Has(toR, "ask") \/ Has(toR, "done") \/ Has(toR, "error") => upload
      /\ Has(toR, "cancel") => ~w.on
  BY DEF SafetyInv, Question, Directions, Has
<1>5. Has(toR, "done") => ~r.on
  BY DEF SafetyInv, Delivered, InR, Has
<1>6. Ctl.on /\ Ctl.last => toW = << >> /\ toR = << >>
  BY DEF SafetyInv, Beginning, BeforeResume
<1>7. asked # {} => Pending
  BY DEF SafetyInv, Question, DialogOpen
<1> QED
  BY <1>1, <1>2, <1>3, <1>4, <1>5, <1>6, <1>7

\* The calls that fail are counted.
LEMMA FaultCounted ==
  ASSUME IInv
  PROVE  /\ Fault => faults' > 0
         /\ \A calls \in {ModifyCalls, Calls, RemoveCalls} : \A ok : Calling(ok, calls) =>
              faults' \in Nat /\ (faults' = 0 => faults = 0 /\ calls \subseteq ok)
         /\ \A j, f, ans, got : Seeks(j, f, ans, got) =>
              faults' \in Nat /\ (faults' = 0 => faults = 0)
<1>1. faults \in Nat
  BY DEF IInv, TypeOK
<1>2. \A n \in Nat : Failures(n) => faults' = faults + n
  BY DEF Failures
<1>3. Fault => faults' = faults + 1
  BY <1>2 DEF Fault
<1>4. ASSUME NEW calls \in {ModifyCalls, Calls, RemoveCalls}, NEW ok, Calling(ok, calls)
      PROVE  faults' \in Nat /\ (faults' = 0 => faults = 0 /\ calls \subseteq ok)
  <2>1. PICK n : n = Cardinality(calls \ ok)
    OBVIOUS
  <2>2. n \in Nat /\ (n = 0 => calls \ ok = {})
    BY <2>1, CallsFinite, FS_EmptySet
  <2>3. faults' = faults + n
    BY <1>2, <1>4, <2>1, <2>2 DEF Calling
  <2> QED
    BY <1>1, <2>2, <2>3
<1>5. ASSUME NEW j, NEW f, NEW ans, NEW got, Seeks(j, f, ans, got)
      PROVE  faults' \in Nat /\ (faults' = 0 => faults = 0)
  BY <1>1, <1>3, <1>5 DEF Seeks
<1> QED
  BY <1>1, <1>3, <1>4, <1>5

LEMMA GoesOnBegun ==
  IInv /\ SafetyInv /\ GoesOn /\ (SendFiles \/ AddJob \/ ResumeJob) => GoesOn'
<1> SUFFICES ASSUME IInv, SafetyInv, GoesOn, SendFiles \/ AddJob \/ ResumeJob
             PROVE  GoesOn'
  OBVIOUS
<1>1. \A n : Msg("receive", n).type = "receive" /\ Msg("send", n).type = "send"
  BY DEF Msg
<1>2. CASE SendFiles \/ AddJob
  <2>1. /\ upload => r'.on /\ ~r'.waiting
        /\ ~upload => w'.on /\ ~r'.on
        /\ \/ toW' = << >> /\ toR' = << >>
           \/ upload /\ toW' = << Msg("receive", first') >> /\ toR' = << >>
           \/ ~upload /\ toW' = << >> /\ toR' = << Msg("send", first') >>
    BY <1>2, Starts
  <2>2. /\ upload' = upload /\ (~upload => ~r'.last)
        /\ AddJob => IF upload THEN r'.last ELSE w'.last
        /\ SendFiles => toW' # << >> \/ toR' # << >>
    <3>1. ASSUME NEW n, NEW b \in BOOLEAN, BeginJob(n, b)
          PROVE  upload' = upload /\ IF upload THEN r'.last = b ELSE ~r'.last /\ w'.last = b
      BY <3>1 DEF BeginJob, NewReader, NewWriter, NoReader, NoWriter
    <3>2. SendFiles => toW' # << >> \/ toR' # << >>
      <4>1. ASSUME SendFiles
            PROVE  toW = << >> /\ toR = << >> /\ Request(FirstFile)
        BY <4>1, Zenon DEF SendFiles, BeginJob, Idle
      <4> QED
        BY <4>1, RequestSent, FirstFileAssumption
    <3> QED
      BY <1>2, <3>1, <3>2 DEF SendFiles, AddJob
  <2> QED
    BY <1>1, <1>2, <2>1, <2>2, HasFew
       DEF GoesOn, Answered, Attended, Told, ErrorsAreFaults, Ways, Ctl, Pending
<1>3. CASE ResumeJob
  <2>1. /\ upload' = upload
        /\ upload => r'.on /\ ~r'.waiting /\ toW' = << Msg("receive", first) >> /\ toR' = << >>
        /\ ~upload => r' = r /\ ~r.on /\ w'.on /\ toW' = << >>
                      /\ toR' = << Msg("send", first) >>
    BY <1>3, Resumes DEF SafetyInv
  <2> QED
    BY <1>1, <2>1, HasFew
       DEF GoesOn, Answered, Attended, Told, ErrorsAreFaults, Ways, Ctl, Pending
<1> QED
  BY <1>2, <1>3

LEMMA GoesOnCancelled == IInv /\ GoesOn /\ CancelJob => GoesOn'
<1> SUFFICES ASSUME IInv, GoesOn, CancelJob
             PROVE  GoesOn'
  OBVIOUS
<1>1. /\ Ctl.on /\ UNCHANGED upload /\ (faults' = 0 => faults = 0)
      /\ r' = IF upload THEN NoReader ELSE r
      /\ w' = IF upload THEN w ELSE NoWriter
      /\ IF upload THEN SendW(Msg("cancel", 0)) /\ toR' = toR
                   ELSE SendR(Msg("cancel", 0)) /\ toW' = toW
  BY FaultCounted DEF CancelJob, RemoveDownload
<1>2. PICK m : m = Msg("cancel", 0)
  OBVIOUS
<1>3. m \in ToWriter /\ m \in ToReader /\ m.type = "cancel"
  BY <1>2 DEF Msg, ToWriter, ToReader
<1>4. IF upload THEN Pushed(toW, toW', m) /\ toR' = toR ELSE Pushed(toR, toR', m) /\ toW' = toW
  BY <1>1, <1>2, <1>3, Sent
<1> QED
  BY <1>1, <1>3, <1>4, HasPushed, NoReaderFields
     DEF GoesOn, Answered, Attended, Told, ErrorsAreFaults, Ways, Ctl, Pending

LEMMA GoesOnDialog == IInv /\ SafetyInv /\ GoesOn /\ SetConfirmOverrideFile => GoesOn'
<1> SUFFICES ASSUME IInv, SafetyInv, GoesOn, SetConfirmOverrideFile
             PROVE  GoesOn'
  OBVIOUS
<1>1. PICK f \in asked, ans \in {Skip, From(0)} :
        /\ IF upload THEN r' = ReaderConfirm(r, f, ans) /\ UNCHANGED <<w, toR, faults>>
                     ELSE Answer(f, ans) /\ r' = r
        /\ UNCHANGED <<upload, toW, events>>
  <2>1. PICK f \in asked, overwrite \in BOOLEAN :
          LET ans == IF overwrite THEN From(0) ELSE Skip IN
          /\ IF upload THEN r' = ReaderConfirm(r, f, ans) /\ UNCHANGED <<w, toR, faults>>
                       ELSE Answer(f, ans) /\ r' = r
          /\ UNCHANGED <<upload, toW, events>>
    BY DEF SetConfirmOverrideFile
  <2>2. CASE overwrite
    BY <2>1, <2>2
  <2>3. CASE ~overwrite
    BY <2>1, <2>3
  <2> QED
    BY <2>2, <2>3
<1>2. Pending /\ f = r.num /\ f \in Files /\ ans \in Answers
  BY AnswerFields DEF SafetyInv, Question, DialogOpen, IInv, TypeOK
<1>3. CASE upload
  <2>1. r'.on = r.on /\ r'.last = r.last /\ (r'.waiting => r'.confirmed)
    BY <1>1, <1>2, <1>3, Types, ReaderConfirmFields
  <2> QED
    BY <1>1, <1>3, <2>1
       DEF GoesOn, Answered, Attended, Told, ErrorsAreFaults, Ways, Ctl, Pending
<1>4. CASE ~upload
  <2>1. w'.on = w.on /\ w'.last = w.last /\ (faults' = 0 => faults = 0)
    <3>1. PICK got, j : j = w /\ Seeks(j, f, ans, got) /\ w' = Confirm(w, f, got)
      BY <1>1, <1>4 DEF Answer
    <3>2. faults' = 0 => faults = 0
      BY <3>1, FaultCounted
    <3> QED
      BY <1>2, <3>1, <3>2, Types, WriterConfirmFields
  <2>2. Pushed(toR, toR', Ans(f, ans))
    BY <1>1, <1>2, <1>4, AnsFields, Sent DEF Answer
  <2>3. Ans(f, ans).type = "confirm"
    BY <1>2, AnsFields
  <2> QED
    BY <1>1, <1>4, <2>1, <2>2, <2>3, HasPushed
       DEF GoesOn, Answered, Attended, Told, ErrorsAreFaults, Ways, Ctl, Pending
<1> QED
  BY <1>3, <1>4

\* The reading end sends something.
LEMMA GoesOnSent ==
  ASSUME IInv, GoesOn, Reading, Rest' = Rest
  PROVE  \A m \in ToWriter :
           /\ Pushed(toW, toW', m)
           /\ IF m.type \in {"done", "error"} THEN ~r'.on /\ ~r'.last
              ELSE /\ m.type \in {"digest", "block"} /\ r'.on = r.on /\ r'.last = r.last
                   /\ m.type = "block" => ~r'.waiting \/ r'.confirmed
           /\ faults' = faults
           => GoesOn'
<1> SUFFICES ASSUME NEW m \in ToWriter, Pushed(toW, toW', m), faults' = faults,
                    IF m.type \in {"done", "error"} THEN ~r'.on /\ ~r'.last
                    ELSE /\ m.type \in {"digest", "block"} /\ r'.on = r.on /\ r'.last = r.last
                         /\ m.type = "block" => ~r'.waiting \/ r'.confirmed
             PROVE  GoesOn'
  OBVIOUS
<1>1. UNCHANGED <<upload, w, asked, toR, events>> /\ r.on /\ ~r.last
  BY RestFields DEF Reading
<1>2. \A x : Has(toW', x) <=> Has(toW, x) \/ m.type = x
  BY HasPushed
<1> QED
  BY <1>1, <1>2
     DEF GoesOn, Answered, Attended, Told, ErrorsAreFaults, Ways, Ctl, Pending

LEMMA GoesOnTick == IInv /\ GoesOn /\ Tick => GoesOn'
<1> SUFFICES ASSUME IInv, GoesOn, Tick
             PROVE  GoesOn'
  OBVIOUS
<1>1. /\ Reading /\ Rest' = Rest /\ faults' = faults
      /\ r \in Reader /\ r.num \in Nat /\ (r.num < NumFiles => r.num \in Files)
  BY Types, Numbers, Zenon DEF Tick, SendDigest, ReadBlock, EndJob
<1>2. CASE SendDigest
  <2>1. PICK m : m = [type |-> "digest", file |-> r.num, resume |-> r.resume]
    OBVIOUS
  <2>2. m \in ToWriter /\ m.type = "digest"
    BY <1>1, <1>2, <2>1 DEF SendDigest, ToWriter, Reader
  <2>3. SendW(m) /\ r' = [r EXCEPT !.open = TRUE, !.pos = 0, !.waiting = TRUE]
    BY <1>2, <2>1, Zenon DEF SendDigest
  <2>4. r'.on = r.on /\ r'.last = r.last
    BY <1>1, <2>3 DEF Reader
  <2> QED
    BY <1>1, <2>2, <2>3, <2>4, Sent, GoesOnSent
<1>3. CASE ReadBlock
  <2>1. PICK data \in Seq(Nat) :
          /\ SendW([type |-> "block", file |-> r.num, data |-> data])
          /\ r' = [r EXCEPT !.pos = @ + 1] \/ r' = NextFile(r)
    <3>1. << >> \in Seq(Nat) /\ << r.pos + 1 >> \in Seq(Nat)
      BY Types
    <3> QED
      BY <1>3, <3>1 DEF ReadBlock
  <2>2. PICK m : m = [type |-> "block", file |-> r.num, data |-> data]
    OBVIOUS
  <2>3. m \in ToWriter /\ m.type = "block"
    BY <1>1, <1>3, <2>2 DEF ReadBlock, ToWriter
  <2>4. r'.on = r.on /\ r'.last = r.last /\ (~r'.waiting \/ r'.confirmed)
    BY <1>1, <1>3, <2>1, NextFileFields DEF ReadBlock, Reader
  <2>5. SendW(m)
    BY <2>1, <2>2
  <2> QED
    BY <1>1, <2>3, <2>4, <2>5, Sent, GoesOnSent
<1>4. CASE EndJob
  <2>1. PICK t \in {"done", "error"} : SendW(Msg(t, r.num)) /\ r' = NoReader
    BY <1>4 DEF EndJob
  <2>2. PICK m : m = Msg(t, r.num)
    OBVIOUS
  <2>3. m \in ToWriter /\ m.type = t
    BY <1>1, <2>2 DEF Msg, ToWriter
  <2>4. ~r'.on /\ ~r'.last
    BY <2>1 DEF NoReader
  <2>5. SendW(m)
    BY <2>1, <2>2
  <2> QED
    BY <1>1, <2>1, <2>3, <2>4, <2>5, Sent, GoesOnSent
<1> QED
  BY <1>2, <1>3, <1>4 DEF Tick



\* After a failure nobody is told more than that.
LEMMA GoesOnTrouble == IInv /\ GoesOn /\ Trouble => GoesOn'
<1> SUFFICES ASSUME IInv, GoesOn, Trouble
             PROVE  GoesOn'
  OBVIOUS
<1>1. /\ UNCHANGED <<upload, w, asked, toR, events>> /\ r.on /\ ~r.last /\ faults' > 0
      /\ r \in Reader
  BY RestFields, Types, FaultCounted DEF Trouble, OpenError, ReadError, Reading
<1>2. PICK e, d : e = Msg("error", r.num + 1) /\ d = Msg("done", r.num + 1)
  OBVIOUS
<1>3. e \in ToWriter /\ d \in ToWriter /\ e.type = "error" /\ d.type = "done"
  BY <1>2, Types DEF Msg, ToWriter
<1>4. CASE ReadError
  <2>1. SendW(e) /\ r' = NextFile(r)
    BY <1>2, <1>4, Zenon DEF ReadError
  <2>2. r'.on = r.on /\ r'.last = r.last /\ ~r'.waiting
    BY <1>1, <2>1, NextFileFields
  <2>3. Pushed(toW, toW', e)
    BY <1>3, <2>1, Sent
  <2> QED
    BY <1>1, <1>3, <2>2, <2>3, HasPushed
       DEF GoesOn, Answered, Attended, Told, ErrorsAreFaults, Ways, Ctl, Pending
<1>5. CASE OpenError
  <2>1. toW' = toW \o << e, d >> /\ r' = NoReader
    BY <1>2, <1>5, Zenon DEF OpenError
  <2>2. toW \in Seq(ToWriter) /\ toW \o << e, d >> = Append(Append(toW, e), d)
        /\ Append(toW, e) \in Seq(ToWriter)
    BY <1>3, Types
  <2>3. \A x : Has(toW', x) <=> Has(toW, x) \/ x = "error" \/ x = "done"
    <3>1. PICK s : s = Append(toW, e)
      OBVIOUS
    <3>2. Pushed(toW, s, e) /\ Pushed(s, toW', d)
      BY <1>3, <2>1, <2>2, <3>1, AppendPushed
    <3> QED
      BY <1>3, <3>2, HasPushed
  <2>4. ~r'.on /\ ~r'.last
    BY <2>1 DEF NoReader
  <2> QED
    BY <1>1, <2>3, <2>4
       DEF GoesOn, Answered, Attended, Told, ErrorsAreFaults, Ways, Ctl, Pending
<1> QED
  BY <1>4, <1>5 DEF Trouble

-----------------------------------------------------------------------------
LEMMA GoesOnSend == IInv /\ SafetyInv /\ GoesOn /\ RecvSend => GoesOn'
<1> SUFFICES ASSUME IInv, SafetyInv, GoesOn, RecvSend
             PROVE  GoesOn'
  OBVIOUS
<1>1. /\ Popped(toR, toR') /\ toR[1].type = "send" /\ UNCHANGED <<upload, w, events, asked>>
  BY Received DEF RecvSend
<1>2. PICK m \in ToWriter :
        /\ SendW(m)
        /\ \/ m.type = "dir" /\ r'.on /\ ~r'.last /\ ~r'.waiting /\ faults' = faults
           \/ m.type = "error" /\ r' = r /\ faults' > 0
  <2>1. /\ Msg("dir", 0) \in ToWriter /\ Msg("dir", 0).type = "dir"
        /\ Msg("error", 0) \in ToWriter /\ Msg("error", 0).type = "error"
    BY DEF Msg, ToWriter
  <2>2. \A n : NewReader(n).on /\ ~NewReader(n).last /\ ~NewReader(n).waiting
    BY DEF NewReader, NoReader
  <2>3. \/ (\E n : r' = NewReader(n)) /\ SendW(Msg("dir", 0)) /\ faults' = faults
        \/ r' = r /\ SendW(Msg("error", 0)) /\ faults' > 0
    BY FaultCounted DEF RecvSend
  <2> QED
    BY <2>1, <2>2, <2>3
<1>3. \A x : Has(toW', x) <=> Has(toW, x) \/ m.type = x
  BY <1>2, Sent, HasPushed
<1>4. /\ \A x : Has(toR', x) => Has(toR, x)
      /\ Has(toR, "send")
      /\ \A x : Has(toR, x) => Has(toR', x) \/ x = "send"
  BY <1>1, HasPopped
<1>5. ~upload /\ ~r.on /\ \A x : ~Has(toW, x)
  BY <1>4, Standing, HasFew
<1>6. ~Has(toR, "error")
  BY <1>5, Standing
<1> QED
  BY <1>1, <1>2, <1>3, <1>4, <1>5, <1>6
     DEF GoesOn, Answered, Attended, Told, ErrorsAreFaults, Ways, Ctl, Pending

LEMMA GoesOnConfirm == IInv /\ SafetyInv /\ GoesOn /\ RecvConfirm => GoesOn'
<1> SUFFICES ASSUME IInv, SafetyInv, GoesOn, RecvConfirm
             PROVE  GoesOn'
  OBVIOUS
<1>1. /\ toR # << >> /\ Popped(toR, toR') /\ toR[1].type = "confirm" /\ toR[1] \in ToReader
      /\ Head(toR) = toR[1] /\ UNCHANGED <<upload, w, events, asked, toW, first>>
  BY Received DEF RecvConfirm
<1>2. r'.on = r.on /\ r'.last = r.last /\ (r.on => ~r'.waiting \/ r'.confirmed)
      /\ (faults' = 0 => faults = 0)
  <2>1. CASE r.on
    <3>1. toR[1].file = r.num /\ toR[1].ans \in Answers
      BY <1>1, <2>1, ReaderPops, ReaderFields
    <3>2. PICK got, j :
            /\ got \in {toR[1].ans, From(0)}
            /\ j = r /\ Seeks(j, r.num, toR[1].ans, got) /\ r' = ReaderConfirm(r, r.num, got)
      BY <1>1, <2>1, <3>1 DEF RecvConfirm
    <3>3. got \in Answers /\ (faults' = 0 => faults = 0)
      BY <3>1, <3>2, AnswerFields, FaultCounted
    <3> QED
      BY <3>2, <3>3, Types, ReaderConfirmFields
  <2>2. CASE ~r.on
    BY <2>2 DEF RecvConfirm
  <2> QED
    BY <2>1, <2>2
<1>3. /\ \A x : Has(toR', x) => Has(toR, x)
      /\ \A x : Has(toR, x) => Has(toR', x) \/ x = "confirm"
  BY <1>1, HasPopped
<1> QED
  BY <1>1, <1>2, <1>3
     DEF GoesOn, Answered, Attended, Told, ErrorsAreFaults, Ways, Ctl, Pending

LEMMA GoesOnCancelRead == IInv /\ SafetyInv /\ GoesOn /\ RecvCancelRead => GoesOn'
<1> SUFFICES ASSUME IInv, SafetyInv, GoesOn, RecvCancelRead
             PROVE  GoesOn'
  OBVIOUS
<1>1. /\ ~upload /\ Popped(toR, toR') /\ toR[1].type = "cancel"
      /\ UNCHANGED <<upload, w, events, asked, toW, faults>> /\ ~r'.on /\ ~r'.last
  BY Received DEF RecvCancelRead, NoReader
<1>2. /\ \A x : Has(toR', x) => Has(toR, x)
      /\ Has(toR, "cancel")
  BY <1>1, HasPopped
<1>3. ~w.on /\ ~Has(toR, "send")
  BY <1>1, <1>2, Standing
<1> QED
  BY <1>1, <1>2, <1>3
     DEF GoesOn, Answered, Attended, Told, ErrorsAreFaults, Ways, Ctl, Pending

LEMMA GoesOnReport == IInv /\ SafetyInv /\ GoesOn /\ RecvReport => GoesOn'
<1> SUFFICES ASSUME IInv, SafetyInv, GoesOn, RecvReport
             PROVE  GoesOn'
  OBVIOUS
<1>1. /\ Popped(toR, toR') /\ UNCHANGED <<upload, w, toW, faults>>
      /\ \/ toR[1].type = "done" /\ r' = r
         \/ toR[1].type = "error" /\ ~r'.on /\ ~r'.last
  BY Received DEF RecvReport, NoReader
<1>2. /\ \A x : Has(toR', x) => Has(toR, x)
      /\ Has(toR, "done") \/ Has(toR, "error")
      /\ toR[1].type = "error" => Has(toR, "error")
      /\ toR[1].type = "done" => Has(toR, "done")
  BY <1>1, HasPopped
<1>3. upload /\ (Has(toR, "done") => ~r.on)
  BY <1>2, Standing
<1> QED
  BY <1>1, <1>2, <1>3
     DEF GoesOn, Answered, Attended, Told, ErrorsAreFaults, Ways, Ctl, Pending

LEMMA GoesOnAsk == IInv /\ SafetyInv /\ GoesOn /\ RecvAsk => GoesOn'
<1> SUFFICES ASSUME IInv, SafetyInv, GoesOn, RecvAsk
             PROVE  GoesOn'
  OBVIOUS
<1>1. /\ toR # << >> /\ Popped(toR, toR') /\ toR[1].type = "ask" /\ toR[1] \in ToReader
      /\ Head(toR) = toR[1] /\ UNCHANGED <<upload, w, events, first>>
  BY Received DEF RecvAsk
<1>2. /\ \A x : Has(toR', x) => Has(toR, x)
      /\ \A x : Has(toR, x) => Has(toR', x) \/ x = "ask"
      /\ Has(toR, "ask")
  BY <1>1, HasPopped
<1>3. upload
  BY <1>2, Standing
<1>4. CASE ~r.on
  <2>1. UNCHANGED <<r, toW, asked, faults>>
    BY <1>4 DEF RecvAsk
  <2> QED
    BY <1>1, <1>2, <1>3, <1>4, <2>1
       DEF GoesOn, Answered, Attended, Told, ErrorsAreFaults, Ways, Ctl, Pending
<1>5. CASE r.on
  <2>1. toR[1].file = r.num /\ toR[1].off \in Nat /\ r.num \in Files
    BY <1>1, <1>5, ReaderPops, ReaderFields
  <2>2. \/ \E ans, got, j :
             /\ ans \in Answers /\ got \in Answers /\ j = r /\ Seeks(j, r.num, ans, got) /\ r' = ReaderConfirm(r, r.num, got)
             /\ SendW(Ans(r.num, ans))
        \/ asked' # {} /\ UNCHANGED <<r, toW, faults>>
    <3> DEFINE off == IF r.resume THEN toR[1].off ELSE 0
               ans == IF off > 0 THEN From(off) ELSE IF strategy = "yes" THEN From(0) ELSE Skip
    <3>1. CASE off > 0 \/ strategy # "ask"
      <4>1. PICK got \in {ans, From(0)} :
              /\ Seeks(r, r.num, ans, got) /\ r' = ReaderConfirm(r, r.num, got)
              /\ SendW(Ans(r.num, ans))
        BY <1>1, <1>5, <2>1, <3>1 DEF RecvAsk
      <4>2. ans \in Answers /\ From(0) \in Answers
        BY <2>1, AnswerFields
      <4> HIDE DEF ans
      <4>3. got \in Answers
        BY <4>1, <4>2
      <4> QED
        BY <4>1, <4>2, <4>3
    <3>2. CASE ~(off > 0 \/ strategy # "ask")
      BY <1>1, <1>5, <2>1, <3>2 DEF RecvAsk
    <3> QED
      BY <3>1, <3>2
  <2>3. CASE asked' # {} /\ UNCHANGED <<r, toW, faults>>
    BY <1>1, <1>2, <1>3, <1>5, <2>3
       DEF GoesOn, Answered, Attended, Told, ErrorsAreFaults, Ways, Ctl, Pending
  <2>4. ASSUME NEW ans \in Answers, NEW got \in Answers, NEW j, j = r,
               Seeks(j, r.num, ans, got), r' = ReaderConfirm(r, r.num, got), SendW(Ans(r.num, ans))
        PROVE  GoesOn'
    <3>1. r'.on = r.on /\ r'.last = r.last /\ (~r'.waiting \/ r'.confirmed)
          /\ (faults' = 0 => faults = 0)
      BY <2>4, Types, ReaderConfirmFields, FaultCounted
    <3>2. \A x : Has(toW', x) <=> Has(toW, x) \/ x = "confirm"
      <4>1. PICK m : m = Ans(r.num, ans)
        OBVIOUS
      <4>2. m \in ToWriter /\ m.type = "confirm"
        BY <2>1, <4>1, AnsFields
      <4> QED
        BY <2>4, <4>1, <4>2, Sent, HasPushed
    <3> QED
      BY <1>1, <1>2, <1>3, <1>5, <3>1, <3>2
         DEF GoesOn, Answered, Attended, Told, ErrorsAreFaults, Ways, Ctl, Pending
  <2> QED
    BY <2>2, <2>3, <2>4
<1> QED
  BY <1>4, <1>5

\* The writing end takes a message that is neither an end nor a digest.
LEMMA GoesOnWritten ==
  ASSUME IInv, SafetyInv, GoesOn, Popped(toW, toW'), UNCHANGED <<upload, r, asked, events>>,
         toW[1].type \in {"receive", "dir", "confirm", "block"},
         w.on => w'.on, ~upload => w'.on = w.on /\ w'.last = w.last,
         w'.on => w.on \/ toW[1].type = "receive",
         \/ toR' = toR
         \/ upload /\ faults' > 0 /\ \A x : Has(toR', x) <=> Has(toR, x) \/ x = "error",
         toW[1].type = "receive" => w'.on \/ Has(toR', "error"),
         faults' = 0 => faults = 0
  PROVE  GoesOn'
<1>1. /\ \A x : Has(toW', x) => Has(toW, x)
      /\ \A x : Has(toW, x) => Has(toW', x) \/ toW[1].type = x
      /\ Has(toW, toW[1].type)
  BY HasPopped
<1>2. Has(toW, "receive") => upload
  BY Standing
<1> QED
  BY <1>1, <1>2
     DEF GoesOn, Answered, Attended, Told, ErrorsAreFaults, Ways, Ctl, Pending

LEMMA ErrorSent ==
  ASSUME IInv
  PROVE  \A n \in Nat : SendR(Msg("error", n)) =>
           \A x : Has(toR', x) <=> Has(toR, x) \/ x = "error"
<1> SUFFICES ASSUME NEW n \in Nat, SendR(Msg("error", n))
             PROVE  \A x : Has(toR', x) <=> Has(toR, x) \/ x = "error"
  OBVIOUS
<1>1. PICK m : m = Msg("error", n)
  OBVIOUS
<1>2. m.type = "error" /\ Pushed(toR, toR', m)
  BY <1>1, ReportSent, MsgFields
<1> QED
  BY <1>2, HasPushed

LEMMA GoesOnReceive == IInv /\ SafetyInv /\ GoesOn /\ RecvReceive => GoesOn'
<1> SUFFICES ASSUME IInv, SafetyInv, GoesOn, RecvReceive
             PROVE  GoesOn'
  OBVIOUS
<1>1. Popped(toW, toW') /\ toW[1].type = "receive" /\ UNCHANGED <<upload, r, asked, events>>
  BY Received DEF RecvReceive
<1>2. upload /\ ~w.on
  BY <1>1, HasPopped, Standing
<1>3. \/ w'.on /\ toR' = toR /\ faults' = faults
      \/ /\ faults' > 0 /\ w' = w
         /\ \A x : Has(toR', x) <=> Has(toR, x) \/ x = "error"
  BY FaultCounted, ErrorSent DEF RecvReceive, NewWriter, NoWriter
<1> QED
  BY <1>1, <1>2, <1>3, GoesOnWritten

LEMMA GoesOnDir == IInv /\ SafetyInv /\ GoesOn /\ RecvDir => GoesOn'
<1> SUFFICES ASSUME IInv, SafetyInv, GoesOn, RecvDir
             PROVE  GoesOn'
  OBVIOUS
<1>1. /\ Popped(toW, toW') /\ toW[1].type = "dir" /\ UNCHANGED <<upload, r>>
  BY Received DEF RecvDir
<1>2. CASE w'.on = w.on
  <2>1. ~w.on => UNCHANGED <<w, asked, events, toR, faults>>
    BY DEF RecvDir
  <2>2. w.on => w' = [w EXCEPT !.files = TRUE] /\ UNCHANGED <<asked, events, toR, faults>>
    BY <1>2, NoReaderFields DEF RecvDir
  <2>3. w'.last = w.last
    BY <2>1, <2>2, Types DEF Writer
  <2> QED
    BY <1>1, <1>2, <2>1, <2>2, <2>3, GoesOnWritten
<1>3. CASE w'.on # w.on
  <2>1. ~w'.on /\ faults' > 0 /\ SendR(Msg("cancel", 0))
    <3>1. w' # IF w.on THEN [w EXCEPT !.files = TRUE] ELSE w
      BY <1>3, Types DEF Writer
    <3> QED
      BY <3>1, FaultCounted, NoReaderFields DEF RecvDir
  <2>2. ~upload /\ \A x : Has(toW', x) => Has(toW, x)
    <3>1. Has(toW, "dir") /\ \A x : Has(toW', x) => Has(toW, x)
      BY <1>1, HasPopped
    <3> QED
      BY <3>1 DEF GoesOn, Ways
  <2> QED
    BY <1>1, <2>1, <2>2
       DEF GoesOn, Answered, Attended, Told, ErrorsAreFaults, Ways, Ctl
<1> QED
  BY <1>2, <1>3

LEMMA GoesOnConfirmWrite == IInv /\ SafetyInv /\ GoesOn /\ RecvConfirmWrite => GoesOn'
<1> SUFFICES ASSUME IInv, SafetyInv, GoesOn, RecvConfirmWrite
             PROVE  GoesOn'
  OBVIOUS
<1>1. /\ Popped(toW, toW') /\ toW[1].type = "confirm" /\ toW[1] \in ToWriter
      /\ Head(toW) = toW[1] /\ UNCHANGED <<upload, r, asked, events, toR>>
  BY Received DEF RecvConfirmWrite
<1>2. w'.on = w.on /\ w'.last = w.last /\ (faults' = 0 => faults = 0)
  <2>1. CASE ~w.on
    BY <2>1 DEF RecvConfirmWrite
  <2>2. CASE w.on
    <3>1. PICK f, ans, got, j :
            f = toW[1].file /\ j = w /\ Seeks(j, f, ans, got) /\ w' = Confirm(w, f, got)
      BY <1>1, <2>2 DEF RecvConfirmWrite
    <3>2. f \in Files /\ (faults' = 0 => faults = 0)
      BY <1>1, <3>1, WriterFields, FaultCounted
    <3> QED
      BY <3>1, <3>2, Types, WriterConfirmFields
  <2> QED
    BY <2>1, <2>2
<1> QED
  BY <1>1, <1>2, GoesOnWritten

LEMMA GoesOnBlock == IInv /\ SafetyInv /\ GoesOn /\ RecvBlock => GoesOn'
<1> SUFFICES ASSUME IInv, SafetyInv, GoesOn, RecvBlock
             PROVE  GoesOn'
  OBVIOUS
<1>1. /\ Popped(toW, toW') /\ toW[1].type = "block" /\ UNCHANGED <<upload, r, asked, events>>
      /\ toW[1] \in ToWriter /\ Head(toW) = toW[1]
  BY Received DEF RecvBlock
<1>2. CASE ~w.on
  <2>1. UNCHANGED <<w, toR, faults>>
    BY <1>2 DEF RecvBlock
  <2> QED
    BY <1>1, <2>1, GoesOnWritten
<1>3. CASE w.on
  <2>1. PICK f, data, ok :
          /\ f = toW[1].file /\ Calling(ok, Calls) /\ w' = Moved(f, ok)
          /\ IF upload /\ Fails(f, data, ok) THEN SendR(Msg("error", f)) ELSE UNCHANGED toR
    BY <1>1, <1>3 DEF RecvBlock
  <2>2. f \in Files /\ f \in Nat
    BY <1>1, <2>1, WriterFields
  <2>3. w'.on = w.on /\ w'.last = w.last
    <3>1. \/ w' = w \/ w' = [w EXCEPT !.num = f, !.stream = f]
          \/ w' = [w EXCEPT !.num = f, !.stream = @]
      BY <2>1 DEF Moved
    <3> QED
      BY <3>1, Types DEF Writer
  <2>4. faults' \in Nat /\ (faults' = 0 => faults = 0 /\ Calls \subseteq ok)
    BY <2>1, FaultCounted
  <2>5. Fails(f, data, ok) => faults' > 0
    <3>1. Calls \subseteq ok => ~Fails(f, data, ok)
      BY DEF Fails, Unopened, Synced, Opens, Calls
    <3> QED
      BY <2>4, <3>1
  <2>6. \/ toR' = toR
        \/ upload /\ faults' > 0 /\ \A x : Has(toR', x) <=> Has(toR, x) \/ x = "error"
    BY <2>1, <2>2, <2>5, ErrorSent
  <2> QED
    BY <1>1, <1>3, <2>3, <2>4, <2>6, GoesOnWritten
<1> QED
  BY <1>2, <1>3

LEMMA GoesOnDigest == IInv /\ SafetyInv /\ GoesOn /\ RecvDigest => GoesOn'
<1> SUFFICES ASSUME IInv, SafetyInv, GoesOn, RecvDigest
             PROVE  GoesOn'
  OBVIOUS
<1>1. /\ ~upload /\ Popped(toW, toW') /\ toW[1].type = "digest" /\ UNCHANGED <<upload, r>>
      /\ toW[1] \in ToWriter /\ Head(toW) = toW[1]
  BY Received DEF RecvDigest
<1>2. /\ \A x : Has(toW', x) => Has(toW, x)
      /\ \A x : Has(toW, x) => Has(toW', x) \/ x = "digest"
  BY <1>1, HasPopped
<1>4. CASE ~w.on
  <2>1. UNCHANGED <<w, toR, faults>>
    BY <1>4 DEF RecvDigest
  <2> QED
    BY <1>1, <1>2, <1>4, <2>1
       DEF GoesOn, Answered, Attended, Told, ErrorsAreFaults, Ways, Ctl, Pending
<1>5. CASE w.on
  <2>1. \/ \E ans \in Answers : Answer(toW[1].file, ans)
        \/ /\ asked' # {} \/ "unanswered" \in events'
           /\ UNCHANGED <<w, toR>> /\ (faults' = 0 => faults = 0)
    <3>1. /\ \A n \in Nat : From(n) \in Answers
          /\ Skip \in Answers
      BY AnswerFields
    <3>2. Resumable(toW[1].file, w.resume) \in Nat
      <4>1. toW[1].file \in Files /\ w.resume \in BOOLEAN /\ disk \in Disk
        BY <1>1, WriterFields, Types DEF Writer
      <4> QED
        BY <4>1, ResumableType
    <3>3. PICK n \in Nat : n = Resumable(toW[1].file, w.resume)
      BY <3>2
    <3>4. \/ \E ans \in {From(n), From(0), Skip} : Answer(toW[1].file, ans)
          \/ asked' = asked \union {toW[1].file} /\ UNCHANGED <<w, toR, faults>>
          \/ events' = events \union {"unanswered"} /\ UNCHANGED <<w, toR>> /\ Fault
      BY <1>1, <1>5, <3>3 DEF RecvDigest
    <3>5. asked' = asked \union {toW[1].file} => asked' # {}
      OBVIOUS
    <3> QED
      BY <3>1, <3>4, <3>5, FaultCounted
  <2>2. CASE /\ asked' # {} \/ "unanswered" \in events'
             /\ UNCHANGED <<w, toR>> /\ (faults' = 0 => faults = 0)
    BY <1>1, <1>2, <1>5, <2>2
       DEF GoesOn, Answered, Attended, Told, ErrorsAreFaults, Ways, Ctl, Pending
  <2>3. ASSUME NEW ans \in Answers, Answer(toW[1].file, ans)
        PROVE  GoesOn'
    <3>1. w'.on = w.on /\ w'.last = w.last /\ (faults' = 0 => faults = 0)
      <4>1. PICK f, got, j : f = toW[1].file /\ j = w /\ Seeks(j, f, ans, got) /\ w' = Confirm(w, f, got)
        BY <2>3 DEF Answer
      <4>2. f \in Files /\ (faults' = 0 => faults = 0)
        BY <1>1, <4>1, WriterFields, FaultCounted
      <4> QED
        BY <4>1, <4>2, Types, WriterConfirmFields
    <3>2. \A x : Has(toR', x) <=> Has(toR, x) \/ x = "confirm"
      <4>1. PICK m : m = Ans(toW[1].file, ans)
        OBVIOUS
      <4>2. m \in ToReader /\ m.type = "confirm"
        BY <1>1, <4>1, AnsFields, WriterFields
      <4> QED
        BY <2>3, <4>1, <4>2, Sent, HasPushed DEF Answer
    <3>3. upload' = upload /\ r' = r /\ ~upload /\ w'.on
      BY <1>1, <1>5, <3>1
    <3>4. Answered' /\ Told'
      BY <3>2, <3>3 DEF Answered, Told, Ctl
    <3>5. Attended'
      BY <1>2, <1>5, <3>1, <3>2, <3>3 DEF GoesOn, Attended, Ctl
    <3>6. ErrorsAreFaults' /\ Ways'
      BY <1>2, <3>1, <3>2, <3>3 DEF GoesOn, ErrorsAreFaults, Ways
    <3> QED
      BY <3>4, <3>5, <3>6 DEF GoesOn
  <2> QED
    BY <2>1, <2>2, <2>3
<1> QED
  BY <1>4, <1>5

LEMMA GoesOnCheck == IInv /\ SafetyInv /\ GoesOn /\ CheckDigest => GoesOn'
<1> SUFFICES ASSUME IInv, SafetyInv, GoesOn, CheckDigest
             PROVE  GoesOn'
  OBVIOUS
<1>1. /\ upload /\ Popped(toW, toW') /\ toW[1].type = "digest"
      /\ toW # << >> /\ UNCHANGED <<upload, r, w, asked, events>>
      /\ toW[1] \in ToWriter /\ Head(toW) = toW[1]
  BY Received DEF CheckDigest, job
<1>2. /\ \A x : Has(toW', x) => Has(toW, x)
      /\ \A x : Has(toW, x) => Has(toW', x) \/ x = "digest"
  BY <1>1, HasPopped
<1>3. ~(Ctl.on /\ Ctl.last) /\ ~Has(toW, "receive")
  BY <1>1, Standing
<1>4. CASE ~w.on
  <2>1. UNCHANGED <<toR, faults>>
    BY <1>4 DEF CheckDigest
  <2> QED
    BY <1>1, <1>2, <1>3, <1>4, <2>1
       DEF GoesOn, Answered, Attended, Told, ErrorsAreFaults, Ways, Ctl, Pending
<1>5. CASE w.on
  <2> DEFINE f == toW[1].file
             n == Resumable(f, toW[1].resume)
  <2>1. f \in Files /\ f \in Nat
    BY <1>1, WriterFields
  <2>2. n \in Nat
    <3>1. toW[1].resume \in BOOLEAN
      BY <1>1, WriterHead DEF IInv
    <3> QED
      BY <2>1, <3>1, Types, ResumableType
  <2>3. \/ SendR([type |-> "ask", file |-> f, off |-> n]) /\ faults' = faults
        \/ SendR(Ans(f, From(0))) /\ faults' = faults
        \/ SendR(Msg("error", f)) /\ faults' > 0
    BY <1>1, <1>5, FaultCounted DEF CheckDigest
  <2>4. PICK g, k : g = f /\ k = n
    OBVIOUS
  <2>5. /\ [type |-> "ask", file |-> g, off |-> k] \in ToReader
        /\ Ans(g, From(0)) \in ToReader /\ Ans(g, From(0)).type = "confirm"
        /\ Msg("error", g) \in ToReader /\ Msg("error", g).type = "error"
    <3>1. From(0) \in Answers
      BY AnswerFields
    <3>2. [type |-> "ask", file |-> g, off |-> k] \in ToReader
      BY <2>1, <2>2, <2>4 DEF ToReader
    <3>3. Msg("error", g) \in ToReader
      BY <2>1, <2>4 DEF Msg, ToReader
    <3> QED
      BY <2>1, <2>4, <3>1, <3>2, <3>3, AnsFields, MsgFields
  <2> HIDE DEF f, n
  <2>6. PICK m \in ToReader : /\ SendR(m) /\ m.type \in {"ask", "confirm", "error"}
                              /\ IF m.type = "error" THEN faults' > 0 ELSE faults' = faults
    BY <2>3, <2>4, <2>5
  <2>7. \A x : Has(toR', x) <=> Has(toR, x) \/ m.type = x
    BY <2>6, Sent, HasPushed
  <2> QED
    BY <1>1, <1>2, <1>3, <1>5, <2>6, <2>7
       DEF GoesOn, Answered, Attended, Told, ErrorsAreFaults, Ways, Ctl, Pending
<1> QED
  BY <1>4, <1>5

LEMMA GoesOnDone == IInv /\ SafetyInv /\ GoesOn /\ RecvDone => GoesOn'
<1> SUFFICES ASSUME IInv, SafetyInv, GoesOn, RecvDone
             PROVE  GoesOn'
  OBVIOUS
<1>1. /\ Popped(toW, toW') /\ toW[1].type = "done" /\ UNCHANGED <<upload, r>>
      /\ toW # << >> /\ ~w'.on /\ (faults' = 0 => faults = 0)
  BY Received, NoReaderFields, FaultCounted DEF RecvDone
<1>2. /\ \A x : Has(toW', x) => Has(toW, x)
      /\ Has(toW, "done")
  BY <1>1, HasPopped
<1>3. ~r.on /\ ~Has(toW, "receive") /\ ~Has(toR, "send")
  BY <1>1, <1>2, Standing
<1>4. toR' = toR \/ (upload /\ \A x : Has(toR', x) <=> Has(toR, x) \/ x = "done")
  <2>1. PICK m : m = Msg("done", 0)
    OBVIOUS
  <2>2. m.type = "done" /\ (SendR(m) => Pushed(toR, toR', m))
    BY <2>1, ReportSent, MsgFields
  <2>3. toR' = toR \/ (upload /\ SendR(m))
    BY <2>1 DEF RecvDone
  <2> QED
    BY <2>2, <2>3, HasPushed
<1> QED
  BY <1>1, <1>2, <1>3, <1>4
     DEF GoesOn, Answered, Attended, Told, ErrorsAreFaults, Ways, Ctl, Pending

LEMMA GoesOnError == IInv /\ SafetyInv /\ GoesOn /\ RecvError => GoesOn'
<1> SUFFICES ASSUME IInv, SafetyInv, GoesOn, RecvError
             PROVE  GoesOn'
  OBVIOUS
<1>1. /\ Popped(toW, toW') /\ toW[1].type = "error" /\ UNCHANGED <<upload, r, faults>>
      /\ toW # << >> /\ ~w'.on
  BY Received, NoReaderFields DEF RecvError
<1>2. /\ \A x : Has(toW', x) => Has(toW, x)
      /\ Has(toW, "error")
  BY <1>1, HasPopped
<1>3. ~Has(toW, "receive") /\ ~Has(toR, "send") /\ ~(Ctl.on /\ Ctl.last)
  BY <1>1, Standing
<1>4. \/ toR' = toR /\ (upload => ~w.on)
      \/ upload /\ \A x : Has(toR', x) <=> Has(toR, x) \/ x = "error"
  BY ErrorSent DEF RecvError
<1>5. faults = 0 => ~r.on
  BY <1>2 DEF GoesOn, ErrorsAreFaults
<1>6. upload /\ r.on => Has(toR', "error")
  BY <1>3, <1>4 DEF GoesOn, Attended, Ctl
<1>7. Answered' /\ Attended'
  BY <1>1, <1>6 DEF Answered, Attended, Ctl, Pending
<1>8. Told'
  BY <1>1, <1>2, <1>3, <1>4, <1>5 DEF Told, Ctl
<1>9. ErrorsAreFaults' /\ Ways'
  BY <1>1, <1>2, <1>4, <1>5 DEF GoesOn, ErrorsAreFaults, Ways
<1> QED
  BY <1>7, <1>8, <1>9 DEF GoesOn

LEMMA GoesOnCancelWrite == IInv /\ SafetyInv /\ GoesOn /\ RecvCancelWrite => GoesOn'
<1> SUFFICES ASSUME IInv, SafetyInv, GoesOn, RecvCancelWrite
             PROVE  GoesOn'
  OBVIOUS
<1>1. /\ Popped(toW, toW') /\ toW[1].type = "cancel" /\ toW # << >>
      /\ UNCHANGED <<upload, r, toR, asked, events>> /\ ~w'.on /\ (faults' = 0 => faults = 0)
  BY Received, NoReaderFields, FaultCounted DEF RecvCancelWrite, RemoveDownload
<1>2. /\ \A x : Has(toW', x) => Has(toW, x)
      /\ Has(toW, "cancel")
  BY <1>1, HasPopped
<1>3. ~Has(toW, "receive")
  BY <1>1, Standing
<1> QED
  BY <1>1, <1>2, <1>3
     DEF GoesOn, Answered, Attended, Told, ErrorsAreFaults, Ways, Ctl, Pending

\* Without an end and without a message there is nothing to wait for.
LEMMA GoesOnLost ==
  (r' = NoReader /\ w' = NoWriter /\ toW' = << >> /\ toR' = << >>) => GoesOn'
<1>1. ~NoReader.on /\ ~NoReader.last /\ ~NoWriter.on
  BY DEF NoReader, NoWriter
<1> QED
  BY <1>1, HasFew
     DEF GoesOn, Answered, Attended, Told, ErrorsAreFaults, Ways, Ctl, Pending

LEMMA GoesOnAtFirst == Init => GoesOn
<1>1. ~NoReader.on /\ ~NoReader.last /\ ~NoWriter.on
  BY DEF NoReader, NoWriter
<1> QED
  BY <1>1, HasFew
     DEF Init, GoesOn, Answered, Attended, Told, ErrorsAreFaults, Ways, Ctl, Pending

LEMMA GoesOnStep == IInv /\ SafetyInv /\ GoesOn /\ [Next]_vars => GoesOn'
<1> SUFFICES ASSUME IInv, SafetyInv, GoesOn, [Next]_vars
             PROVE  GoesOn'
  OBVIOUS
<1>1. CASE User
  BY <1>1, GoesOnBegun, GoesOnCancelled, GoesOnDialog DEF User
<1>2. CASE Tick \/ Trouble
  BY <1>2, GoesOnTick, GoesOnTrouble
<1>3. CASE ReaderMessage
  BY <1>3, GoesOnSend, GoesOnConfirm, GoesOnCancelRead, GoesOnAsk, GoesOnReport
     DEF ReaderMessage
<1>4. CASE WriterMessage
  BY <1>4, GoesOnReceive, GoesOnDir, GoesOnDigest, GoesOnCheck, GoesOnConfirmWrite,
     GoesOnBlock, GoesOnDone, GoesOnError, GoesOnCancelWrite DEF WriterMessage
<1>5. CASE Disconnect \/ Crash
  BY <1>5, GoesOnLost DEF Disconnect, Crash, Lost
<1>6. CASE UNCHANGED vars
  <2>1. UNCHANGED <<upload, r, w, asked, toW, toR, faults, events>>
    BY <1>6 DEF vars, job, net
  <2> QED
    BY <2>1 DEF GoesOn, Answered, Attended, Told, ErrorsAreFaults, Ways, Ctl, Pending
<1> QED
  BY <1>1, <1>2, <1>3, <1>4, <1>5, <1>6 DEF Next

LEMMA AlwaysGoesOn == Spec => [](SafetyInv /\ GoesOn)
<1>1. Init => GoesOn
  BY GoesOnAtFirst
<1>2. IInv /\ SafetyInv /\ GoesOn /\ [Next]_vars => GoesOn'
  BY GoesOnStep
<1> QED
  BY <1>1, <1>2, SafetyAlways, PTL DEF Spec

-----------------------------------------------------------------------------
\* Some message can be taken (a cancel only by its own handler, FileAction::Cancel of a
\* download or FS::CancelWrite of an upload), or handle_read_jobs has something to do.
CanGoOn ==
  \/ toW # << >> /\ (Head(toW).type = "cancel" => upload)
  \/ toR # << >> /\ (Head(toR).type = "cancel" => ~upload)
  \/ Reading /\ (r.num >= NumFiles \/ r.confirmed \/ ~r.waiting)

\* The job of the controlling end is never stuck: as long as override_file_confirm is not
\* open and every digest was answered, a message is under way or the timer has work.
NeverStuck == Ctl.on /\ ~Ctl.last /\ asked = {} => CanGoOn \/ "unanswered" \in events

\* Without failures, Done, Error or Cancel is under way to an end that still has a job that
\* the controlling end has dropped (cancel_transfer_job, handle_read_jobs).
NotLeftBehind ==
  faults = 0 /\ Peer.on /\ ~Ctl.on =>
    IF upload THEN Has(toW, "done") \/ Has(toW, "error") \/ Has(toW, "cancel")
              ELSE Has(toR, "cancel")

\* No transfer deadlocks: in every state, with any number of files, jobs and failures, a
\* running job has a message to take or a tick to make, or waits for the user.  The
\* exception is the digest of a download whose existing file could not be examined
\* (is_write_need_confirmation fails and the io_loop only logs it).
THEOREM JobsNeverStuck == Spec => []NeverStuck
<1>1. IInv /\ SafetyInv /\ GoesOn => NeverStuck
  <2> SUFFICES ASSUME IInv, SafetyInv, GoesOn, Ctl.on, ~Ctl.last, asked = {},
                      "unanswered" \notin events
               PROVE  CanGoOn
    BY DEF NeverStuck
  <2>1. /\ \A x : Has(toW, x) => toW # << >>
        /\ \A x : Has(toR, x) => toR # << >>
    BY HasFew
  <2>2. /\ toW # << >> => Has(toW, Head(toW).type)
        /\ toR # << >> => Has(toR, Head(toR).type)
    BY Types, TailPopped, HasPopped
  <2>3. CASE r.on /\ ~r.last
    <3>1. CASE Pending
      <4>1. \/ Has(toW, "digest")
            \/ Has(toR, "ask") \/ Has(toR, "confirm") \/ Has(toR, "error")
        BY <3>1 DEF GoesOn, Answered
      <4> QED
        BY <2>1, <2>2, <2>3, <4>1 DEF GoesOn, Ways, CanGoOn
    <3>2. CASE ~Pending
      BY <2>3, <3>2 DEF CanGoOn, Reading, Pending
    <3> QED
      BY <3>1, <3>2
  <2>4. CASE ~(r.on /\ ~r.last)
    <3>1. ~upload /\ ~r.on
      BY <2>4 DEF GoesOn, Ways, Ctl
    <3>2. Has(toR, "send") \/ Has(toW, "done") \/ Has(toW, "error")
      BY <3>1 DEF GoesOn, Attended
    <3>3. toW # << >> => Head(toW).type # "cancel"
      BY <2>2, <3>1 DEF GoesOn, Ways
    <3> QED
      BY <2>1, <3>1, <3>2, <3>3 DEF CanGoOn
  <2> QED
    BY <2>3, <2>4
<1> QED
  BY <1>1, AlwaysGoesOn, SafetyAlways, PTL

\* No end is left behind: while nothing fails, whenever the controlling end has no job any
\* more and the other end has one, the message that ends it is under way.
THEOREM PeersNotLeftBehind == Spec => []NotLeftBehind
<1>1. GoesOn => NotLeftBehind
  BY DEF GoesOn, Told, NotLeftBehind, Ctl, Peer
<1> QED
  BY <1>1, AlwaysGoesOn, PTL
=============================================================================
