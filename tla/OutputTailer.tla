---------------------------- MODULE OutputTailer ----------------------------
(***************************************************************************)
(* The output tailer of one loop (startOutputTailer): it reads what the    *)
(* process appends to its JSONL file, posts the complete lines as output   *)
(* events, and reports how far it got; boot recovery starts another one at *)
(* the offset the job has.  With it those who start and end a tailer: the  *)
(* launch, the exit handler, boot recovery and its disposal.               *)
(*                                                                         *)
(* A line is one the cloud is to see ("shown") or not ("quiet"), and each  *)
(* carries one token.  Offsets count half lines, so that the end of a line *)
(* is an even number and a line the process has begun is half of one.  The *)
(* output of a loop may go to one file after another; a rename keeps the   *)
(* identity of a file and is no step.                                      *)
(*                                                                         *)
(* Left out: a launch in a directory whose last run was cut off within a   *)
(* line, and the moment between two files at which none is found.          *)
(***************************************************************************)
EXTENDS Integers, Sequences, FiniteSets

CONSTANTS
  MaxRetries,   \* DEFAULT_AUTH_RETRY_MAX_COUNT
  MaxLines,     \* bound: lines of a file
  MaxFiles,     \* bound: files of the loop
  MaxBoots      \* bound: starts of the application

ASSUME TailerAssumption ==
  /\ {MaxLines, MaxFiles, MaxBoots} \subseteq Nat \ {0}
  /\ MaxRetries \in Nat

VARIABLES
  alive,        \* the process of the loop
  file,         \* the file its output goes to, 0 before there is one
  lines, half,  \* the complete lines in it, and whether another has begun
  sent,         \* the lines of it the cloud has (history)
  stored,       \* lastObservedJsonlOffset of the job, and its file (history)
  boots,
  tailer,
  post,         \* what each poll that awaits its POST captured before
  flush,        \* how far flush() is, or how it ended
  misread       \* recovery took the offset of another file (history)

output   == <<alive, file, lines, half>>
vars     == <<output, sent, stored, boots, tailer, post, flush, misread>>

Kinds   == {"shown", "quiet"}
Pollers == {"tick", "flush"}
NoPost  == [end |-> 0, totals |-> 0]

(***************************************************************************)
(* The closure of a tailer.  identity: activeFileIdentity, 0 for null;     *)
(* read, committed: the two byte offsets; counted: where totals began      *)
(* (history); backoff: nextAuthRetryAt is to come; throttled: lastSentAt   *)
(* is recent.                                                              *)
(***************************************************************************)
NewTailer(offset) ==
  [on |-> TRUE, timer |-> TRUE, stopped |-> FALSE, identity |-> file,
   read |-> offset, committed |-> offset, counted |-> offset, totals |-> 0,
   attempts |-> 0, exhausted |-> FALSE, backoff |-> FALSE, throttled |-> FALSE]

NoTailer == [NewTailer(0) EXCEPT !.on = FALSE, !.timer = FALSE, !.identity = 0]

Size == 2 * Len(lines) + IF half THEN 1 ELSE 0

LinesIn(from, to) == (from \div 2) + 1 .. to \div 2

-----------------------------------------------------------------------------
(* A poll.                                                                 *)

MutantAdopted == [tailer EXCEPT !.identity = file]

\* updateActiveJsonlPath: another file is read from its beginning.
Adopted ==
  IF tailer.identity = file THEN tailer
  ELSE [tailer EXCEPT !.identity = file, !.read = 0, !.committed = 0,
                      !.counted = 0, !.totals = 0, !.throttled = FALSE]

ReadOn(t) == [t EXCEPT !.read = IF Size > @ THEN Size ELSE @]

MutantFrameEnd(t) == t.read

\* The frame ends with the last line that was read to its end.
FrameEnd(t) == 2 * (t.read \div 2)

Committed(t, end, totals) ==
  [t EXCEPT !.committed = IF end > @ THEN end ELSE @, !.totals = totals]

\* onOffset, by the same condition.
Report(t, end) ==
  stored' = IF end > t.committed THEN [offset |-> end, file |-> t.identity]
            ELSE stored

FlushEnds(w, how) == flush' = IF w = "flush" THEN how ELSE flush

Stopped(w, t) == IF w = "flush" THEN [t EXCEPT !.stopped = TRUE] ELSE t

MutantIdle(w) ==
  tailer.stopped \/ tailer.exhausted \/ tailer.backoff \/ file = 0

\* pollOnce turns back: stopped, exhausted, in backoff, or no file.
Idle(w) ==
  \/ tailer.stopped
  \/ w = "tick" /\ (tailer.exhausted \/ tailer.backoff)
  \/ file = 0

(***************************************************************************)
(* pollOnce up to its POST, when it has a line to show.  A frame without   *)
(* one is committed at once.                                               *)
(***************************************************************************)
Poll(w) ==
  LET t == ReadOn(Adopted)
      end == FrameEnd(t)
      frame == LinesIn(t.committed, end)
      totals == t.totals + Cardinality(frame)
      show == \E i \in frame : i <= Len(lines) /\ lines[i] = "shown"
  IN
  /\ ~Idle(w)
  /\ \/ /\ end <= t.committed
        /\ tailer' = Stopped(w, t)
        /\ FlushEnds(w, "delivered")
        /\ UNCHANGED <<stored, post>>
     \/ /\ end > t.committed /\ ~show
        /\ tailer' = Stopped(w, Committed(t, end, totals))
        /\ Report(t, end)
        /\ FlushEnds(w, "delivered")
        /\ UNCHANGED post
     \/ /\ end > t.committed /\ show /\ t.throttled
        /\ tailer' = Stopped(w, t)
        /\ FlushEnds(w, "throttled")
        /\ UNCHANGED <<stored, post>>
     \/ /\ end > t.committed /\ show /\ ~t.throttled
        /\ tailer' = t
        /\ post' = [post EXCEPT ![w] = [end |-> end, totals |-> totals]]
        /\ FlushEnds(w, "posting")
        /\ UNCHANGED stored
  /\ UNCHANGED <<output, sent, boots, misread>>

\* The interval; one poll at a time.
Tick ==
  /\ tailer.timer
  /\ post["tick"] = NoPost
  /\ Poll("tick")

-----------------------------------------------------------------------------
(* The answer to a POST.                                                   *)

Accept(w) ==
  sent' = IF tailer.identity = file
          THEN sent \cup LinesIn(tailer.committed, post[w].end)
          ELSE sent

\* 2xx.  The throttle counts from before the POST and may be over.  A tailer
\* that was stopped meanwhile commits nevertheless.
Answered(w) ==
  LET end == post[w].end
      t == [Committed(tailer, end, post[w].totals) EXCEPT
              !.attempts = 0, !.exhausted = FALSE, !.backoff = FALSE]
  IN
  /\ post[w] # NoPost
  /\ Accept(w)
  /\ Report(tailer, end)
  /\ \E recent \in BOOLEAN :
       tailer' = Stopped(w, [t EXCEPT !.throttled = recent])
  /\ FlushEnds(w, "delivered")
  /\ post' = [post EXCEPT ![w] = NoPost]
  /\ UNCHANGED <<output, boots, misread>>

\* 401 (the token was refreshed and the POST repeated before), 403, 5xx, no
\* token, or no answer, when the cloud may have the event.
Retries(w) ==
  LET attempts == tailer.attempts + 1
      t == IF attempts > MaxRetries
           THEN [tailer EXCEPT !.exhausted = TRUE]
           ELSE [tailer EXCEPT !.attempts = attempts, !.backoff = TRUE]
  IN
  /\ post[w] # NoPost
  /\ Accept(w) \/ UNCHANGED sent
  /\ tailer' = Stopped(w, t)
  /\ FlushEnds(w, "refused")
  /\ post' = [post EXCEPT ![w] = NoPost]
  /\ UNCHANGED <<output, stored, boots, misread>>

\* Any other 4xx.
Refuses(w) ==
  /\ post[w] # NoPost
  /\ tailer' = Stopped(w, tailer)
  /\ FlushEnds(w, "refused")
  /\ post' = [post EXCEPT ![w] = NoPost]
  /\ UNCHANGED <<output, sent, stored, boots, misread>>

ThrottleEnds ==
  /\ tailer.throttled
  /\ tailer' = [tailer EXCEPT !.throttled = FALSE]
  /\ UNCHANGED <<output, sent, stored, boots, post, flush, misread>>

BackoffEnds ==
  /\ tailer.backoff
  /\ tailer' = [tailer EXCEPT !.backoff = FALSE]
  /\ UNCHANGED <<output, sent, stored, boots, post, flush, misread>>

-----------------------------------------------------------------------------
(* The end of a tailer.                                                    *)

\* The exit handler, or the watcher of a recovered process.
Flush ==
  /\ tailer.on
  /\ ~alive
  /\ ~tailer.stopped
  /\ flush = "none"
  /\ flush' = "waiting"
  /\ tailer' = [tailer EXCEPT !.timer = FALSE]
  /\ UNCHANGED <<output, sent, stored, boots, post, misread>>

MutantFlushPolls ==
  /\ flush = "waiting"
  /\ \/ Poll("flush")
     \/ /\ Idle("flush")
        /\ flush' = IF tailer.stopped THEN "stopped" ELSE "idle"
        /\ tailer' = Stopped("flush", tailer)
        /\ UNCHANGED <<output, sent, stored, boots, post, misread>>

\* Its own poll, after the one in flight.
FlushPolls ==
  /\ flush = "waiting"
  /\ post["tick"] = NoPost
  /\ \/ Poll("flush")
     \/ /\ Idle("flush")
        /\ flush' = IF tailer.stopped THEN "stopped" ELSE "idle"
        /\ tailer' = Stopped("flush", tailer)
        /\ UNCHANGED <<output, sent, stored, boots, post, misread>>

\* The disposal of boot recovery, for the tailers it started.
Stop ==
  /\ boots > 1
  /\ tailer.on
  /\ tailer' = [tailer EXCEPT !.stopped = TRUE, !.timer = FALSE]
  /\ UNCHANGED <<output, sent, stored, boots, post, flush, misread>>

\* The application ends, or crashes; the cloud may have what was in flight.
Crash ==
  /\ tailer.on
  /\ boots < MaxBoots
  /\ tailer' = NoTailer
  /\ post' = [w \in Pollers |-> NoPost]
  /\ flush' = "none"
  /\ \/ UNCHANGED sent
     \/ \E w \in Pollers : post[w] # NoPost /\ Accept(w)
  /\ UNCHANGED <<output, stored, boots, misread>>

\* reattachLiveJob: a process that is gone has no tailer any more.
Recover ==
  /\ ~tailer.on
  /\ boots < MaxBoots
  /\ alive
  /\ boots' = boots + 1
  /\ tailer' = NewTailer(stored.offset)
  /\ misread' = (misread \/ stored.file # file)
  /\ UNCHANGED <<output, sent, stored, post, flush>>

-----------------------------------------------------------------------------
(* The process.                                                            *)

BeginLine ==
  /\ alive
  /\ file > 0 /\ ~half /\ Len(lines) < MaxLines
  /\ half' = TRUE
  /\ UNCHANGED <<alive, file, lines, sent, stored, boots, tailer, post, flush,
                 misread>>

EndLine ==
  /\ alive
  /\ half
  /\ half' = FALSE
  /\ \E kind \in Kinds : lines' = Append(lines, kind)
  /\ UNCHANGED <<alive, file, sent, stored, boots, tailer, post, flush, misread>>

NextFile ==
  /\ alive
  /\ file < MaxFiles
  /\ file' = file + 1
  /\ lines' = <<>>
  /\ half' = FALSE
  /\ sent' = {}
  /\ UNCHANGED <<alive, stored, boots, tailer, post, flush, misread>>

Exit ==
  /\ alive
  /\ alive' = FALSE
  /\ UNCHANGED <<file, lines, half, sent, stored, boots, tailer, post, flush,
                 misread>>

-----------------------------------------------------------------------------

\* The launch: there is no output yet, or a file with a line of an earlier run.
Init ==
  /\ alive = TRUE
  /\ \/ file = 0 /\ lines = <<>>
     \/ file = 1 /\ lines = <<"shown">>
  /\ half = FALSE
  /\ sent = DOMAIN lines
  /\ stored = [offset |-> Size, file |-> file]
  /\ boots = 1
  /\ tailer = NewTailer(Size)
  /\ post = [w \in Pollers |-> NoPost]
  /\ flush = "none"
  /\ misread = FALSE

AnswerStep(w) == Answered(w) \/ Retries(w) \/ Refuses(w)

Next ==
  \/ Tick
  \/ \E w \in Pollers : AnswerStep(w)
  \/ ThrottleEnds \/ BackoffEnds
  \/ Flush \/ FlushPolls \/ Stop \/ Crash \/ Recover
  \/ BeginLine \/ EndLine \/ NextFile \/ Exit

Spec == Init /\ [][Next]_vars

(***************************************************************************)
(* Timers fire and requests are answered or fail.  A POST that is made     *)
(* again and again is accepted at last.                                    *)
(***************************************************************************)
Fairness ==
  /\ WF_vars(Tick)
  /\ WF_vars(ThrottleEnds)
  /\ WF_vars(BackoffEnds)
  /\ \A w \in Pollers : WF_vars(AnswerStep(w)) /\ SF_vars(Answered(w))
  /\ WF_vars(FlushPolls)

FairSpec == Spec /\ Fairness

-----------------------------------------------------------------------------
(* Properties.                                                             *)

Offsets == 0..(2 * MaxLines + 1)

\* Every variable has its type.
TypeOK ==
  /\ {alive, half, misread} \subseteq BOOLEAN
  /\ file \in 0..MaxFiles
  /\ lines \in Seq(Kinds) /\ Len(lines) <= MaxLines
  /\ sent \subseteq 1..MaxLines
  /\ stored \in [offset : Offsets, file : 0..MaxFiles]
  /\ boots \in 1..MaxBoots
  /\ tailer \in [on : BOOLEAN, timer : BOOLEAN, stopped : BOOLEAN,
                 identity : 0..MaxFiles, read : Offsets, committed : Offsets,
                 counted : Offsets, totals : 0..MaxLines,
                 attempts : 0..MaxRetries, exhausted : BOOLEAN,
                 backoff : BOOLEAN, throttled : BOOLEAN]
  /\ post \in [Pollers -> [end : Offsets, totals : 0..MaxLines]]
  /\ flush \in {"none", "waiting", "posting", "delivered", "throttled",
                "refused", "idle", "stopped"}

Delivered(offset) ==
  /\ offset % 2 = 0
  /\ \A i \in LinesIn(0, offset) :
       i <= Len(lines) /\ lines[i] = "shown" => i \in sent

(***************************************************************************)
(* The offset the job has is the end of a line, and the cloud has every    *)
(* line before it: whatever the answers, a recovery that starts there      *)
(* misses nothing - as long as it is an offset into the file that is read. *)
(***************************************************************************)
ReplaySafe == stored.file = file /\ ~misread => Delivered(stored.offset)

(***************************************************************************)
(* The totals that go with the output count each line since the tailer     *)
(* began with its file once, through retries, throttled polls, answers     *)
(* that are lost and a flush that comes during a POST.                     *)
(***************************************************************************)
TotalsCountOnce ==
  tailer.on => 2 * tailer.totals = tailer.committed - tailer.counted

(***************************************************************************)
(* flush() leaves no line behind, backoff and exhausted retries or not,    *)
(* unless the cloud refused its own POST, the throttle held it back or the *)
(* tailer was stopped before.                                              *)
(***************************************************************************)
FlushDelivers ==
  flush \in {"delivered", "idle"} /\ ~misread
    => \A i \in DOMAIN lines : lines[i] = "shown" => i \in sent

(***************************************************************************)
(* A line that is to be shown reaches the cloud while the tailer runs on   *)
(* in its file: through refusals, backoff and throttling.                  *)
(***************************************************************************)
Missing(f, i) ==
  file = f /\ i \in DOMAIN lines /\ lines[i] = "shown" /\ i \notin sent

Over == ~tailer.on \/ tailer.stopped \/ tailer.exhausted \/ ~tailer.timer \/ misread

OutputArrives ==
  \A f \in 1..MaxFiles, i \in 1..MaxLines :
    Missing(f, i) ~> ~Missing(f, i) \/ Over

=============================================================================
